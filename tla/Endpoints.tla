------------------------------ MODULE Endpoints ------------------------------
(***************************************************************************)
(* The methods of VirusTotal (src/client.cpp), each as the sequence of     *)
(* steps its body takes, in the order of the source:                       *)
(*                                                                         *)
(*   check    the tests on its arguments, which throw VtError              *)
(*   encode   json::dump() of a body that holds a text of the caller's,    *)
(*            which throws json::type_error when it is not valid UTF-8     *)
(*   wait     limiter_.wait()                                              *)
(*   GET, POST, PATCH, DELETE   one exchange of http_                      *)
(*   bytes, nothing, dump, lenient, strict, flag, string, list, insight    *)
(*            what becomes of the response, see Responses                  *)
(*   store    write_file_atomic                                            *)
(*                                                                         *)
(* Overloads with the same steps share a row.  await_analysis is modelled  *)
(* by a module of its own, the four batches and the two methods that catch *)
(* NotFound by ClientCalls.                                                *)
(***************************************************************************)
EXTENDS Sequences

Verbs == {"GET", "POST", "PATCH", "DELETE"}

Exchange(verb, decode) == <<"wait", verb, decode>>

Get(decode) == Exchange("GET", decode)

Post(decode) == Exchange("POST", decode)

\* The body is serialised in the argument list of the exchange, after wait().
PostText(decode) == <<"wait", "encode", "POST", decode>>

\* The body is serialised before wait().
Encoded(steps) == <<"encode">> \o steps

Checked(steps) == <<"check">> \o steps

-----------------------------------------------------------------------------

FileCalls == [
    get_file_report           |-> Checked(Get("lenient")),
    get_public_file_scan_link |-> <<"check">>,
    scan_file                 |-> Checked(Post("lenient")),
    scan_large_file           |-> Checked(Get("string") \o Post("lenient")),
    get_file_download_url     |-> Checked(Get("string")),
    download_file             |-> Checked(Get("bytes") \o <<"store">>),
    rescan_file               |-> Checked(Post("lenient")) ]

BehaviourCalls == [
    get_file_behaviours              |-> Checked(Get("lenient")),
    get_file_behaviour_summary       |-> Checked(Get("lenient")),
    get_file_behaviour               |-> Get("lenient"),
    get_file_behaviour_relationships |-> Get("lenient"),
    get_file_behaviour_file          |-> Get("bytes"),
    get_file_relationships           |-> Checked(Get("lenient")),
    get_sigma_rule                   |-> Get("lenient"),
    get_yara_ruleset                 |-> Get("lenient"),
    get_mitre_summary                |-> Checked(Get("lenient")) ]

UrlScanCalls == [
    scan_url                 |-> Checked(Post("lenient")),
    get_public_url_scan_link |-> <<"check">> ]

UrlCalls == [
    get_url_report        |-> Get("strict"),
    rescan_url            |-> Post("lenient"),
    get_url_comments      |-> Get("dump"),
    post_url_comment      |-> PostText("nothing"),
    post_url_vote         |-> Post("nothing"),
    get_url_votes         |-> Get("dump"),
    get_url_relationships |-> Get("dump") ]

IpCalls == [
    get_ip_report        |-> Checked(Get("strict")),
    rescan_ip            |-> Checked(Post("lenient")),
    get_ip_comments      |-> Checked(Get("dump")),
    post_ip_comment      |-> Checked(PostText("nothing")),
    post_ip_vote         |-> Checked(Post("nothing")),
    get_ip_votes         |-> Checked(Get("dump")),
    get_ip_relationships |-> Checked(Get("dump")) ]

DomainCalls == [
    get_domain_report        |-> Checked(Get("strict")),
    rescan_domain            |-> Checked(Post("lenient")),
    get_domain_comments      |-> Checked(Get("dump")),
    post_domain_comment      |-> Checked(PostText("nothing")),
    post_domain_vote         |-> Checked(Post("nothing")),
    get_domain_votes         |-> Checked(Get("dump")),
    get_domain_relationships |-> Checked(Get("dump")) ]

AnalysisCalls == [
    get_resolution |-> Checked(Get("strict")),
    get_analysis   |-> Checked(Get("strict")) ]

CommentCalls == [
    get_comments        |-> Checked(Get("strict")),
    get_comments_latest |-> Get("strict"),
    get_comment         |-> Checked(Get("strict")),
    delete_comment      |-> Checked(Exchange("DELETE", "nothing")),
    post_comment        |-> Checked(PostText("nothing")),
    vote_comment        |-> Checked(Post("nothing")) ]

ObjectCalls == [
    put_vote                    |-> Checked(Post("nothing")),
    get_votes                   |-> Checked(Get("dump")),
    get_relationships           |-> Checked(Get("dump")),
    get_relationship_descriptor |-> Checked(Get("dump")) ]

SearchCalls == [
    search              |-> Checked(Get("strict")),
    intelligence_search |-> Checked(PostText("dump")),
    get_search_snippets |-> Checked(Get("dump")),
    get_metadata        |-> Get("lenient"),
    get_saved_searches  |-> Get("strict"),
    get_saved_search    |-> Checked(Get("strict")),
    create_saved_search |-> Checked(PostText("strict")),
    update_saved_search |-> <<"check", "wait", "encode", "PATCH", "strict">>,
    delete_saved_search |-> Checked(Exchange("DELETE", "nothing")) ]

CollectionCalls == [
    create_collection |-> Checked(Encoded(Post("strict"))),
    get_collection    |-> Checked(Get("strict")),
    update_collection |-> Checked(Encoded(Exchange("PATCH", "strict"))),
    delete_collection |-> Checked(Exchange("DELETE", "nothing")) ]

CollectionPartCalls == [
    list_collections            |-> Checked(Get("strict")),
    get_collection_comments     |-> Checked(Get("strict")),
    post_collection_comment     |-> Checked(PostText("strict")),
    add_collection_items        |-> Checked(PostText("nothing")),
    remove_collection_items     |->
        <<"check", "wait", "encode", "DELETE", "nothing">>,
    get_collection_relationships            |-> Checked(Get("lenient")),
    get_collection_relationship_descriptors |-> Checked(Get("lenient")),
    export_collection_iocs                  |-> Checked(Get("bytes")),
    export_collection_relationship_iocs     |-> Checked(Get("bytes")),
    export_collection_aggregations          |-> Checked(Get("bytes")),
    search_collection_iocs                  |-> Checked(Get("strict")) ]

GraphCalls == [
    create_graph  |-> Checked(Encoded(Post("strict"))),
    get_graph     |-> Checked(Get("strict")),
    update_graph  |-> Checked(Encoded(Exchange("PATCH", "strict"))),
    delete_graph  |-> Checked(Exchange("DELETE", "nothing")),
    search_graphs |-> Checked(Get("strict")) ]

GraphPartCalls == [
    get_graph_comments                 |-> Checked(Get("strict")),
    post_graph_comment                 |-> Checked(PostText("strict")),
    get_graph_relationships            |-> Checked(Get("lenient")),
    get_graph_relationship_descriptors |-> Checked(Get("lenient")),
    get_graph_viewers                  |-> Checked(Get("lenient")),
    get_graph_editors                  |-> Checked(Get("lenient")),
    add_graph_viewers                  |-> Checked(PostText("lenient")),
    add_graph_editors                  |-> Checked(PostText("lenient")),
    check_graph_viewer                 |-> Checked(Get("flag")),
    check_graph_editor                 |-> Checked(Get("flag")),
    remove_graph_viewer |-> Checked(Exchange("DELETE", "nothing")),
    remove_graph_editor |-> Checked(Exchange("DELETE", "nothing")) ]

YaraCalls == [
    list_yara_rules                        |-> Checked(Get("lenient")),
    get_yara_rule                          |-> Checked(Get("lenient")),
    get_yara_rule_relationships            |-> Checked(Get("lenient")),
    get_yara_rule_relationship_descriptors |-> Checked(Get("lenient")) ]

ZipCalls == [
    create_zip           |-> Checked(PostText("lenient")),
    get_zip_status       |-> Checked(Get("lenient")),
    get_zip_download_url |-> Checked(Get("string")),
    download_zip         |-> Checked(Get("bytes") \o <<"store">>) ]

InsightCalls == [
    analyse_code                  |-> Checked(PostText("insight")),
    get_popular_threat_categories |-> Get("list") ]

Tables ==
    {FileCalls, BehaviourCalls, UrlScanCalls, UrlCalls, IpCalls, DomainCalls,
     AnalysisCalls, CommentCalls, ObjectCalls, SearchCalls, CollectionCalls,
     CollectionPartCalls, GraphCalls, GraphPartCalls, YaraCalls, ZipCalls,
     InsightCalls}

Methods == UNION {DOMAIN table : table \in Tables}

\* The steps of a method are in the one table that has a row for it.
Steps ==
    [method \in Methods |->
        (CHOOSE table \in Tables : method \in DOMAIN table)[method]]

=============================================================================
