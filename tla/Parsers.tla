-------------------------------- MODULE Parsers --------------------------------
(***************************************************************************)
(* The *_from_json functions (src/*.cpp, one file per model): which places *)
(* of a document each looks at, and how.                                   *)
(*                                                                         *)
(* A parser is a function from the names of its sections to sections.  A   *)
(* section is an object of the document, or all the elements of an array   *)
(* or of a map, with the section that holds it ("root" for none), how it   *)
(* is entered, and the accessor of each of its fields:                     *)
(*                                                                         *)
(*   json, json int, json narrow                                           *)
(*       json_string and its kin, or is_*() before get(): what is missing  *)
(*       or of another type gives the default.  "int" is json_int,         *)
(*       "narrow" its result cast to int; a list passes over odd elements  *)
(*   value, value int                                                      *)
(*       value(key, default): what is missing gives the default, what is   *)
(*       of another type or null throws.  "int" is value(key, 0), whose    *)
(*       type is that of the literal                                       *)
(*   present     contains(), then get()                                    *)
(*   nullable    contains() and not null, then get()                       *)
(*                                                                         *)
(* A section is entered "object" when what is not an object is skipped,    *)
(* and "any" when nobody looks, so that value() throws.                    *)
(***************************************************************************)
EXTENDS Integers, Sequences, FiniteSets

\* Both functions together; the left one counts where both have a value.
f ++ g ==
    [x \in DOMAIN f \cup DOMAIN g |-> IF x \in DOMAIN f THEN f[x] ELSE g[x]]

Sections(names, holder, enter, fields) ==
    [name \in names |-> [holder |-> holder, enter |-> enter, fields |-> fields]]

Section(name, holder, enter, fields) == Sections({name}, holder, enter, fields)

Object(name, holder, fields) == Section(name, holder, "object", fields)

Each(accessor, names) == [name \in names |-> accessor]

NoFields == Each("json", {})

-----------------------------------------------------------------------------

\* Parts that several parsers have.

Named(accessor) == Each(accessor, {"type", "id"})

Stats(accessor) ==
    Each(accessor, {"harmless", "malicious", "suspicious", "timeout",
                    "undetected", "type-unsupported"})

Verdict(accessor) ==
    Each(accessor, {"category", "result", "engine_name", "engine_update",
                    "engine_version"})

Votes == Each("value int", {"harmless", "malicious"})

\* data, its type and id, and its link to itself.
Data(accessor, self) ==
    Object("data", "root", Named(accessor))
    ++ Object("links", "data", Each(self, {"self"}))

\* A list with its links and its count.
List(self, next, meta) ==
    Object("meta", "root", meta)
    ++ Object("links", "root", Each(self, {"self"}) ++ Each(next, {"next"}))

\* A next cursor is a string, which is as good as any, or has a "href".
Cursor ==
    Object("links", "root", Each("present", {"self"}))
    ++ Object("next", "links", Each("present", {"href"}))

-----------------------------------------------------------------------------

analysis_report_from_json ==
    Data("value", "present")
    ++ Object("attributes", "data",
        Each("value", {"status"}) ++ Each("value int", {"date"}))
    ++ Object("stats", "attributes", Stats("value int"))
    ++ Object("results", "attributes", NoFields)
    ++ Object("engine", "results", Verdict("nullable"))

\* The verdicts of URLs, addresses and domains.
Verdicts ==
    Object("last_analysis_stats", "attributes", Stats("value int"))
    ++ Object("last_analysis_results", "attributes", NoFields)
    ++ Section("engine", "last_analysis_results", "any", Verdict("value"))

url_report_from_json ==
    Data("value", "present")
    ++ Object("attributes", "data",
        Each("value", {"url"})
        ++ Each("value int", {"last_analysis_date", "last_modification_date",
                              "times_submitted", "reputation"}))
    ++ Verdicts

ip_report_from_json ==
    Data("value", "present")
    ++ Object("attributes", "data",
        Each("value", {"as_owner", "continent", "country", "network",
                       "regional_internet_registry"})
        ++ Each("value int", {"asn", "first_seen_date", "last_analysis_date",
                              "last_modification_date", "whois_date",
                              "reputation"})
        ++ Each("json", {"tags"}))
    ++ Object("total_votes", "attributes", Votes)
    ++ Verdicts
    ++ Object("last_dns_records", "attributes", NoFields)
    ++ Object("record", "last_dns_records",
        Each("value", {"ip_address", "hostname"})
        ++ Each("value int", {"last_resolved"}))

domain_report_from_json ==
    Data("value", "present")
    ++ Object("attributes", "data",
        Each("value", {"registrar", "whois"})
        ++ Each("value int", {"creation_date", "first_seen_date",
                "last_analysis_date", "last_modification_date",
                "last_update_date", "whois_date", "last_dns_records_date",
                "reputation"})
        ++ Each("json", {"categories", "tags"}))
    ++ Object("total_votes", "attributes", Votes)
    ++ Verdicts
    ++ Object("last_dns_records", "attributes",
        Each("value", {"type", "value", "rname", "tag"})
        ++ Each("value int", {"ttl", "priority", "serial", "refresh", "retry",
                              "expire", "minimum", "flag"}))
    ++ Object("popularity_ranks", "attributes",
        Each("value int", {"rank", "timestamp"}))

resolution_from_json ==
    Data("value", "present")
    ++ Object("attributes", "data",
        Each("value", {"host_name", "ip_address", "resolver"})
        ++ Each("value int", {"date"}))
    ++ Sections({"host_name_last_analysis_stats",
                 "ip_address_last_analysis_stats"},
                "attributes", "object", Stats("value int"))

file_report_from_json ==
    Data("json", "json")
    ++ Object("attributes", "data",
        Each("json", {"sha256", "sha1", "md5", "type_description", "magic",
                      "tlsh", "meaningful_name", "names", "type_tags"})
        ++ Each("json int", {"size", "creation_date", "first_submission_date",
                "last_submission_date", "last_analysis_date",
                "last_modification_date"})
        ++ Each("json narrow", {"times_submitted", "reputation"}))
    ++ Object("last_analysis_stats", "attributes", Stats("json int"))
    ++ Object("last_analysis_results", "attributes", NoFields)
    ++ Object("engine", "last_analysis_results", Verdict("json"))

\* data is one behaviour here, an element of the list in the parser below.
file_behaviour_from_json ==
    Data("json", "json")
    ++ Object("attributes", "data",
        Each("json", {"sandbox_name", "behash", "verdicts", "tags",
                      "has_html_report", "has_pcap"})
        ++ Each("json int", {"analysis_date", "last_modification_date"}))
    ++ Object("mitre_attack_techniques", "attributes",
        Each("json", {"id", "signature_description"}))
    ++ Object("signature_matches", "attributes",
        Each("json", {"id", "name", "description", "format", "rule_src",
                      "authors", "match_data"}))

behaviour_list_from_json ==
    Object("meta", "root", Each("json int", {"count"}))
    ++ file_behaviour_from_json

\* Whether or not there is an "attributes" in between.
behaviour_summary_from_json ==
    Object("data", "root", Each("json", {"behash", "tags", "verdicts"}))

collection_from_json ==
    Data("value", "json")
    ++ Object("attributes", "data",
        Each("value", {"description", "description_html", "link", "name",
                "recent_activity_relative_change", "source_region",
                "sponsor_region", "status", "tlp"})
        ++ Each("value int", {"creation_date", "domains_count", "files_count",
                "ip_addresses_count", "last_modification_date",
                "references_count", "urls_count"})
        ++ Each("json", {"alt_names", "autogenerated_tags", "tags",
                "targeted_industries", "targeted_regions", "top_icon_md5",
                "recent_activity_summary"}))
    ++ Object("summary_stats", "attributes", NoFields)
    ++ Sections({"first_submission_date", "last_submission_date",
                 "files_detections", "urls_detections"},
                "summary_stats", "object",
                Each("value", {"min", "max", "avg"}))

\* The parser of an element, whose links are not those of the list.
ElementOf(parser) ==
    [name \in (DOMAIN parser \ {"links"}) \cup {"element links"} |->
        parser[IF name = "element links" THEN "links" ELSE name]]

collection_list_from_json ==
    List("json", "json", Each("value int", {"count"}))
    ++ ElementOf(collection_from_json)

graph_from_json ==
    Data("value", "json")
    ++ Object("attributes", "data",
        Each("value", {"private"})
        ++ Each("value int", {"comments_count", "creation_date",
                              "last_modified_date", "views_count"}))
    ++ Object("graph_data", "attributes",
        Each("value", {"description", "version"}))
    ++ Object("nodes", "attributes",
        Each("value", {"type", "entity_id", "text", "x", "y"})
        ++ Each("value int", {"index"}) ++ Each("json", {"fx", "fy"}))
    ++ Object("entity_attributes", "nodes",
        Each("value", {"has_detections", "type_tag", "country",
                       "relationship_type", "intelligence_query", "ruleset_id",
                       "retrohunt_job_id"}))
    ++ Object("commonalities", "entity_attributes",
        Each("value", {"commonality", "value"}))
    ++ Object("edges", "attributes",
        Each("value", {"connection_type", "source", "target"}))

graph_list_from_json ==
    List("json", "json", Each("value int", {"count"}))
    ++ ElementOf(graph_from_json)

\* data is the comment: the client unwraps it.
comment_from_json ==
    Object("data", "root", Named("value"))
    ++ Object("links", "data", Each("present", {"self"}))
    ++ Object("attributes", "data",
        Each("nullable", {"text", "html"}) ++ Each("value int", {"date"}))
    ++ Object("votes", "attributes",
        Each("value int", {"positive", "negative"}))

comment_list_from_json == Cursor ++ ElementOf(comment_from_json)

search_result_from_json ==
    Cursor
    ++ Object("meta", "root", Each("present", {"count"}))
    ++ Object("data", "root", Named("value"))

saved_search_from_json == Object("data", "root", Named("value"))

saved_search_list_from_json == saved_search_from_json

scan_result_from_json ==
    Data("json", "json")
    ++ Object("meta", "root", NoFields)
    ++ Object("file_info", "meta",
        Each("json", {"sha256", "sha1", "md5", "name"})
        ++ Each("json int", {"size"}))

\* Mutant of relationship_list_from_json: the count is cast to int.
relationship_list_narrow ==
    List("json", "json", Each("json narrow", {"count"}))
    ++ Object("data", "root", Named("json"))

relationship_list_from_json ==
    List("json", "json", Each("json int", {"count"}))
    ++ Object("data", "root", Named("json"))

mitre_summary_from_json ==
    Object("data", "root", NoFields)
    ++ Object("sandbox", "data", NoFields)
    ++ Object("tactics", "sandbox",
        Each("json", {"id", "name", "description", "link"}))
    ++ Object("techniques", "tactics",
        Each("json", {"id", "name", "description", "link"}))
    ++ Object("signatures", "techniques",
        Each("json", {"severity", "description"}))

sigma_rule_from_json ==
    Object("data", "root", Each("json", {"id"}))
    ++ Object("attributes", "data",
        Each("json", {"title", "description", "level", "status", "source",
                      "tags", "false_positives", "fields", "references"}))

yara_rule_from_json ==
    Data("json", "json")
    ++ Object("attributes", "data",
        Each("json", {"name", "author", "rule", "tags", "threat_categories",
                      "enabled", "meta"})
        ++ Each("json int", {"matches", "creation_date", "included_date",
                             "last_modification_date"}))

yara_rule_list_from_json ==
    List("json", "json", Each("json", {"cursor"}))
    ++ ElementOf(yara_rule_from_json)

yara_ruleset_from_json ==
    Object("data", "root", Each("json", {"id"}))
    ++ Object("attributes", "data", Each("json", {"name", "rules", "source"}))

zip_file_from_json ==
    Object("data", "root", Named("json"))
    ++ Object("attributes", "data",
        Each("json", {"status"})
        ++ Each("json narrow", {"progress", "files_ok", "files_error"}))

\* The value is kept as it is.
metadata_from_json == Object("data", "root", NoFields)

-----------------------------------------------------------------------------

\* The parsers, and the kind that Endpoints has each of them down as.
Strict == [
    analysis_report |-> analysis_report_from_json,
    url_report      |-> url_report_from_json,
    ip_report       |-> ip_report_from_json,
    domain_report   |-> domain_report_from_json,
    resolution      |-> resolution_from_json,
    collection      |-> collection_from_json,
    collection_list |-> collection_list_from_json,
    graph           |-> graph_from_json,
    graph_list      |-> graph_list_from_json,
    comment         |-> comment_from_json,
    comment_list    |-> comment_list_from_json,
    search_result   |-> search_result_from_json,
    saved_search    |-> saved_search_from_json,
    saved_search_list |-> saved_search_list_from_json ]

Tolerant == [
    file_report       |-> file_report_from_json,
    file_behaviour    |-> file_behaviour_from_json,
    behaviour_list    |-> behaviour_list_from_json,
    behaviour_summary |-> behaviour_summary_from_json,
    scan_result       |-> scan_result_from_json,
    relationship_list |-> relationship_list_from_json,
    mitre_summary     |-> mitre_summary_from_json,
    sigma_rule        |-> sigma_rule_from_json,
    yara_rule         |-> yara_rule_from_json,
    yara_rule_list    |-> yara_rule_list_from_json,
    yara_ruleset      |-> yara_ruleset_from_json,
    zip_file          |-> zip_file_from_json,
    metadata          |-> metadata_from_json ]

ParserOf == Strict ++ Tolerant

-----------------------------------------------------------------------------

\* The places of a document: the sections themselves, and their fields.
Places(parser) ==
    {<<s, "">> : s \in DOMAIN parser}
    \cup UNION {{s} \X DOMAIN parser[s].fields : s \in DOMAIN parser}

Accessor(parser, place) == parser[place[1]].fields[place[2]]

Integer == {"json int", "json narrow", "value int"}

\* What may be at a place, beside what is meant to be there.  A number is wide
\* when it takes more than 32 bits.
Oddities(parser, place) ==
    {"absent", "null", "other"}
    \cup {o \in {"wide"} : place[2] # "" /\ Accessor(parser, place) \in Integer}

Indifferent == {"json", "json int", "json narrow"}

\* Mutant of TakenAbsent: the key of a nullable value has to be there.
TakenAbsentUnlessNull(accessor) ==
    IF accessor = "nullable" THEN "throws" ELSE "default"

TakenAbsent(accessor) == "default"

\* What an accessor makes of what it finds.
Taken(accessor, shape) ==
    CASE shape = "fine" -> "value"
      [] shape = "wide" -> IF accessor = "json int" THEN "value" ELSE "narrowed"
      [] shape = "absent" -> TakenAbsent(accessor)
      [] shape = "null" -> IF accessor \in Indifferent \cup {"nullable"}
                           THEN "default" ELSE "throws"
      [] shape = "other" -> IF accessor \in Indifferent
                            THEN "default" ELSE "throws"

\* A document is what is odd in it, as a function of the place.
Shape(document, place) ==
    IF place \in DOMAIN document THEN document[place] ELSE "fine"

\* The sections around each section.
Around ==
    [n \in DOMAIN ParserOf |->
        LET parser == ParserOf[n]
            Holders[s \in DOMAIN parser \cup {"root"}] ==
                IF s = "root" \/ parser[s].holder = "root" THEN {}
                ELSE {parser[s].holder} \cup Holders[parser[s].holder]
        IN  Holders]

\* The sections that the parser named n comes to, and those it goes into.
Reached(n, document) ==
    {s \in DOMAIN ParserOf[n] :
        \A t \in Around[n][s] : Shape(document, <<t, "">>) = "fine"}

Entered(n, document) ==
    {s \in Reached(n, document) : Shape(document, <<s, "">>) = "fine"}

Throws(n, document) ==
    \/ \E s \in Reached(n, document) :
        /\ ParserOf[n][s].enter = "any"
        /\ Shape(document, <<s, "">>) \in {"null", "other"}
    \/ \E place \in DOMAIN document :
        /\ place[1] \in Entered(n, document) /\ place[2] # ""
        /\ Taken(Accessor(ParserOf[n], place), document[place]) = "throws"

\* The field of the model, if there is a model.
Field(n, document, place) ==
    IF place[1] \in Entered(n, document)
    THEN Taken(Accessor(ParserOf[n], place), Shape(document, place))
    ELSE "default"

=============================================================================
