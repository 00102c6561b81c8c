----------------------------- MODULE MCHttpHandle -----------------------------
(* Bodies of no, one and two bytes; forms of one and two parts. *)
EXTENDS HttpHandle

MCBodies == {<<>>, <<"a">>, <<"b", "c">>}

MCForms == {<<"file">>, <<"password", "file">>}

=============================================================================
