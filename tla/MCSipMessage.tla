---------------------------- MODULE MCSipMessage ----------------------------
(* Model-checking instance of SipMessage: requests put together from variants *)
(* of each header, in several orders, with and without an unterminated rest.  *)
EXTENDS SipMessage, SequencesExt

\* A header line with the text v
Line(h, v) == <<h>> \o Filler(NameLen[h] - 1) \o <<":", " ">> \o v \o <<"CR", "LF">>

Tag == <<"tag=", ".", ".", ".">>
Branch == <<"branch=", ".", ".", ".", ".", ".", ".">>

Params(name) == {
  <<"v", ";">> \o name \o <<"v">>,                      \* one parameter
  <<"v", ";", " ">> \o name \o <<"v", ";", "v">>,       \* and another one after it
  <<"v", ";">> \o name,                                 \* an empty one
  <<"v", ";">> \o name \o <<"v", "CR", "v">>,           \* a CR without LF
  <<"v", ";", "v">>,                                    \* a name shorter than it
  <<"v">>,
  <<>> }

Froms == {Line("From", v) : v \in Params(Tag)}
Tos == {Line("To", v) : v \in Params(Tag)} \ {Line("To", <<"v", ";", "v">>)}
Vias == {Line("Via", v) : v \in Params(Branch)}

Good == [h \in Headers |->
  Line(h, CASE h = "From" -> <<"v", ";">> \o Tag \o <<"v">>
            [] h = "Via" -> <<"v", ";">> \o Branch \o <<"v">>
            [] OTHER -> <<"v">>)]

Request == <<"INVITE", "uri", "SIP/2.0", "CR", "LF">>
FirstLines == {Request} \cup {w \o <<"CR", "LF">> : w \in {
  <<"BYE">>, <<"BYE", "uri">>, <<"BYE", "uri", "SIP/3.0">>, <<"FOO", "uri", "SIP/2.0">>,
  <<"SIP/2.0", "200", "OK">>, <<"SIP/2.0", "200">>, <<"SIP/3.0", "200", "OK">>, <<>>}}

Rest == Good["Call-ID"] \o Good["CSeq"] \o Good["Max-Forwards"]
Ending == Good["Content-Length"]
Bodies == { <<>>, <<"CR", "LF", "v", ";", "v", "v", "v", "v", "v">> }

\* The variants of From, To and Via in three orders
Parameters ==
  {Request \o Rest \o f \o t \o v \o Ending \o b : f \in Froms, t \in Tos, v \in Vias, b \in Bodies}
    \cup {Request \o Ending \o Rest \o v \o t \o f \o b : f \in Froms, t \in Tos, v \in Vias, b \in Bodies}
    \cup {Request \o t \o v \o f \o Ending \o Rest : f \in Froms, t \in Tos, v \in Vias}

\* Every first line; each header missing, empty, twice, or after one whose name begins
\* with its own; the last line cut off
Order == <<"Via", "From", "To", "Call-ID", "CSeq", "Max-Forwards", "Content-Length">>
Whole(with) == FlattenSeq([i \in 1 .. 7 |-> with[Order[i]]])
Variants(h) == {
  <<>>, Line(h, <<>>), Line(h, <<" ">>), Good[h] \o Line(h, <<"v", ";", "v">>),
  <<h>> \o Filler(NameLen[h] - 1) \o <<"v", ":", " ", "v", "CR", "LF">> \o Good[h] }
Mandatory ==
  {w \o Whole(Good) : w \in FirstLines}
    \cup {Request \o Whole([Good EXCEPT ![h] = v]) : h \in Headers, v \in UNION {Variants(g) : g \in Headers}}
    \cup {Front(Request \o Whole(Good)), Front(Front(Request \o Whole(Good)))}

MCBuffers == Parameters \cup Mandatory
=============================================================================
