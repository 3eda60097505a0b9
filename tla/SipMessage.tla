----------------------------- MODULE SipMessage -----------------------------
(***************************************************************************)
(* sip_message.c: what parse_message makes of a datagram, from the lookup  *)
(* of the Call-ID in handle_new_message to the last mandatory header.      *)
(*                                                                         *)
(* The buffer is a sequence of characters.  The first character of a       *)
(* header name, or of "tag=" and "branch=", stands for the whole word and  *)
(* is followed by one filler "." per further character, so that offsets    *)
(* and lengths are those of the code; "CR", "LF" is the end of a line. The *)
(* words of the first line count as one character each, spaces left out.   *)
(* A pointer into the buffer with its length is a text; at 0 is NULL.      *)
(***************************************************************************)
EXTENDS Integers, Sequences, FiniteSets

CONSTANTS
  Buffers,    \* datagrams that are received; zeros follow each of them
  SizeRange   \* the range of size_t; any power of two above the lengths here

Known == {"INVITE", "ACK", "BYE", "CANCEL", "OPTIONS", "REGISTER", "PRACK", "UPDATE",
          "SUBSCRIBE", "NOTIFY", "PUBLISH", "INFO", "REFER", "MESSAGE"}
Versions == {"SIP/2.0", "SIP/3.0"}
NameLen ==
  [h \in {"Call-ID", "From", "To", "Via", "CSeq", "Max-Forwards", "Content-Length"} |->
     CASE h = "Call-ID" -> 7 [] h = "From" -> 4 [] h = "To" -> 2 [] h = "Via" -> 3
       [] h = "CSeq" -> 4 [] h = "Max-Forwards" -> 12 [] h = "Content-Length" -> 14]
Headers == DOMAIN NameLen

\* A word that the parser looks for is there with all its characters
Encoded(b) ==
  /\ b \in Seq(STRING)
  /\ \A p \in DOMAIN b : b[p] \in Headers =>
       \A i \in 1 .. NameLen[b[p]] - 1 : p + i \in DOMAIN b /\ b[p + i] = "."

ASSUME MessageAssumption ==
  /\ SizeRange \in Nat
  /\ \A b \in Buffers : Encoded(b) /\ Len(b) + 7 < SizeRange \div 2

VARIABLES
  buffer,    \* message->buffer, up to the NUL
  message,   \* the fields of sip_message_t that are set while parsing
  pc,        \* the next step
  err        \* the result

vars == <<buffer, message, pc, err>>

NoText == [at |-> 0, len |-> 0]
Fields == {"call_id", "from", "from_tag", "to", "to_tag", "via", "branch", "cseq"}
Steps == {"call_id", "first", "from", "from_tag", "to", "via", "branch", "cseq",
          "Max-Forwards", "Content-Length", "done"}
Errors == {"NONE", "MALFORMED_MESSAGE", "UNKNOWN_METHOD", "UNSUPPORTED_SIP_VERSION",
           "MISSING_MANDATORY_HEADER", "MISSING_MANDATORY_PARAMETER", "NO_CALL_ID"}

Init ==
  /\ buffer \in Buffers
  /\ message = [f \in Fields |-> NoText]
  /\ pc = "call_id"
  /\ err = "NONE"

-----------------------------------------------------------------------------
\* The least position from p on with what is looked for, 0 for NULL
First(found) == IF found = {} THEN 0 ELSE CHOOSE q \in found : \A r \in found : q <= r

\* strchr(b + p, c)
strchr(b, p, c) == First({q \in p .. Len(b) : b[q] = c})

\* strstr(b + p, CRLF)
LineEnd(b, p) == First({q \in p .. Len(b) - 1 : b[q] = "CR" /\ b[q + 1] = "LF"})

\* (mutation) lengths of type int
SizeSigned(n) == n

\* A difference of two pointers as a size_t
Size(n) == n % SizeRange

\* The lines that end with CRLF; the last one may not
Lines(b) == {p \in {1} \cup {q + 2 : q \in {r \in 1 .. Len(b) : LineEnd(b, r) = r}} :
               LineEnd(b, p) # 0}

\* The first position from p on that has none of the characters skipped
Behind(b, p, skipped) ==
  CHOOSE q \in p .. Len(b) + 1 :
    /\ \A r \in p .. q - 1 : b[r] \in skipped
    /\ q = Len(b) + 1 \/ b[q] \notin skipped

\* (mutation) ':' skipped, but no blanks
SkipColon(b, p) == IF p <= Len(b) /\ b[p] = ":" THEN p + 1 ELSE p

\* while (*value_start == ':' || ...) value_start++
Skip(b, p) == Behind(b, p, {":", " "})

\* get_header_value: the first line that starts with the name, be it the first line
\* or one of the body, and whatever follows the name
Header(b, h) ==
  LET line == First({p \in Lines(b) : b[p] = h})
      value == Skip(b, line + NameLen[h])
  IN IF line = 0 THEN NoText ELSE [at |-> value, len |-> Size(LineEnd(b, line) - value)]

\* Blanks after ';'
SkipBlanks(b, p) == Behind(b, p, {" "})

\* (mutation) the value ends with the header, as if ';' had been found in it
ParameterOfHeader(b, header, nameLen) ==
  LET semicolon == strchr(b, header.at, ";")
      start == SkipBlanks(b, semicolon + 1) + nameLen
  IN IF semicolon = 0 THEN NoText
     ELSE [at |-> start, len |-> Size(header.at + header.len - start)]

\* get_from_tag, get_to_tag (4 for "tag=") and get_branch_param (7 for "branch="):
\* from the first ';' of the rest of the buffer to the next '\r', or to the end of
\* the header if there is none
Parameter(b, header, nameLen) ==
  LET semicolon == strchr(b, header.at, ";")
      start == SkipBlanks(b, semicolon + 1) + nameLen
      cr == strchr(b, start, "CR")
      end == IF cr # 0 THEN cr ELSE header.at + header.len
  IN IF semicolon = 0 THEN NoText ELSE [at |-> start, len |-> Size(end - start)]

-----------------------------------------------------------------------------
\* The first line

FirstLine(b) == SubSeq(b, 1, LineEnd(b, 1) - 1)
IsRequest(b) == b[1] \notin Versions

\* Method, URI, version; get_message_method compares whole names
RequestError(w) ==
  IF Len(w) < 2 THEN "MALFORMED_MESSAGE"
  ELSE IF w[1] \notin Known THEN "UNKNOWN_METHOD"
  ELSE IF Len(w) < 3 \/ w[3] \notin Versions THEN "MALFORMED_MESSAGE"
  ELSE IF w[3] # "SIP/2.0" THEN "UNSUPPORTED_SIP_VERSION"
  ELSE "NONE"

\* Version, status code, reason
ResponseError(w) ==
  IF w[1] # "SIP/2.0" THEN "UNSUPPORTED_SIP_VERSION"
  ELSE IF Len(w) < 3 THEN "MALFORMED_MESSAGE"
  ELSE "NONE"

\* get_message_method: a response has no method
MethodError(b) == IF IsRequest(b) THEN "NONE" ELSE "UNKNOWN_METHOD"

FirstLineError(b) == IF IsRequest(b) THEN RequestError(FirstLine(b)) ELSE ResponseError(FirstLine(b))

-----------------------------------------------------------------------------
\* handle_new_message and parse_message

Fail(e) == pc' = "done" /\ err' = e
Go(step) == pc' = step /\ UNCHANGED err

\* A message without Call-ID is freed by the main thread
GetCallId ==
  /\ pc = "call_id"
  /\ message' = [message EXCEPT !.call_id = Header(buffer, "Call-ID")]
  /\ IF Header(buffer, "Call-ID").at = 0 THEN Fail("NO_CALL_ID") ELSE Go("first")
  /\ UNCHANGED buffer

ParseFirstLine ==
  /\ pc = "first"
  /\ IF FirstLineError(buffer) # "NONE" THEN Fail(FirstLineError(buffer))
     ELSE IF MethodError(buffer) # "NONE" THEN Fail(MethodError(buffer))
     ELSE Go("from")
  /\ UNCHANGED <<buffer, message>>

\* (mutation) only "header == NULL" is tested, not "length == 0"
RequiredPresent(step, text, missing, next) ==
  /\ pc = step
  /\ step \in Fields => message' = [message EXCEPT ![step] = text]
  /\ step \notin Fields => UNCHANGED message
  /\ IF text.at = 0 THEN Fail(missing) ELSE Go(next)
  /\ UNCHANGED buffer

\* A text that must be there and not be empty is stored and tested
Required(step, text, missing, next) ==
  /\ pc = step
  /\ step \in Fields => message' = [message EXCEPT ![step] = text]
  /\ step \notin Fields => UNCHANGED message
  /\ IF text.len = 0 THEN Fail(missing) ELSE Go(next)
  /\ UNCHANGED buffer

GetFrom == Required("from", Header(buffer, "From"), "MISSING_MANDATORY_HEADER", "from_tag")

GetFromTag == Required("from_tag", Parameter(buffer, message.from, 4),
                       "MISSING_MANDATORY_PARAMETER", "to")

\* To, and its tag if there is one
GetTo ==
  /\ pc = "to"
  /\ LET to == Header(buffer, "To") IN
     /\ message' = [message EXCEPT !.to = to,
                      !.to_tag = IF to.len = 0 THEN @ ELSE Parameter(buffer, to, 4)]
     /\ IF to.len = 0 THEN Fail("MISSING_MANDATORY_HEADER") ELSE Go("via")
  /\ UNCHANGED buffer

GetVia == Required("via", Header(buffer, "Via"), "MISSING_MANDATORY_HEADER", "branch")

GetBranch == Required("branch", Parameter(buffer, message.via, 7),
                      "MISSING_MANDATORY_PARAMETER", "cseq")

GetCSeq == Required("cseq", Header(buffer, "CSeq"), "MISSING_MANDATORY_HEADER", "Max-Forwards")

\* Only requests come this far
CheckMaxForwards == Required("Max-Forwards", Header(buffer, "Max-Forwards"),
                             "MISSING_MANDATORY_HEADER", "Content-Length")

CheckContentLength == Required("Content-Length", Header(buffer, "Content-Length"),
                               "MISSING_MANDATORY_HEADER", "done")

Next ==
  \/ GetCallId \/ ParseFirstLine
  \/ GetFrom \/ GetFromTag \/ GetTo \/ GetVia \/ GetBranch \/ GetCSeq
  \/ CheckMaxForwards \/ CheckContentLength

Spec == Init /\ [][Next]_vars

-----------------------------------------------------------------------------
\* No text begins more than nine characters behind the datagram (the NUL and a skipped
\* "branch="), and no length is outside size_t.
TypeOK ==
  /\ buffer \in Buffers
  /\ DOMAIN message = Fields
  /\ \A f \in Fields : message[f].at \in 0 .. Len(buffer) + 9
                       /\ message[f].len \in 0 .. SizeRange - 1
  /\ pc \in Steps
  /\ err \in Errors

Accepted == pc = "done" /\ err = "NONE"

\* The characters of a text
Chars(t) == SubSeq(buffer, t.at, t.at + t.len - 1)
LineAt(b, p) == SubSeq(b, p, LineEnd(b, p) - 1)

\* Header lines as RFC 3261 writes them, with one parameter in From and Via and at most
\* one in To, and a request that has each of them once
Value(b, h) == {LineAt(b, p) : p \in {q \in Lines(b) : b[q] = h}}
Filler(n) == [i \in 1 .. n |-> "."]
Plain(h) == <<h>> \o Filler(NameLen[h] - 1) \o <<":", " ", "v">>
WithTag(h) == Plain(h) \o <<";", "tag=", ".", ".", ".", "v">>
WithBranch(h) == Plain(h) \o <<";", "branch=", ".", ".", ".", ".", ".", ".", "v">>
Complete(b) ==
  /\ \A h \in Headers : Cardinality({q \in Lines(b) : b[q] = h}) = 1
  /\ Value(b, "From") = {WithTag("From")}
  /\ Value(b, "To") \subseteq {WithTag("To"), Plain("To")}
  /\ Value(b, "Via") = {WithBranch("Via")}
  /\ \A h \in Headers \ {"From", "To", "Via"} : Value(b, h) = {Plain(h)}
WellFormed(b) == LineEnd(b, 1) = 4 /\ b[1] \in Known /\ b[3] = "SIP/2.0" /\ Complete(b)

\* A well-formed request is accepted wherever its headers stand, and the texts the
\* worker identifies it by are the values of its own parameters.
WellFormedIsParsed ==
  pc = "done" /\ WellFormed(buffer) =>
    /\ err = "NONE"
    /\ \A f \in {"from_tag", "branch", "call_id", "from", "to", "via", "cseq"} :
         Chars(message[f])[1] = "v"
    /\ \A f \in {"from_tag", "branch", "call_id", "cseq"} : message[f].len = 1
    /\ Value(buffer, "To") = {WithTag("To")} => Chars(message.to_tag) = <<"v">>

\* An accepted request has a known method and version 2.0, and in an accepted message
\* the six headers parse_message asks for each stand on a line that begins with the
\* name and goes on after the colons and blanks.  (A longer name that begins like the
\* header's is not told apart.)
AcceptedIsComplete ==
  Accepted =>
    /\ IsRequest(buffer) => buffer[1] \in Known /\ buffer[3] = "SIP/2.0"
    /\ \A h \in Headers \ {"Call-ID"} :
         \E p \in Lines(buffer) :
           /\ buffer[p] = h
           /\ \E q \in p + NameLen[h] .. LineEnd(buffer, p) - 1 : buffer[q] \notin {":", " "}

\* The tags and the branch, with the header each is a parameter of and the length of
\* its name and "="
ParameterOf == {<<"from_tag", "from", 4>>, <<"to_tag", "to", 4>>, <<"branch", "via", 7>>}

OwnPlace(t, header) ==
  /\ header.at < t.at
  /\ t.at + t.len <= header.at + header.len
HasParameter(header, nameLen) ==
  \E q \in header.at .. header.at + header.len - 1 :
    /\ buffer[q] = ";"
    /\ \A r \in header.at .. q - 1 : buffer[r] # ";"
    /\ SkipBlanks(buffer, q + 1) + nameLen <= header.at + header.len

\* A header that has a ';' with the room for the name behind it: the parameter the
\* worker gets lies within that header and ends at the first '\r' after the name.
ParameterPlace ==
  Accepted =>
    \A f \in ParameterOf :
      LET t == message[f[1]]
          header == message[f[2]]
      IN HasParameter(header, f[3]) =>
         /\ OwnPlace(t, header)
         /\ buffer[t.at + t.len] = "CR"
         /\ \A q \in t.at .. t.at + t.len - 1 : buffer[q] # "CR"

-----------------------------------------------------------------------------
(* What the documentation says and the code does not do *)

\* README.md:18-25 gives a parsed response a path of its own: a complete one is parsed
\* without an error.  (get_message_method has no method for it, so none is.)
ResponseIsParsed ==
  pc = "done" /\ LineEnd(buffer, 1) = 4 /\ buffer[1] = "SIP/2.0" /\ Complete(buffer) =>
    err = "NONE"

\* get_from_tag, get_to_tag, get_branch_param: NULL if the parameter is not found in
\* the header.  (The text after the next ';' is taken, whatever it is and also from a
\* later line.)
MissingParameterIsNull ==
  \A f \in ParameterOf :
    LET header == message[f[2]]
        name == IF f[3] = 4 THEN "tag=" ELSE "branch="
    IN header # NoText /\ (\A i \in DOMAIN Chars(header) : Chars(header)[i] # name) =>
         message[f[1]] = NoText
=============================================================================
