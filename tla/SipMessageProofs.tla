-------------------------- MODULE SipMessageProofs --------------------------
(***************************************************************************)
(* What parse_message does with any datagram.                              *)
(***************************************************************************)
EXTENDS SipMessage, SequenceTheorems, FiniteSetTheorems, WellFoundedInduction, TLAPS

-----------------------------------------------------------------------------
\* Positions and lengths

LEMMA LeastPosition ==
  ASSUME NEW T, T \subseteq Nat, T # {}
  PROVE  \E n \in T : \A m \in T : n <= m
<1>1. IsWellFoundedOn(OpToRel(<, Nat), Nat)
  BY NatLessThanWellFounded, Zenon
<1>2. PICK n \in T : \A m \in T : <<m, n>> \notin OpToRel(<, Nat)
  BY <1>1, WFMin, Zenon
<1>3. \A m \in T : <<m, n>> \notin OpToRel(<, Nat) => ~(m < n)
  BY Zenon DEF OpToRel
<1>4. \A m \in T : ~(m < n)
  BY <1>2, <1>3
<1>5. \A m \in T : m \in Nat /\ n \in Nat
  OBVIOUS
<1> QED
  BY <1>4, <1>5

LEMMA FirstIs ==
  ASSUME NEW T, T \subseteq Nat, T # {}
  PROVE  First(T) \in T /\ \A r \in T : First(T) <= r
<1>1. \E q \in T : \A r \in T : q <= r
  BY LeastPosition
<1>2. First(T) = CHOOSE q \in T : \A r \in T : q <= r
  BY DEF First
<1> QED
  BY <1>1, <1>2, Zenon

LEMMA BufferIs ==
  ASSUME NEW b \in Buffers
  PROVE  /\ b \in Seq(STRING) /\ Len(b) \in Nat /\ DOMAIN b = 1 .. Len(b)
         /\ SizeRange \in Nat /\ 2 * (Len(b) + 8) <= SizeRange
         /\ Encoded(b)
<1>1. b \in Seq(STRING) /\ Encoded(b) /\ SizeRange \in Nat /\ Len(b) + 7 < SizeRange \div 2
  BY MessageAssumption DEF Encoded
<1> QED
  BY <1>1

\* A difference within the buffer is kept, a negative one wraps.
LEMMA SizeIs ==
  ASSUME NEW b \in Buffers, NEW n \in Int, -SizeRange <= n, n < SizeRange
  PROVE  Size(n) = IF n >= 0 THEN n ELSE n + SizeRange
<1>1. SizeRange \in Nat \ {0}
  BY BufferIs
<1> QED
  BY <1>1 DEF Size

LEMMA StrchrIs ==
  ASSUME NEW b \in Buffers, NEW p \in Nat \ {0}, NEW c
  PROVE  \/ strchr(b, p, c) = 0 /\ \A q \in p .. Len(b) : b[q] # c
         \/ /\ strchr(b, p, c) \in p .. Len(b) /\ b[strchr(b, p, c)] = c
            /\ \A q \in p .. strchr(b, p, c) - 1 : b[q] # c
<1> DEFINE T == {q \in p .. Len(b) : b[q] = c}
<1>1. Len(b) \in Nat /\ T \subseteq Nat /\ strchr(b, p, c) = First(T)
  BY BufferIs DEF strchr
<1>2. CASE T = {}
  BY <1>1, <1>2 DEF First
<1>3. CASE T # {}
  <2>1. PICK f \in T : f = First(T) /\ \A r \in T : f <= r
    <3> HIDE DEF T
    <3> QED
      BY <1>1, <1>3, FirstIs
  <2>2. f \in p .. Len(b) /\ b[f] = c
    BY <2>1
  <2>3. ASSUME NEW q \in p .. f - 1 PROVE b[q] # c
    <3>1. q \in p .. Len(b) /\ ~(f <= q)
      BY <1>1, <2>2
    <3>2. ~(q \in T)
      BY <2>1, <3>1
    <3> QED
      BY <3>1, <3>2
  <2> QED
    BY <1>1, <2>1, <2>2, <2>3
<1> QED
  BY <1>2, <1>3

LEMMA LineEndIs ==
  ASSUME NEW b \in Buffers, NEW p \in Nat \ {0}
  PROVE  \/ /\ LineEnd(b, p) = 0
            /\ \A q \in p .. Len(b) - 1 : ~(b[q] = "CR" /\ b[q + 1] = "LF")
         \/ /\ LineEnd(b, p) \in p .. Len(b) - 1
            /\ b[LineEnd(b, p)] = "CR" /\ b[LineEnd(b, p) + 1] = "LF"
            /\ \A q \in p .. LineEnd(b, p) - 1 : ~(b[q] = "CR" /\ b[q + 1] = "LF")
<1> DEFINE T == {q \in p .. Len(b) - 1 : b[q] = "CR" /\ b[q + 1] = "LF"}
<1>1. Len(b) \in Nat /\ T \subseteq Nat /\ LineEnd(b, p) = First(T)
  BY BufferIs DEF LineEnd
<1>2. CASE T = {}
  BY <1>1, <1>2 DEF First
<1>3. CASE T # {}
  <2>1. PICK f \in T : f = First(T) /\ \A r \in T : f <= r
    <3> HIDE DEF T
    <3> QED
      BY <1>1, <1>3, FirstIs
  <2>2. f \in p .. Len(b) - 1 /\ b[f] = "CR" /\ b[f + 1] = "LF"
    BY <2>1
  <2>3. ASSUME NEW q \in p .. f - 1 PROVE ~(b[q] = "CR" /\ b[q + 1] = "LF")
    <3>1. q \in p .. Len(b) - 1 /\ ~(f <= q)
      BY <1>1, <2>2
    <3>2. ~(q \in T)
      BY <2>1, <3>1
    <3> QED
      BY <3>1, <3>2
  <2> QED
    BY <1>1, <2>1, <2>2, <2>3
<1> QED
  BY <1>2, <1>3

LEMMA BehindIs ==
  ASSUME NEW b \in Buffers, NEW p \in 1 .. Len(b) + 1, NEW skipped
  PROVE  /\ Behind(b, p, skipped) \in p .. Len(b) + 1
         /\ \A r \in p .. Behind(b, p, skipped) - 1 : b[r] \in skipped
         /\ Behind(b, p, skipped) = Len(b) + 1 \/ b[Behind(b, p, skipped)] \notin skipped
<1> DEFINE T == {q \in p .. Len(b) + 1 : q = Len(b) + 1 \/ b[q] \notin skipped}
<1>1. Len(b) \in Nat /\ T \subseteq Nat /\ T # {}
  BY BufferIs
<1>2. PICK q \in T : \A r \in T : q <= r
  <2> HIDE DEF T
  <2> QED
    BY <1>1, LeastPosition
<1>3. /\ q \in p .. Len(b) + 1
      /\ \A r \in p .. q - 1 : b[r] \in skipped
      /\ q = Len(b) + 1 \/ b[q] \notin skipped
  BY <1>1, <1>2
<1> QED
  BY <1>3, Zenon DEF Behind

-----------------------------------------------------------------------------
\* Headers and parameters

LEMMA NameLenIs ==
  ASSUME NEW h \in Headers
  PROVE  NameLen[h] \in 2 .. 14 /\ NameLen[h] \in Nat /\ NameLen[h] >= 2
BY DEF Headers, NameLen

LEMMA LinesIs ==
  ASSUME NEW b \in Buffers, NEW p \in Lines(b)
  PROVE  /\ p \in Nat \ {0} /\ LineEnd(b, p) \in p .. Len(b) - 1
         /\ b[LineEnd(b, p)] = "CR" /\ b[LineEnd(b, p) + 1] = "LF"
         /\ \A q \in p .. LineEnd(b, p) - 1 : ~(b[q] = "CR" /\ b[q + 1] = "LF")
<1>1. Len(b) \in Nat
  BY BufferIs
<1>2. p \in {1} \cup {q + 2 : q \in {r \in 1 .. Len(b) : LineEnd(b, r) = r}} /\ LineEnd(b, p) # 0
  BY DEF Lines
<1>3. p \in Nat \ {0}
  BY <1>1, <1>2
<1> QED
  BY <1>2, <1>3, LineEndIs, Zenon

\* The end of a header's line, and the value in between
LEMMA HeaderLine ==
  ASSUME NEW b \in Buffers, NEW h \in Headers, NEW p \in Lines(b), b[p] = h
  PROVE  /\ p + NameLen[h] \in 1 .. LineEnd(b, p) /\ LineEnd(b, p) \in 1 .. Len(b) - 1
         /\ Skip(b, p + NameLen[h]) \in p + NameLen[h] .. LineEnd(b, p)
         /\ \A r \in p + NameLen[h] .. Skip(b, p + NameLen[h]) - 1 : b[r] \in {":", " "}
         /\ b[Skip(b, p + NameLen[h])] \notin {":", " "}
<1>1. PICK n : n = NameLen[h] /\ n \in 2 .. 14
  BY NameLenIs
<1>2. PICK e : e = LineEnd(b, p) /\ p \in Nat \ {0} /\ e \in p .. Len(b) - 1 /\ b[e] = "CR"
  BY LinesIs, Zenon
<1>3. Len(b) \in Nat /\ DOMAIN b = 1 .. Len(b)
  BY BufferIs
<1>4. \A i \in 1 .. n - 1 : b[p + i] = "."
  <2>1. Encoded(b) /\ p \in DOMAIN b
    BY <1>2, <1>3, BufferIs
  <2> QED
    BY <1>1, <2>1, Zenon DEF Encoded
<1>5. h # "CR"
  BY DEF Headers, NameLen
<1>6. n \in Nat /\ p \in Nat /\ e \in Nat /\ 1 <= p /\ p <= e /\ e <= Len(b) - 1 /\ n >= 2
  <2>1. p \in Nat \ {0} /\ e \in p .. Len(b) - 1
    BY <1>2
  <2>2. Len(b) \in Nat /\ n \in 2 .. 14
    BY <1>1, <1>3
  <2> QED
    BY <2>1, <2>2
<1>7. p + n <= e
  <2>1. SUFFICES ASSUME e < p + n PROVE FALSE
    BY <1>6
  <2>2. e # p
    BY <1>2, <1>5
  <2>3. e - p \in 1 .. n - 1 /\ p + (e - p) = e
    BY <1>6, <2>1, <2>2
  <2>4. b[e] = "."
    BY <1>4, <2>3
  <2> QED
    BY <1>2, <2>4
<1>8. p + n \in 1 .. Len(b) + 1
  <2>1. Len(b) \in Nat
    BY <1>3
  <2> QED
    BY <1>6, <1>7, <2>1
<1>9. PICK v : /\ v = Skip(b, p + n) /\ v \in p + n .. Len(b) + 1
               /\ \A r \in p + n .. v - 1 : b[r] \in {":", " "}
               /\ v = Len(b) + 1 \/ b[v] \notin {":", " "}
  BY <1>8, BehindIs, Zenon DEF Skip
<1>10. v \in Nat /\ p + n <= v
  <2>1. v \in p + n .. Len(b) + 1
    BY <1>9
  <2>2. Len(b) + 1 \in Int /\ p + n \in Nat
    BY <1>3, <1>6
  <2> QED
    BY <2>1, <2>2
<1>11. v <= e
  <2>1. e \in p + n .. v - 1 => FALSE
    BY <1>2, <1>9
  <2> QED
    BY <1>6, <1>10, <1>7, <2>1
<1>12. v # Len(b) + 1
  BY <1>2, <1>3, <1>11
<1>13. v \in p + n .. e /\ p + n \in 1 .. e /\ e \in 1 .. Len(b) - 1
  BY <1>6, <1>10, <1>3, <1>7, <1>11
<1> QED
  BY <1>1, <1>2, <1>9, <1>12, <1>13

\* What get_header_value finds: the first line with the name, and its value.
LEMMA HeaderIs ==
  ASSUME NEW b \in Buffers, NEW h \in Headers
  PROVE  \/ Header(b, h) = NoText /\ \A p \in Lines(b) : b[p] # h
         \/ \E p \in Lines(b) :
              /\ b[p] = h
              /\ Header(b, h) = [at |-> Skip(b, p + NameLen[h]),
                                 len |-> LineEnd(b, p) - Skip(b, p + NameLen[h])]
<1> DEFINE T == {p \in Lines(b) : b[p] = h}
           value(line) == Skip(b, line + NameLen[h])
<1>1. T \subseteq Nat
  BY LinesIs
<1>2. Header(b, h) = IF First(T) = 0 THEN NoText
                     ELSE [at |-> value(First(T)), len |-> Size(LineEnd(b, First(T)) - value(First(T)))]
  BY DEF Header
<1>3. CASE T = {}
  <2>1. First(T) = 0
    BY <1>3 DEF First
  <2>2. \A p \in Lines(b) : b[p] # h
    BY <1>3
  <2> QED
    BY <1>2, <2>1, <2>2
<1>4. CASE T # {}
  <2>1. PICK p \in T : p = First(T)
    <3> HIDE DEF T
    <3> QED
      BY <1>1, <1>4, FirstIs
  <2>2. p \in Lines(b) /\ b[p] = h /\ p # 0
    BY <2>1, LinesIs
  <2>3. PICK v : v = value(p) /\ v \in 1 .. LineEnd(b, p) /\ LineEnd(b, p) \in 1 .. Len(b) - 1
    <3>1. /\ p + NameLen[h] \in 1 .. LineEnd(b, p) /\ LineEnd(b, p) \in 1 .. Len(b) - 1
          /\ value(p) \in p + NameLen[h] .. LineEnd(b, p)
      BY <2>2, HeaderLine
    <3> QED
      BY <3>1
  <2>4. Size(LineEnd(b, p) - v) = LineEnd(b, p) - v
    <3>1. /\ LineEnd(b, p) - v \in Int /\ LineEnd(b, p) - v >= 0
          /\ LineEnd(b, p) - v < SizeRange /\ - SizeRange <= LineEnd(b, p) - v
      BY <2>3, BufferIs
    <3> QED
      BY <3>1, SizeIs
  <2>5. Header(b, h) = [at |-> v, len |-> LineEnd(b, p) - v]
    <3> HIDE DEF T, value
    <3> QED
      BY <1>2, <2>1, <2>2, <2>3, <2>4
  <2> QED
    BY <2>2, <2>3, <2>5
<1> QED
  BY <1>3, <1>4

\* A header that was found lies within the buffer and ends at a '\r'.
LEMMA HeaderPlace ==
  ASSUME NEW b \in Buffers, NEW h \in Headers
  PROVE  \/ Header(b, h) = NoText
         \/ /\ Header(b, h) \in [at : Nat, len : Nat] /\ Header(b, h).at # 0
            /\ Header(b, h).at + Header(b, h).len \in 1 .. Len(b) - 1
            /\ b[Header(b, h).at + Header(b, h).len] = "CR"
<1>1. CASE Header(b, h) = NoText
  BY <1>1
<1>2. CASE Header(b, h) # NoText
  <2>1. PICK p \in Lines(b) :
          /\ b[p] = h
          /\ Header(b, h) = [at |-> Skip(b, p + NameLen[h]),
                             len |-> LineEnd(b, p) - Skip(b, p + NameLen[h])]
    BY <1>2, HeaderIs
  <2>2. PICK v, e : /\ v = Skip(b, p + NameLen[h]) /\ e = LineEnd(b, p)
                    /\ v \in 1 .. e /\ e \in 1 .. Len(b) - 1 /\ b[e] = "CR"
    <3>1. /\ p + NameLen[h] \in 1 .. LineEnd(b, p) /\ LineEnd(b, p) \in 1 .. Len(b) - 1
          /\ Skip(b, p + NameLen[h]) \in p + NameLen[h] .. LineEnd(b, p)
      BY <2>1, HeaderLine
    <3>2. b[LineEnd(b, p)] = "CR"
      BY LinesIs
    <3> QED
      BY <3>1, <3>2
  <2>3. Header(b, h) = [at |-> v, len |-> e - v]
    BY <2>1, <2>2
  <2>4. v \in Nat /\ v # 0 /\ e - v \in Nat /\ v + (e - v) = e
    BY <2>2
  <2> QED
    BY <2>2, <2>3, <2>4
<1> QED
  BY <1>1, <1>2

Semicolon(b, header) == strchr(b, header.at, ";")
Start(b, header, nameLen) == SkipBlanks(b, Semicolon(b, header) + 1) + nameLen

\* What the parameter functions make of the first ';' and the '\r' after the name
LEMMA ParameterIs ==
  ASSUME NEW b \in Buffers, NEW header \in [at : Nat, len : Nat], NEW n \in 1 .. 7,
         header.at # 0, header.at + header.len <= Len(b)
  PROVE  \/ Semicolon(b, header) = 0 /\ Parameter(b, header, n) = NoText
         \/ /\ Semicolon(b, header) \in header.at .. Len(b)
            /\ b[Semicolon(b, header)] = ";"
            /\ \A q \in header.at .. Semicolon(b, header) - 1 : b[q] # ";"
            /\ Start(b, header, n) \in Semicolon(b, header) + 2 .. Len(b) + 8
            /\ Parameter(b, header, n).at = Start(b, header, n)
            /\ strchr(b, Start(b, header, n), "CR") # 0 =>
                 /\ strchr(b, Start(b, header, n), "CR") \in Start(b, header, n) .. Len(b)
                 /\ \A q \in Start(b, header, n) .. strchr(b, Start(b, header, n), "CR") - 1 : b[q] # "CR"
                 /\ Parameter(b, header, n).len
                      = strchr(b, Start(b, header, n), "CR") - Start(b, header, n)
            /\ strchr(b, Start(b, header, n), "CR") = 0 =>
                 /\ \A q \in Start(b, header, n) .. Len(b) : b[q] # "CR"
                 /\ Parameter(b, header, n).len
                      = Size(header.at + header.len - Start(b, header, n))
<1>1. PICK a, e, l : /\ a = header.at /\ e = header.at + header.len /\ l = Len(b)
                     /\ a \in Nat /\ a >= 1 /\ e \in Nat /\ l \in Nat /\ a <= e /\ e <= l
  BY BufferIs
<1>2. SizeRange \in Nat /\ 2 * (l + 8) <= SizeRange
  BY <1>1, BufferIs
<1>3. PICK s, t, cr : s = Semicolon(b, header) /\ t = Start(b, header, n) /\ cr = strchr(b, t, "CR")
  OBVIOUS
<1>4. Parameter(b, header, n)
        = IF s = 0 THEN NoText ELSE [at |-> t, len |-> Size((IF cr # 0 THEN cr ELSE e) - t)]
  BY <1>1, <1>3 DEF Parameter, Semicolon, Start
<1>5. s = 0 \/ (s \in a .. l /\ b[s] = ";" /\ \A q \in a .. s - 1 : b[q] # ";")
  <2>1. a \in Nat \ {0}
    BY <1>1
  <2>2. s = strchr(b, a, ";")
    BY <1>1, <1>3 DEF Semicolon
  <2> QED
    <3>1. \/ strchr(b, a, ";") = 0 /\ \A q \in a .. Len(b) : b[q] # ";"
          \/ /\ strchr(b, a, ";") \in a .. Len(b) /\ b[strchr(b, a, ";")] = ";"
             /\ \A q \in a .. strchr(b, a, ";") - 1 : b[q] # ";"
      BY <2>1, StrchrIs, Zenon
    <3> QED
      BY <1>1, <2>2, <3>1, Zenon
<1>6. CASE s = 0
  BY <1>3, <1>4, <1>6
<1>7. CASE s # 0
  <2>1. b[s] = ";" /\ \A q \in a .. s - 1 : b[q] # ";"
    BY <1>5, <1>7
  <2>2. s \in a .. l
    BY <1>5, <1>7
  <2>3. s \in Nat /\ a <= s /\ s <= l /\ s + 1 \in 1 .. l + 1
    BY <1>1, <2>2
  <2>4. PICK u : u = SkipBlanks(b, s + 1) /\ u \in s + 1 .. l + 1
    BY <1>1, <2>3, BehindIs, Zenon DEF SkipBlanks
  <2>5. t = u + n
    BY <1>3, <2>4 DEF Start
  <2>6. t \in s + 2 .. l + 8 /\ t \in Nat /\ t # 0 /\ t <= l + 8
    <3>1. u \in Nat /\ s + 1 <= u /\ u <= l + 1
      BY <1>1, <2>3, <2>4
    <3> QED
      BY <1>1, <2>3, <2>5, <3>1
  <2>7. \/ cr = 0 /\ \A q \in t .. l : b[q] # "CR"
        \/ cr \in t .. l /\ \A q \in t .. cr - 1 : b[q] # "CR"
    <3>1. t \in Nat \ {0}
      BY <2>6
    <3> QED
      BY <1>1, <1>3, <3>1, StrchrIs
  <2>8. CASE cr = 0
    <3>1. PICK d : d = e - t /\ d \in Int /\ - SizeRange <= d /\ d < SizeRange
      BY <1>1, <1>2, <2>6
    <3>2. Parameter(b, header, n) = [at |-> t, len |-> Size(d)]
      BY <1>4, <1>7, <2>8, <3>1, Zenon
    <3>3. \A q \in t .. l : b[q] # "CR"
      BY <1>1, <2>6, <2>7, <2>8
    <3>4. Parameter(b, header, n).at = t /\ Parameter(b, header, n).len = Size(d)
      BY <3>2
    <3>5. Parameter(b, header, n).len = Size(header.at + header.len - t)
      <4>1. header.at + header.len - t = d
        <5>1. header.at \in Int /\ header.len \in Int /\ t \in Int
          BY <2>6
        <5> QED
          BY <1>1, <3>1, <5>1
      <4> QED
        BY <4>1, <3>4
    <3> QED
      BY <1>1, <1>3, <2>1, <2>2, <2>6, <2>8, <3>3, <3>4, <3>5
  <2>9. CASE cr # 0
    <3>1. cr \in t .. l
      BY <2>7, <2>9
    <3>2. \A q \in t .. cr - 1 : b[q] # "CR"
      BY <2>7, <2>9
    <3>3. PICK d : d = cr - t /\ d \in Int /\ d >= 0 /\ - SizeRange <= d /\ d < SizeRange
      BY <1>1, <1>2, <2>6, <3>1
    <3>4. Size(d) = d
      BY <3>3, SizeIs
    <3>5. Parameter(b, header, n) = [at |-> t, len |-> Size(d)]
      BY <1>4, <1>7, <2>9, <3>3, Zenon
    <3>6. Parameter(b, header, n).at = t /\ Parameter(b, header, n).len = cr - t
      BY <3>3, <3>4, <3>5
    <3> QED
      BY <1>1, <1>3, <2>1, <2>2, <2>6, <2>9, <3>1, <3>2, <3>6
  <2> QED
    BY <2>8, <2>9
<1> QED
  BY <1>6, <1>7

\* ParameterPlace for the parameter t of one header
PlaceOf(t, header) ==
  /\ OwnPlace(t, header)
  /\ buffer[t.at + t.len] = "CR"
  /\ \A q \in t.at .. t.at + t.len - 1 : buffer[q] # "CR"

LEMMA ParameterFound ==
  ASSUME buffer \in Buffers, NEW h \in Headers, NEW n \in 1 .. 7, Header(buffer, h).len # 0,
         HasParameter(Header(buffer, h), n)
  PROVE  PlaceOf(Parameter(buffer, Header(buffer, h), n), Header(buffer, h))
<1>1. PICK header : header = Header(buffer, h)
  OBVIOUS
<1>2. /\ header \in [at : Nat, len : Nat] /\ header.at # 0
      /\ header.at + header.len \in 1 .. Len(buffer) - 1
      /\ buffer[header.at + header.len] = "CR"
  BY <1>1, HeaderPlace DEF NoText
<1>3. PICK a, e, l : /\ a = header.at /\ e = header.at + header.len /\ l = Len(buffer)
                     /\ a \in Nat /\ a >= 1 /\ e \in Nat /\ l \in Nat /\ a <= e /\ e <= l - 1
                     /\ buffer[e] = "CR"
  BY <1>2, BufferIs
<1>4. SizeRange \in Nat /\ 2 * (l + 8) <= SizeRange
  BY <1>3, BufferIs
<1>5. PICK s, t, cr, text : /\ s = Semicolon(buffer, header) /\ t = Start(buffer, header, n)
                            /\ cr = strchr(buffer, t, "CR") /\ text = Parameter(buffer, header, n)
  OBVIOUS
\* The ';' that HasParameter speaks of, with e for the end of the header
<1>6. PICK p \in a .. e - 1 : /\ buffer[p] = ";" /\ \A r \in a .. p - 1 : buffer[r] # ";"
                              /\ SkipBlanks(buffer, p + 1) + n <= e
  <2>1. header.at = a /\ header.at + header.len = e /\ header.at + header.len - 1 = e - 1
    <3>1. header.at \in Int /\ header.len \in Int
      BY <1>2
    <3> QED
      BY <1>3, <3>1
  <2>2. HasParameter(header, n)
    BY <1>1
  <2> QED
    BY <2>1, <2>2, Zenon DEF HasParameter
<1>7. p \in Nat /\ a <= p /\ p <= e - 1
  <2>1. p \in a .. e - 1
    OBVIOUS
  <2>2. a \in Nat /\ e \in Nat
    BY <1>3
  <2> QED
    BY <2>1, <2>2
<1>8. s # 0
  <2>1. a \in Nat \ {0} /\ p \in a .. Len(buffer)
    BY <1>3, <1>7
  <2>2. s = strchr(buffer, a, ";")
    BY <1>3, <1>5 DEF Semicolon
  <2>3. \/ strchr(buffer, a, ";") = 0 /\ \A q \in a .. Len(buffer) : buffer[q] # ";"
        \/ strchr(buffer, a, ";") \in a .. Len(buffer)
    BY <2>1, StrchrIs, Zenon
  <2>4. CASE \A q \in a .. Len(buffer) : buffer[q] # ";"
    BY <1>6, <2>1, <2>4, Zenon
  <2>5. CASE s \in a .. Len(buffer)
    BY <1>3, <2>5
  <2> QED
    BY <2>2, <2>3, <2>4, <2>5
<1>9. /\ s \in a .. l /\ buffer[s] = ";" /\ \A q \in a .. s - 1 : buffer[q] # ";"
      /\ t \in s + 2 .. l + 8
      /\ text.at = t
      /\ cr # 0 => cr \in t .. l /\ (\A q \in t .. cr - 1 : buffer[q] # "CR") /\ text.len = cr - t
      /\ cr = 0 => \A q \in t .. l : buffer[q] # "CR"
  <2>1. header.at + header.len <= Len(buffer)
    BY <1>3
  <2>2. /\ s \in header.at .. Len(buffer)
        /\ buffer[s] = ";"
        /\ \A q \in header.at .. s - 1 : buffer[q] # ";"
        /\ t \in s + 2 .. Len(buffer) + 8
        /\ text.at = t
        /\ cr # 0 => /\ cr \in t .. Len(buffer)
                     /\ \A q \in t .. cr - 1 : buffer[q] # "CR"
                     /\ text.len = cr - t
        /\ cr = 0 => \A q \in t .. Len(buffer) : buffer[q] # "CR"
    BY <1>2, <1>5, <1>8, <2>1, ParameterIs
  <2> QED
    BY <1>3, <2>2, Zenon
<1>10. s \in Nat /\ a <= s /\ s <= l /\ t \in Nat /\ s + 2 <= t
  <2>1. s \in a .. l
    BY <1>9
  <2>2. t \in s + 2 .. l + 8
    BY <1>9
  <2>3. s \in Nat /\ a <= s /\ s <= l
    BY <1>3, <2>1
  <2> QED
    BY <1>3, <2>2, <2>3
<1>11. p = s
  <2>1. ~(s \in a .. p - 1)
    BY <1>6, <1>9
  <2>2. ~(p \in a .. s - 1)
    BY <1>6, <1>9
  <2> QED
    BY <1>3, <1>7, <1>10, <2>1, <2>2
<1>12. t <= e
  <2>1. t = SkipBlanks(buffer, s + 1) + n
    BY <1>5, Zenon DEF Start
  <2> QED
    BY <1>6, <1>11, <2>1
\* The header itself ends at a '\r', so there is one from the name on, and not behind e
<1>13. cr # 0
  <2>1. e \in t .. l
    BY <1>3, <1>10, <1>12
  <2> QED
    BY <1>3, <1>9, <2>1
<1>14. cr \in Nat /\ t <= cr /\ cr <= l /\ \A q \in t .. cr - 1 : buffer[q] # "CR"
  <2>1. cr \in t .. l /\ \A q \in t .. cr - 1 : buffer[q] # "CR"
    BY <1>9, <1>13
  <2> QED
    BY <1>3, <1>10, <2>1
<1>15. cr <= e
  <2>1. ~(e \in t .. cr - 1)
    BY <1>3, <1>14
  <2> QED
    BY <1>3, <1>12, <1>14, <1>10, <2>1
<1>16. text.at = t /\ text.len \in Int /\ text.at + text.len = cr
  <2>1. text.at = t /\ text.len = cr - t
    BY <1>9, <1>13
  <2> QED
    BY <1>10, <1>14, <2>1
<1>17. buffer[cr] = "CR"
  <2>1. t \in Nat \ {0}
    BY <1>10
  <2>2. \/ strchr(buffer, t, "CR") = 0
        \/ buffer[strchr(buffer, t, "CR")] = "CR"
    BY <2>1, StrchrIs, Zenon
  <2> QED
    BY <1>5, <1>13, <2>2
<1>18. OwnPlace(text, header)
  <2>1. a < t
    BY <1>3, <1>10
  <2> QED
    BY <1>3, <1>15, <1>16, <2>1 DEF OwnPlace
<1> QED
  <2>1. buffer[text.at + text.len] = "CR"
    BY <1>16, <1>17
  <2>2. \A q \in text.at .. text.at + text.len - 1 : buffer[q] # "CR"
    <3>1. text.at + text.len - 1 = cr - 1
      BY <1>10, <1>14, <1>16
    <3>2. text.at = t
      BY <1>16
    <3>3. \A q \in t .. cr - 1 : buffer[q] # "CR"
      BY <1>14
    <3> QED
      BY <3>1, <3>2, <3>3, Zenon
  <2>3. PlaceOf(text, header)
    BY <1>18, <2>1, <2>2, Zenon DEF PlaceOf
  <2> QED
    BY <1>1, <1>5, <2>3, Zenon

-----------------------------------------------------------------------------
\* The lines of a well-formed request

Letters == Headers \cup {".", ":", " ", "v", ";", "tag=", "branch="}

LEMMA FillerIs ==
  ASSUME NEW m \in Nat
  PROVE  Filler(m) \in Seq(Letters) /\ Len(Filler(m)) = m
<1>1. "." \in Letters
  BY DEF Letters
<1>2. Filler(m) = [i \in 1 .. m |-> "."]
  BY DEF Filler
<1>3. Filler(m) \in [1 .. m -> Letters]
  BY <1>1, <1>2
<1> QED
  BY <1>2, <1>3

LEMMA TuplesAreSequences ==
  ASSUME NEW S, NEW x \in S, NEW y \in S, NEW z \in S, NEW v \in S
  PROVE  /\ <<x>> \in Seq(S) /\ Len(<<x>>) = 1
         /\ <<x, y, z>> \in Seq(S) /\ Len(<<x, y, z>>) = 3
         /\ <<x, y, z>>[1] = x /\ <<x, y, z>>[2] = y /\ <<x, y, z>>[3] = z
         /\ <<x, y, z, z, z, v>> \in Seq(S) /\ Len(<<x, y, z, z, z, v>>) = 6
         /\ <<x, y, z, z, z, v>>[1] = x /\ <<x, y, z, z, z, v>>[2] = y /\ <<x, y, z, z, z, v>>[6] = v
         /\ <<x, y, z, z, z, z, z, z, v>> \in Seq(S) /\ Len(<<x, y, z, z, z, z, z, z, v>>) = 9
         /\ <<x, y, z, z, z, z, z, z, v>>[1] = x /\ <<x, y, z, z, z, z, z, z, v>>[2] = y
         /\ <<x, y, z, z, z, z, z, z, v>>[9] = v
OBVIOUS

LEMMA ConcatIs ==
  ASSUME NEW g \in Seq(Letters), NEW k \in Seq(Letters)
  PROVE  /\ g \o k \in Seq(Letters) /\ Len(g \o k) = Len(g) + Len(k)
         /\ \A i \in 1 .. Len(g) : (g \o k)[i] = g[i]
         /\ \A i \in 1 .. Len(k) : (g \o k)[Len(g) + i] = k[i]
<1>1. Len(g) \in Nat /\ Len(k) \in Nat
  OBVIOUS
<1>2. /\ g \o k \in Seq(Letters) /\ Len(g \o k) = Len(g) + Len(k)
      /\ \A i \in 1 .. Len(g) + Len(k) : (g \o k)[i] = IF i <= Len(g) THEN g[i] ELSE k[i - Len(g)]
  BY ConcatProperties, Zenon
<1>3. ASSUME NEW i \in 1 .. Len(g)
      PROVE  (g \o k)[i] = g[i]
  BY <1>1, <1>2
<1>4. ASSUME NEW i \in 1 .. Len(k)
      PROVE  (g \o k)[Len(g) + i] = k[i]
  <2>1. PICK j : j = Len(g) + i
    OBVIOUS
  <2>2. j \in 1 .. Len(g) + Len(k) /\ ~(j <= Len(g)) /\ j - Len(g) = i
    BY <1>1, <2>1
  <2> QED
    BY <1>2, <2>1, <2>2
<1> QED
  BY <1>2, <1>3, <1>4

\* The text of a header of n characters: ": v" after the name
IsHeaderText(s, n) ==
  /\ s \in Seq(Letters) /\ Len(s) >= n + 3
  /\ s[n + 1] = ":" /\ s[n + 2] = " " /\ s[n + 3] = "v"

LEMMA PlainIs ==
  ASSUME NEW h \in Headers
  PROVE  IsHeaderText(Plain(h), NameLen[h]) /\ Len(Plain(h)) = NameLen[h] + 3
<1> DEFINE w == <<h>>
           k == <<":", " ", "v">>
<1>1. PICK n : n = NameLen[h] /\ n \in Nat /\ n >= 2
  BY NameLenIs
<1>2. h \in Letters /\ ":" \in Letters /\ " " \in Letters /\ "v" \in Letters
  BY DEF Letters
<1>3. PICK f : f = Filler(n - 1) /\ f \in Seq(Letters) /\ Len(f) = n - 1
  <2>1. n - 1 \in Nat
    BY <1>1
  <2> QED
    BY <2>1, FillerIs
<1>4. w \in Seq(Letters) /\ Len(w) = 1
  BY <1>2, TuplesAreSequences, Zenon
<1>5. k \in Seq(Letters) /\ Len(k) = 3 /\ k[1] = ":" /\ k[2] = " " /\ k[3] = "v"
  BY <1>2, TuplesAreSequences, Zenon
<1>6. Plain(h) = (w \o f) \o k
  BY <1>1, <1>3, Zenon DEF Plain
<1> HIDE DEF w, k
<1>7. PICK g : g = w \o f /\ g \in Seq(Letters) /\ Len(g) = n
  <2>1. w \o f \in Seq(Letters) /\ Len(w \o f) = Len(w) + Len(f)
    BY <1>3, <1>4, ConcatIs
  <2>2. Len(w \o f) = n
    BY <1>1, <1>3, <1>4, <2>1
  <2> QED
    BY <2>1, <2>2
<1>8. /\ g \o k \in Seq(Letters) /\ Len(g \o k) = n + 3
      /\ \A i \in 1 .. 3 : (g \o k)[n + i] = k[i]
  <2>1. /\ g \o k \in Seq(Letters) /\ Len(g \o k) = Len(g) + Len(k)
        /\ \A i \in 1 .. Len(k) : (g \o k)[Len(g) + i] = k[i]
    BY <1>5, <1>7, ConcatIs, Zenon
  <2> QED
    BY <1>5, <1>7, <2>1, Zenon
<1>9. (g \o k)[n + 1] = ":" /\ (g \o k)[n + 2] = " " /\ (g \o k)[n + 3] = "v"
  <2>1. 1 \in 1 .. 3 /\ 2 \in 1 .. 3 /\ 3 \in 1 .. 3
    OBVIOUS
  <2> QED
    BY <1>5, <1>8, <2>1, Zenon
<1>10. IsHeaderText(g \o k, n) /\ Len(g \o k) = n + 3
  <2>1. Len(g \o k) >= n + 3
    BY <1>1, <1>8
  <2> QED
    BY <1>8, <1>9, <2>1, Zenon DEF IsHeaderText
<1> QED
  BY <1>1, <1>6, <1>7, <1>10, Zenon

\* Plain(h) followed by a parameter
LEMMA ParameterLineIs ==
  ASSUME NEW h \in Headers, NEW k \in Seq(Letters)
  PROVE  /\ IsHeaderText(Plain(h) \o k, NameLen[h])
         /\ Len(Plain(h) \o k) = NameLen[h] + 3 + Len(k)
         /\ \A i \in 1 .. Len(k) : (Plain(h) \o k)[NameLen[h] + 3 + i] = k[i]
<1>1. PICK n, g : n = NameLen[h] /\ n \in Nat /\ g = Plain(h) /\ IsHeaderText(g, n) /\ Len(g) = n + 3
  BY NameLenIs, PlainIs
<1>2. g \in Seq(Letters) /\ g[n + 1] = ":" /\ g[n + 2] = " " /\ g[n + 3] = "v"
  BY <1>1 DEF IsHeaderText
<1>3. Len(k) \in Nat
  OBVIOUS
<1>4. /\ g \o k \in Seq(Letters) /\ Len(g \o k) = n + 3 + Len(k)
      /\ \A i \in 1 .. n + 3 : (g \o k)[i] = g[i]
      /\ \A i \in 1 .. Len(k) : (g \o k)[n + 3 + i] = k[i]
  <2>1. /\ g \o k \in Seq(Letters) /\ Len(g \o k) = Len(g) + Len(k)
        /\ \A i \in 1 .. Len(g) : (g \o k)[i] = g[i]
        /\ \A i \in 1 .. Len(k) : (g \o k)[Len(g) + i] = k[i]
    BY <1>2, ConcatIs, Zenon
  <2> QED
    BY <1>1, <2>1, Zenon
<1>5. (g \o k)[n + 1] = g[n + 1] /\ (g \o k)[n + 2] = g[n + 2] /\ (g \o k)[n + 3] = g[n + 3]
  <2>1. n + 1 \in 1 .. n + 3 /\ n + 2 \in 1 .. n + 3 /\ n + 3 \in 1 .. n + 3
    BY <1>1
  <2> QED
    BY <1>4, <2>1, Zenon
<1>6. IsHeaderText(g \o k, n)
  <2>1. Len(g \o k) >= n + 3
    BY <1>1, <1>3, <1>4
  <2> QED
    BY <1>2, <1>4, <1>5, <2>1, Zenon DEF IsHeaderText
<1> QED
  BY <1>1, <1>4, <1>6

\* The characters of a line
LEMMA LineChars ==
  ASSUME NEW b \in Buffers, NEW p \in Lines(b), NEW s, LineAt(b, p) = s
  PROVE  /\ Len(s) \in Nat /\ LineEnd(b, p) = p + Len(s)
         /\ \A i \in 1 .. Len(s) : b[p + i - 1] = s[i]
<1>1. PICK e : e = LineEnd(b, p) /\ p \in Nat /\ p >= 1 /\ e \in Nat /\ p <= e /\ e <= Len(b) - 1
               /\ b \in Seq(STRING)
  BY LinesIs, BufferIs
<1>2. s = SubSeq(b, p, e - 1)
  BY <1>1 DEF LineAt
<1>3. Len(s) = e - p
  BY <1>1, <1>2
<1>4. ASSUME NEW i \in 1 .. Len(s)
      PROVE  b[p + i - 1] = s[i]
  BY <1>1, <1>2, <1>3
<1> QED
  BY <1>1, <1>3, <1>4

\* What get_header_value makes of such a line
LEMMA ValueIs ==
  ASSUME NEW b \in Buffers, NEW h \in Headers, NEW p \in Lines(b), b[p] = h,
         NEW s, LineAt(b, p) = s, NEW n \in Nat, n = NameLen[h], IsHeaderText(s, n)
  PROVE  /\ Skip(b, p + n) = p + n + 2
         /\ LineEnd(b, p) = p + Len(s)
         /\ b[p + n + 2] = "v"
<1>1. PICK l : l = Len(s) /\ l \in Nat /\ LineEnd(b, p) = p + l /\ \A i \in 1 .. l : b[p + i - 1] = s[i]
  BY LineChars
<1>2. l >= n + 3 /\ s[n + 1] = ":" /\ s[n + 2] = " " /\ s[n + 3] = "v"
  BY <1>1 DEF IsHeaderText
<1>3. p \in Nat
  BY LinesIs
<1>4. b[p + n] = ":" /\ b[p + n + 1] = " " /\ b[p + n + 2] = "v"
  <2>1. n + 1 \in 1 .. l /\ n + 2 \in 1 .. l /\ n + 3 \in 1 .. l
    <3>1. l \in Nat /\ l >= n + 3
      BY <1>1, <1>2
    <3> QED
      BY <3>1
  <2>2. b[p + (n + 1) - 1] = ":" /\ b[p + (n + 2) - 1] = " " /\ b[p + (n + 3) - 1] = "v"
    BY <1>1, <1>2, <2>1, Zenon
  <2>3. p + (n + 1) - 1 = p + n /\ p + (n + 2) - 1 = p + n + 1 /\ p + (n + 3) - 1 = p + n + 2
    BY <1>3
  <2> QED
    BY <2>2, <2>3
<1>5. PICK v : v = Skip(b, p + n) /\ v \in p + n .. LineEnd(b, p)
               /\ b[v] \notin {":", " "} /\ \A r \in p + n .. v - 1 : b[r] \in {":", " "}
  BY HeaderLine
<1>6. v # p + n /\ v # p + n + 1
  BY <1>4, <1>5
<1>7. ~(p + n + 2 \in p + n .. v - 1)
  BY <1>4, <1>5
<1>8. v \in Nat /\ p + n <= v
  <2>1. v \in p + n .. p + l
    BY <1>1, <1>5
  <2> QED
    BY <1>1, <1>3, <2>1
<1>9. v = p + n + 2
  BY <1>3, <1>6, <1>7, <1>8
<1> QED
  BY <1>1, <1>4, <1>5, <1>9

LEMMA WithTagIs ==
  ASSUME NEW h \in Headers
  PROVE  /\ IsHeaderText(WithTag(h), NameLen[h]) /\ Len(WithTag(h)) = NameLen[h] + 9
         /\ WithTag(h)[NameLen[h] + 4] = ";" /\ WithTag(h)[NameLen[h] + 5] = "tag="
         /\ WithTag(h)[NameLen[h] + 9] = "v"
<1> DEFINE k == <<";", "tag=", ".", ".", ".", "v">>
<1>1. PICK n : n = NameLen[h] /\ n \in Nat
  BY NameLenIs
<1>2. ";" \in Letters /\ "tag=" \in Letters /\ "." \in Letters /\ "v" \in Letters
  BY DEF Letters
<1>3. k \in Seq(Letters) /\ Len(k) = 6 /\ k[1] = ";" /\ k[2] = "tag=" /\ k[6] = "v"
  BY <1>2, TuplesAreSequences, Zenon
<1>4. PICK s : s = WithTag(h) /\ s = Plain(h) \o k
  BY Zenon DEF WithTag
<1> HIDE DEF k
<1>5. IsHeaderText(s, n) /\ Len(s) = n + 3 + 6 /\ \A i \in 1 .. 6 : s[n + 3 + i] = k[i]
  <2>1. /\ IsHeaderText(Plain(h) \o k, NameLen[h])
        /\ Len(Plain(h) \o k) = NameLen[h] + 3 + Len(k)
        /\ \A i \in 1 .. Len(k) : (Plain(h) \o k)[NameLen[h] + 3 + i] = k[i]
    BY <1>3, ParameterLineIs, Zenon
  <2> QED
    BY <1>1, <1>3, <1>4, <2>1, Zenon
<1>6. s[n + 3 + 1] = ";" /\ s[n + 3 + 2] = "tag=" /\ s[n + 3 + 6] = "v"
  <2>1. 1 \in 1 .. 6 /\ 2 \in 1 .. 6 /\ 6 \in 1 .. 6
    OBVIOUS
  <2> QED
    BY <1>3, <1>5, <2>1, Zenon
<1>7. n + 3 + 1 = n + 4 /\ n + 3 + 2 = n + 5 /\ n + 3 + 6 = n + 9
  BY <1>1
<1> QED
  BY <1>1, <1>4, <1>5, <1>6, <1>7, Zenon

LEMMA WithBranchIs ==
  ASSUME NEW h \in Headers
  PROVE  /\ IsHeaderText(WithBranch(h), NameLen[h]) /\ Len(WithBranch(h)) = NameLen[h] + 12
         /\ WithBranch(h)[NameLen[h] + 4] = ";" /\ WithBranch(h)[NameLen[h] + 5] = "branch="
         /\ WithBranch(h)[NameLen[h] + 12] = "v"
<1> DEFINE k == <<";", "branch=", ".", ".", ".", ".", ".", ".", "v">>
<1>1. PICK n : n = NameLen[h] /\ n \in Nat
  BY NameLenIs
<1>2. ";" \in Letters /\ "branch=" \in Letters /\ "." \in Letters /\ "v" \in Letters
  BY DEF Letters
<1>3. k \in Seq(Letters) /\ Len(k) = 9 /\ k[1] = ";" /\ k[2] = "branch=" /\ k[9] = "v"
  BY <1>2, TuplesAreSequences, Zenon
<1>4. PICK s : s = WithBranch(h) /\ s = Plain(h) \o k
  BY Zenon DEF WithBranch
<1> HIDE DEF k
<1>5. IsHeaderText(s, n) /\ Len(s) = n + 3 + 9 /\ \A i \in 1 .. 9 : s[n + 3 + i] = k[i]
  <2>1. /\ IsHeaderText(Plain(h) \o k, NameLen[h])
        /\ Len(Plain(h) \o k) = NameLen[h] + 3 + Len(k)
        /\ \A i \in 1 .. Len(k) : (Plain(h) \o k)[NameLen[h] + 3 + i] = k[i]
    BY <1>3, ParameterLineIs, Zenon
  <2> QED
    BY <1>1, <1>3, <1>4, <2>1, Zenon
<1>6. s[n + 3 + 1] = ";" /\ s[n + 3 + 2] = "branch=" /\ s[n + 3 + 9] = "v"
  <2>1. 1 \in 1 .. 9 /\ 2 \in 1 .. 9 /\ 9 \in 1 .. 9
    OBVIOUS
  <2> QED
    BY <1>3, <1>5, <2>1, Zenon
<1>7. n + 3 + 1 = n + 4 /\ n + 3 + 2 = n + 5 /\ n + 3 + 9 = n + 12
  BY <1>1
<1> QED
  BY <1>1, <1>4, <1>5, <1>6, <1>7, Zenon

\* "v;", a name of n characters, "v" and '\r' at a
IsParameterText(b, a, n) ==
  /\ a + n + 3 <= Len(b)
  /\ b[a] # ";" /\ b[a + 1] = ";" /\ b[a + 2] # " "
  /\ b[a + n + 2] = "v" /\ b[a + n + 3] = "CR"

LEMMA ParameterPositions ==
  ASSUME NEW b \in Buffers, NEW n \in 1 .. 7, NEW a \in Nat \ {0}, IsParameterText(b, a, n)
  PROVE  /\ strchr(b, a, ";") = a + 1
         /\ SkipBlanks(b, a + 2) = a + 2
         /\ strchr(b, a + n + 2, "CR") = a + n + 3
<1>1. a \in Nat /\ a >= 1 /\ n \in Nat /\ n >= 1 /\ n <= 7
  OBVIOUS
<1>2. PICK l : l = Len(b) /\ l \in Nat /\ a + n + 3 <= l /\ SizeRange \in Nat /\ 2 * (l + 8) <= SizeRange
  BY BufferIs DEF IsParameterText
<1>3. /\ b[a] # ";" /\ b[a + 1] = ";" /\ b[a + 2] # " "
      /\ b[a + n + 2] = "v" /\ b[a + n + 3] = "CR"
  BY DEF IsParameterText
<1>4. strchr(b, a, ";") = a + 1
  <2>1. PICK s : s = strchr(b, a, ";")
    OBVIOUS
  <2>2. a + 1 \in a .. l
    BY <1>1, <1>2
  <2>3. s \in a .. l /\ b[s] = ";" /\ \A q \in a .. s - 1 : b[q] # ";"
    <3>1. \/ s = 0 /\ \A q \in a .. l : b[q] # ";"
          \/ s \in a .. l /\ b[s] = ";" /\ \A q \in a .. s - 1 : b[q] # ";"
      <4>1. a \in Nat \ {0}
        OBVIOUS
      <4>2. \/ strchr(b, a, ";") = 0 /\ \A q \in a .. Len(b) : b[q] # ";"
            \/ /\ strchr(b, a, ";") \in a .. Len(b) /\ b[strchr(b, a, ";")] = ";"
               /\ \A q \in a .. strchr(b, a, ";") - 1 : b[q] # ";"
        BY <4>1, StrchrIs
      <4> QED
        BY <1>2, <2>1, <4>2, Zenon
    <3> QED
      BY <1>3, <2>2, <3>1, Zenon
  <2>4. s # a
    BY <1>3, <2>3
  <2>5. ~(a + 1 \in a .. s - 1)
    BY <1>3, <2>3
  <2>6. s \in Nat /\ a <= s
    <3>1. s \in a .. l
      BY <2>3
    <3> QED
      BY <1>1, <1>2, <3>1
  <2>7. s = a + 1
    BY <1>1, <2>4, <2>5, <2>6
  <2> QED
    BY <2>1, <2>7
<1>5. SkipBlanks(b, a + 2) = a + 2
  <2>1. PICK p : p = a + 2 /\ p \in 1 .. l + 1
    BY <1>1, <1>2
  <2>2. PICK u : u = SkipBlanks(b, p) /\ u \in p .. l + 1 /\ \A r \in p .. u - 1 : b[r] \in {" "}
    <3>1. p \in 1 .. Len(b) + 1
      BY <1>2, <2>1
    <3>2. /\ Behind(b, p, {" "}) \in p .. Len(b) + 1
          /\ \A r \in p .. Behind(b, p, {" "}) - 1 : b[r] \in {" "}
      BY <3>1, BehindIs, Zenon
    <3>3. SkipBlanks(b, p) = Behind(b, p, {" "})
      BY DEF SkipBlanks
    <3> QED
      BY <1>2, <3>2, <3>3, Zenon
  <2>3. ~(p \in p .. u - 1)
    BY <1>3, <2>1, <2>2
  <2>4. u \in Nat /\ p \in Nat /\ p <= u
    <3>1. u \in p .. l + 1
      BY <2>2
    <3> QED
      BY <1>1, <1>2, <2>1, <3>1
  <2>5. u = p
    BY <2>3, <2>4
  <2> QED
    BY <2>1, <2>2, <2>5
<1>6. PICK t : t = a + n + 2 /\ t \in Nat \ {0} /\ t = a + 2 + n /\ t + 1 = a + n + 3
  BY <1>1
<1>7. strchr(b, t, "CR") = t + 1
  <2>1. PICK s : s = strchr(b, t, "CR")
    OBVIOUS
  <2>2. t + 1 \in t .. l
    BY <1>1, <1>2, <1>6
  <2>3. b[t] = "v" /\ b[t + 1] = "CR"
    BY <1>3, <1>6
  <2>4. s \in t .. l /\ b[s] = "CR" /\ \A q \in t .. s - 1 : b[q] # "CR"
    <3>1. \/ s = 0 /\ \A q \in t .. l : b[q] # "CR"
          \/ s \in t .. l /\ b[s] = "CR" /\ \A q \in t .. s - 1 : b[q] # "CR"
      BY <1>2, <1>6, <2>1, StrchrIs
    <3> QED
      BY <2>2, <2>3, <3>1, Zenon
  <2>5. s # t
    BY <2>3, <2>4
  <2>6. ~(t + 1 \in t .. s - 1)
    BY <2>3, <2>4
  <2>7. s \in Nat /\ t <= s
    <3>1. s \in t .. l
      BY <2>4
    <3> QED
      BY <1>2, <1>6, <3>1
  <2> QED
    BY <1>6, <2>1, <2>5, <2>6, <2>7
<1> QED
  BY <1>4, <1>5, <1>6, <1>7

LEMMA ParameterValue ==
  ASSUME NEW b \in Buffers, NEW header, NEW n \in 1 .. 7, header.at \in Nat \ {0},
         IsParameterText(b, header.at, n)
  PROVE  Parameter(b, header, n) = [at |-> header.at + n + 2, len |-> 1]
<1>1. PICK a : a = header.at /\ a \in Nat \ {0}
  OBVIOUS
<1>2. PICK t, cr, end : /\ t = a + n + 2 /\ cr = a + n + 3
                        /\ end = IF cr # 0 THEN cr ELSE header.at + header.len
  OBVIOUS
<1>3. a + 1 # 0 /\ cr # 0 /\ a + 1 + 1 = a + 2 /\ a + 2 + n = t /\ cr - t = 1
  BY <1>1, <1>2
<1>4. strchr(b, a, ";") = a + 1 /\ SkipBlanks(b, a + 2) = a + 2 /\ strchr(b, t, "CR") = cr
  BY <1>1, <1>2, ParameterPositions
<1>5. end = cr
  BY <1>2, <1>3, Zenon
<1>6. Size(end - t) = 1
  <2>1. 1 < SizeRange /\ - SizeRange <= 1
    BY BufferIs
  <2> QED
    BY <1>3, <1>5, <2>1, SizeIs
<1>7. Parameter(b, header, n) = IF a + 1 = 0 THEN NoText ELSE [at |-> t, len |-> Size(end - t)]
  <2>1. strchr(b, header.at, ";") = a + 1 /\ SkipBlanks(b, a + 1 + 1) + n = t
    BY <1>1, <1>3, <1>4
  <2> QED
    BY <1>2, <1>4, <2>1, Zenon DEF Parameter
<1> QED
  BY <1>1, <1>2, <1>3, <1>6, <1>7, Zenon

\* The line that get_header_value takes a header of a well-formed request from
LEMMA WellFormedHeader ==
  ASSUME NEW b \in Buffers, WellFormed(b), NEW h \in Headers
  PROVE  \E p \in Lines(b) :
           /\ b[p] = h
           /\ LineAt(b, p) \in Value(b, h)
           /\ Header(b, h) = [at |-> Skip(b, p + NameLen[h]),
                              len |-> LineEnd(b, p) - Skip(b, p + NameLen[h])]
<1>1. Cardinality({q \in Lines(b) : b[q] = h}) = 1
  BY Zenon DEF WellFormed, Complete
<1>2. {q \in Lines(b) : b[q] = h} # {}
  <2>1. Cardinality({}) = 0
    BY FS_EmptySet, Zenon
  <2> QED
    BY <1>1, <2>1
<1>3. PICK p \in Lines(b) :
        /\ b[p] = h
        /\ Header(b, h) = [at |-> Skip(b, p + NameLen[h]),
                           len |-> LineEnd(b, p) - Skip(b, p + NameLen[h])]
  BY <1>2, HeaderIs
<1> QED
  BY <1>3 DEF Value

\* A header whose line s is one of the three: where its value is and how long
LEMMA WellFormedValue ==
  ASSUME NEW b \in Buffers, NEW h \in Headers, NEW p \in Lines(b), b[p] = h,
         IsHeaderText(LineAt(b, p), NameLen[h]),
         Header(b, h) = [at |-> Skip(b, p + NameLen[h]),
                         len |-> LineEnd(b, p) - Skip(b, p + NameLen[h])]
  PROVE  /\ p \in Nat \ {0} /\ Header(b, h).at = p + NameLen[h] + 2
         /\ Header(b, h).at + Header(b, h).len = p + Len(LineAt(b, p))
         /\ Header(b, h).len = Len(LineAt(b, p)) - (NameLen[h] + 2)
         /\ Header(b, h).len >= 1
         /\ b[Header(b, h).at] = "v"
         /\ p + Len(LineAt(b, p)) \in 1 .. Len(b) - 1 /\ b[p + Len(LineAt(b, p))] = "CR"
         /\ Len(LineAt(b, p)) \in Nat
         /\ \A i \in 1 .. Len(LineAt(b, p)) : b[p + i - 1] = LineAt(b, p)[i]
<1>1. PICK s, n : s = LineAt(b, p) /\ n = NameLen[h] /\ n \in Nat /\ IsHeaderText(s, n)
  BY NameLenIs
<1>2. PICK l : l = Len(s) /\ l \in Nat /\ LineEnd(b, p) = p + l /\ \A i \in 1 .. l : b[p + i - 1] = s[i]
  BY <1>1, LineChars
<1>3. p \in Nat \ {0} /\ p + l \in p .. Len(b) - 1 /\ b[p + l] = "CR"
  BY <1>2, LinesIs
<1>4. Skip(b, p + n) = p + n + 2 /\ b[p + n + 2] = "v"
  BY <1>1, ValueIs
<1>5. l >= n + 3
  BY <1>1, <1>2 DEF IsHeaderText
<1>6. p + l - (p + n + 2) = l - (n + 2) /\ l - (n + 2) >= 1 /\ p + n + 2 + (l - (n + 2)) = p + l
  <2>1. p \in Nat /\ l \in Nat /\ n \in Nat
    BY <1>1, <1>2, <1>3
  <2> QED
    BY <1>5, <2>1
<1>7. p + l \in 1 .. Len(b) - 1
  BY <1>2, <1>3, BufferIs
<1>8. Header(b, h).at = p + n + 2 /\ Header(b, h).len = l - (n + 2)
  <2>1. PICK v, e : v = Skip(b, p + n) /\ e = LineEnd(b, p) /\ v = p + n + 2 /\ e = p + l
    BY <1>2, <1>4
  <2>2. Header(b, h) = [at |-> v, len |-> e - v]
    BY <1>1, <2>1, Zenon
  <2>3. e - v = l - (n + 2)
    <3>1. n \in Nat /\ l \in Nat /\ p \in Nat
      BY <1>1, <1>2, <1>3
    <3>2. v = p + n + 2 /\ e = p + l
      BY <2>1
    <3> QED
      BY <3>1, <3>2
  <2> QED
    BY <2>1, <2>2, <2>3
<1>9. Header(b, h).at + Header(b, h).len = p + l /\ Header(b, h).len >= 1 /\ b[Header(b, h).at] = "v"
  BY <1>4, <1>6, <1>8, Zenon
<1> QED
  BY <1>1, <1>2, <1>3, <1>7, <1>8, <1>9, Zenon

\* Every header of a well-formed request has its value "v...", of one character unless
\* the header has a parameter.
LEMMA WellFormedHeaders ==
  ASSUME NEW b \in Buffers, WellFormed(b), NEW h \in Headers
  PROVE  /\ Header(b, h).at \in Nat \ {0} /\ Header(b, h).len \in Nat \ {0}
         /\ Header(b, h).at + Header(b, h).len \in 1 .. Len(b) - 1
         /\ b[Header(b, h).at] = "v"
         /\ h \notin {"From", "To", "Via"} => Header(b, h).len = 1
<1>1. PICK n : n = NameLen[h] /\ n \in Nat
  BY NameLenIs
<1>2. PICK p \in Lines(b) :
        /\ b[p] = h
        /\ LineAt(b, p) \in Value(b, h)
        /\ Header(b, h) = [at |-> Skip(b, p + n), len |-> LineEnd(b, p) - Skip(b, p + n)]
  BY <1>1, WellFormedHeader
<1>3. Value(b, h) \subseteq {Plain(h), WithTag(h), WithBranch(h)}
  BY DEF WellFormed, Complete
<1>4. h \notin {"From", "To", "Via"} => Value(b, h) = {Plain(h)}
  BY DEF WellFormed, Complete
<1>5. IsHeaderText(LineAt(b, p), n)
  BY <1>1, <1>2, <1>3, PlainIs, WithTagIs, WithBranchIs
<1>6. /\ p \in Nat \ {0} /\ Header(b, h).at = p + n + 2
      /\ Header(b, h).at + Header(b, h).len = p + Len(LineAt(b, p))
      /\ Header(b, h).len = Len(LineAt(b, p)) - (n + 2)
      /\ Header(b, h).len >= 1
      /\ b[Header(b, h).at] = "v"
      /\ p + Len(LineAt(b, p)) \in 1 .. Len(b) - 1
      /\ Len(LineAt(b, p)) \in Nat
  BY <1>1, <1>2, <1>5, WellFormedValue
<1>7. h \notin {"From", "To", "Via"} => Len(LineAt(b, p)) = n + 3
  BY <1>1, <1>2, <1>4, PlainIs
<1>8. PICK at, len, l : at = Header(b, h).at /\ len = Header(b, h).len /\ l = Len(LineAt(b, p))
  OBVIOUS
<1>9. /\ at \in Nat \ {0} /\ len \in Nat \ {0}
      /\ h \notin {"From", "To", "Via"} => len = 1
  <2>1. p \in Nat \ {0} /\ at = p + n + 2
    BY <1>6, <1>8, Zenon
  <2>2. l \in Nat /\ len = l - (n + 2) /\ len >= 1
    BY <1>6, <1>8, Zenon
  <2>3. h \notin {"From", "To", "Via"} => l = n + 3
    BY <1>7, <1>8, Zenon
  <2> QED
    BY <1>1, <2>1, <2>2, <2>3
<1> QED
  BY <1>6, <1>8, <1>9

\* The text of a header of m characters with a parameter of n
HasParameterText(s, m, n) ==
  /\ IsHeaderText(s, m) /\ Len(s) = m + n + 5
  /\ s[m + 4] = ";" /\ s[m + 5] # " " /\ s[m + n + 5] = "v"

LEMMA WellFormedParameter ==
  ASSUME NEW b \in Buffers, WellFormed(b), NEW h \in Headers, NEW n \in 1 .. 7,
         \A t \in Value(b, h) : HasParameterText(t, NameLen[h], n)
  PROVE  /\ Parameter(b, Header(b, h), n) = [at |-> Header(b, h).at + n + 2, len |-> 1]
         /\ Header(b, h).at \in Nat \ {0} /\ Header(b, h).at + n + 2 \in 1 .. Len(b) - 1
         /\ b[Header(b, h).at + n + 2] = "v"
<1>1. PICK m : m = NameLen[h] /\ m \in Nat /\ n \in Nat /\ n >= 1
  BY NameLenIs
<1>2. PICK p \in Lines(b) :
        /\ b[p] = h
        /\ LineAt(b, p) \in Value(b, h)
        /\ Header(b, h) = [at |-> Skip(b, p + m), len |-> LineEnd(b, p) - Skip(b, p + m)]
  BY <1>1, WellFormedHeader
<1>3. PICK s : s = LineAt(b, p) /\ HasParameterText(s, m, n) /\ IsHeaderText(s, m)
  BY <1>1, <1>2, Zenon DEF HasParameterText
<1>4. PICK a, l : a = Header(b, h).at /\ l = Len(s)
  OBVIOUS
<1>5. /\ p \in Nat \ {0} /\ a = p + m + 2
      /\ b[a] = "v"
      /\ p + l \in 1 .. Len(b) - 1 /\ b[p + l] = "CR" /\ l \in Nat
      /\ \A i \in 1 .. l : b[p + i - 1] = s[i]
  BY <1>1, <1>2, <1>3, <1>4, WellFormedValue
<1>6. l = m + n + 5 /\ s[m + 4] = ";" /\ s[m + 5] # " " /\ s[m + n + 5] = "v"
  BY <1>3, <1>4 DEF HasParameterText
<1>7. /\ a \in Nat \ {0} /\ a + 1 = p + (m + 4) - 1 /\ a + 2 = p + (m + 5) - 1
      /\ a + n + 2 = p + (m + n + 5) - 1 /\ a + n + 3 = p + l
      /\ m + 4 \in 1 .. l /\ m + 5 \in 1 .. l /\ m + n + 5 \in 1 .. l
  <2>1. p \in Nat \ {0} /\ a = p + m + 2
    BY <1>5
  <2>2. l = m + n + 5
    BY <1>6
  <2> QED
    BY <1>1, <2>1, <2>2
<1>8. b[a + 1] = ";" /\ b[a + 2] # " " /\ b[a + n + 2] = "v" /\ b[a + n + 3] = "CR"
  BY <1>5, <1>6, <1>7, Zenon
<1>9. a + n + 3 <= Len(b) /\ a + n + 2 \in 1 .. Len(b) - 1
  <2>1. a + n + 3 \in 1 .. Len(b) - 1 /\ Len(b) \in Nat
    BY <1>5, <1>7, BufferIs
  <2>2. a \in Nat
    BY <1>7
  <2> QED
    BY <1>1, <2>1, <2>2
<1>10. b[a] # ";"
  BY <1>5
<1>11. IsParameterText(b, a, n)
  BY <1>8, <1>9, <1>10, Zenon DEF IsParameterText
<1>12. Parameter(b, Header(b, h), n) = [at |-> a + n + 2, len |-> 1]
  BY <1>4, <1>7, <1>11, ParameterValue
<1> QED
  BY <1>4, <1>7, <1>8, <1>9, <1>12, Zenon

LEMMA WellFormedTag ==
  ASSUME NEW b \in Buffers, WellFormed(b), NEW h \in Headers, Value(b, h) = {WithTag(h)}
  PROVE  \A t \in Value(b, h) : HasParameterText(t, NameLen[h], 4)
<1>1. PICK m, s : m = NameLen[h] /\ m \in Nat /\ s = WithTag(h)
  BY NameLenIs
<1>2. IsHeaderText(s, m) /\ Len(s) = m + 9 /\ s[m + 4] = ";" /\ s[m + 5] = "tag=" /\ s[m + 9] = "v"
  BY <1>1, WithTagIs
<1>3. m + 4 + 5 = m + 9 /\ "tag=" # " "
  BY <1>1
<1>4. HasParameterText(s, m, 4)
  BY <1>2, <1>3, Zenon DEF HasParameterText
<1> QED
  BY <1>1, <1>4

LEMMA WellFormedBranch ==
  ASSUME NEW b \in Buffers, WellFormed(b)
  PROVE  \A t \in Value(b, "Via") : HasParameterText(t, NameLen["Via"], 7)
<1>1. PICK m, s : m = NameLen["Via"] /\ m \in Nat /\ s = WithBranch("Via") /\ Value(b, "Via") = {s}
  BY NameLenIs DEF Headers, NameLen, WellFormed, Complete
<1>2. IsHeaderText(s, m) /\ Len(s) = m + 12 /\ s[m + 4] = ";" /\ s[m + 5] = "branch=" /\ s[m + 12] = "v"
  <2>1. "Via" \in Headers
    BY DEF Headers, NameLen
  <2> QED
    BY <1>1, <2>1, WithBranchIs
<1>3. m + 7 + 5 = m + 12 /\ "branch=" # " "
  BY <1>1
<1>4. HasParameterText(s, m, 7)
  BY <1>2, <1>3, Zenon DEF HasParameterText
<1> QED
  BY <1>1, <1>4

\* A text of one character, "v"
IsValue(b, t) == t.at \in 1 .. Len(b) - 1 /\ t.len = 1 /\ b[t.at] = "v"

LEMMA WellFormedParameters ==
  ASSUME NEW b \in Buffers, WellFormed(b)
  PROVE  /\ IsValue(b, Parameter(b, Header(b, "From"), 4))
         /\ Value(b, "To") = {WithTag("To")} => IsValue(b, Parameter(b, Header(b, "To"), 4))
         /\ IsValue(b, Parameter(b, Header(b, "Via"), 7))
<1>1. "From" \in Headers /\ "To" \in Headers /\ "Via" \in Headers
  BY DEF Headers, NameLen
<1>2. Value(b, "From") = {WithTag("From")}
  BY DEF WellFormed, Complete
<1>3. ASSUME NEW h \in Headers, NEW n \in 1 .. 7,
             \A t \in Value(b, h) : HasParameterText(t, NameLen[h], n)
      PROVE  IsValue(b, Parameter(b, Header(b, h), n))
  <2>1. PICK t, a : t = Parameter(b, Header(b, h), n) /\ a = Header(b, h).at + n + 2
    OBVIOUS
  <2>2. t = [at |-> a, len |-> 1] /\ a \in 1 .. Len(b) - 1 /\ b[a] = "v"
    BY <1>3, <2>1, WellFormedParameter, Zenon
  <2>3. t.at = a /\ t.len = 1
    BY <2>2
  <2> QED
    BY <2>1, <2>2, <2>3, Zenon DEF IsValue
<1>4. 4 \in 1 .. 7 /\ 7 \in 1 .. 7
  OBVIOUS
<1>5. IsValue(b, Parameter(b, Header(b, "From"), 4))
  <2>1. \A t \in Value(b, "From") : HasParameterText(t, NameLen["From"], 4)
    BY <1>1, <1>2, WellFormedTag
  <2> QED
    BY <1>1, <1>3, <1>4, <2>1
<1>6. ASSUME Value(b, "To") = {WithTag("To")}
      PROVE  IsValue(b, Parameter(b, Header(b, "To"), 4))
  <2>1. \A t \in Value(b, "To") : HasParameterText(t, NameLen["To"], 4)
    BY <1>1, <1>6, WellFormedTag
  <2> QED
    BY <1>1, <1>3, <1>4, <2>1
<1>7. IsValue(b, Parameter(b, Header(b, "Via"), 7))
  <2>1. \A t \in Value(b, "Via") : HasParameterText(t, NameLen["Via"], 7)
    BY WellFormedBranch
  <2> QED
    BY <1>1, <1>3, <1>4, <2>1
<1> QED
  BY <1>5, <1>6, <1>7

LEMMA WellFormedFirstLine ==
  ASSUME NEW b \in Buffers, WellFormed(b)
  PROVE  FirstLineError(b) = "NONE" /\ MethodError(b) = "NONE"
<1>1. LineEnd(b, 1) = 4 /\ b[1] \in Known /\ b[3] = "SIP/2.0"
  BY DEF WellFormed
<1>2. IsRequest(b)
  BY <1>1 DEF IsRequest, Known, Versions
<1>3. PICK w : w = FirstLine(b) /\ w = SubSeq(b, 1, 3)
  <2>1. LineEnd(b, 1) - 1 = 3
    BY <1>1
  <2> QED
    BY <2>1, Zenon DEF FirstLine
<1>4. Len(b) \in Nat /\ Len(b) >= 5
  <2>1. 4 \in 1 .. Len(b) - 1
    BY <1>1, LineEndIs
  <2> QED
    BY <2>1, BufferIs
<1>5. Len(w) = 3 /\ w[1] = b[1] /\ w[3] = b[3]
  BY <1>3, <1>4, BufferIs
<1>6. RequestError(w) = "NONE"
  BY <1>1, <1>5 DEF RequestError, Versions
<1> QED
  BY <1>2, <1>3, <1>6 DEF FirstLineError, MethodError

-----------------------------------------------------------------------------
\* The inductive invariant

\* A text whose values fit TypeOK
Texts(b) == {t \in [at : Nat, len : Nat] : t.at <= Len(b) + 9 /\ t.len <= SizeRange - 1}

Types ==
  /\ buffer \in Buffers
  /\ message \in [Fields -> Texts(buffer)]
  /\ pc \in Steps
  /\ err \in Errors

Found(h) == Header(buffer, h).len # 0
Stored(f, h) == message[f] = Header(buffer, h) /\ Found(h)
StoredParameter(f, header, nameLen) ==
  message[f] = Parameter(buffer, message[header], nameLen) /\ message[f].len # 0

\* What every step that was passed without an error has stored and tested
Passed ==
  /\ pc # "call_id" => message.call_id = Header(buffer, "Call-ID") /\ message.call_id.at # 0
  /\ pc \notin {"call_id", "first"} => FirstLineError(buffer) = "NONE" /\ MethodError(buffer) = "NONE"
  /\ pc \notin {"call_id", "first", "from"} => Stored("from", "From")
  /\ pc \notin {"call_id", "first", "from", "from_tag"} => StoredParameter("from_tag", "from", 4)
  /\ pc \in {"via", "branch", "cseq", "Max-Forwards", "Content-Length", "done"} =>
       Stored("to", "To") /\ message.to_tag = Parameter(buffer, message.to, 4)
  /\ pc \in {"branch", "cseq", "Max-Forwards", "Content-Length", "done"} => Stored("via", "Via")
  /\ pc \in {"cseq", "Max-Forwards", "Content-Length", "done"} => StoredParameter("branch", "via", 7)
  /\ pc \in {"Max-Forwards", "Content-Length", "done"} => Stored("cseq", "CSeq")
  /\ pc \in {"Content-Length", "done"} => Found("Max-Forwards")
  /\ pc = "done" => Found("Content-Length")

MInv ==
  /\ Types
  /\ err = "NONE" => Passed
  /\ err # "NONE" => pc = "done"
  /\ WellFormed(buffer) => err = "NONE"

LEMMA HeaderText ==
  ASSUME NEW b \in Buffers, NEW h \in Headers
  PROVE  Header(b, h) \in Texts(b)
<1>1. Len(b) \in Nat /\ SizeRange \in Nat /\ 2 * (Len(b) + 8) <= SizeRange
  BY BufferIs
<1>2. CASE Header(b, h) = NoText
  BY <1>1, <1>2 DEF NoText, Texts
<1>3. CASE Header(b, h) # NoText
  <2>1. /\ Header(b, h) \in [at : Nat, len : Nat]
        /\ Header(b, h).at + Header(b, h).len \in 1 .. Len(b) - 1
    BY <1>3, HeaderPlace
  <2>2. PICK at, len : /\ at = Header(b, h).at /\ len = Header(b, h).len
                       /\ at \in Nat /\ len \in Nat /\ at + len \in 1 .. Len(b) - 1
    BY <2>1
  <2>3. at <= Len(b) + 9 /\ len <= SizeRange - 1
    BY <1>1, <2>2
  <2> QED
    BY <2>1, <2>2, <2>3 DEF Texts
<1> QED
  BY <1>2, <1>3

LEMMA ParameterText ==
  ASSUME NEW b \in Buffers, NEW h \in Headers, Header(b, h).len # 0, NEW n \in 1 .. 7
  PROVE  Parameter(b, Header(b, h), n) \in Texts(b)
<1>1. Len(b) \in Nat /\ SizeRange \in Nat \ {0} /\ 2 * (Len(b) + 8) <= SizeRange
  BY BufferIs
<1>2. PICK header : /\ header = Header(b, h) /\ header \in [at : Nat, len : Nat] /\ header.at # 0
                    /\ header.at + header.len <= Len(b)
  <2>1. /\ Header(b, h) \in [at : Nat, len : Nat] /\ Header(b, h).at # 0
        /\ Header(b, h).at + Header(b, h).len \in 1 .. Len(b) - 1
    BY HeaderPlace DEF NoText
  <2> QED
    BY <1>1, <2>1
<1>3. CASE Semicolon(b, header) = 0
  <2>1. Parameter(b, header, n) = NoText
    BY <1>3 DEF Parameter, Semicolon
  <2> QED
    BY <1>1, <1>2, <2>1 DEF NoText, Texts
<1>4. CASE Semicolon(b, header) # 0
  <2>1. PICK s, t : /\ s = Semicolon(b, header) /\ t = Start(b, header, n)
                    /\ s \in header.at .. Len(b) /\ t \in s + 2 .. Len(b) + 8
    BY <1>2, <1>4, ParameterIs
  <2>2. t \in Nat /\ t <= Len(b) + 9
    BY <1>1, <1>2, <2>1
  <2>3. PICK d : Parameter(b, header, n) = [at |-> t, len |-> Size(d)] /\ d \in Int
    <3>1. PICK cr : cr = strchr(b, t, "CR") /\ cr \in Int
      <4>1. t \in Nat \ {0}
        BY <1>1, <1>2, <2>1
      <4> QED
        BY <1>1, <4>1, StrchrIs
    <3>2. PICK e : e = (IF cr # 0 THEN cr ELSE header.at + header.len) /\ e \in Int
      BY <1>2, <3>1
    <3>3. Parameter(b, header, n) = [at |-> t, len |-> Size(e - t)]
      BY <1>4, <2>1, <3>1, <3>2 DEF Parameter, Semicolon, Start
    <3> QED
      BY <2>2, <3>2, <3>3
  <2>4. Size(d) \in Nat /\ Size(d) <= SizeRange - 1
    BY <1>1, <2>3 DEF Size
  <2> QED
    BY <1>2, <2>2, <2>3, <2>4 DEF Texts
<1> QED
  BY <1>3, <1>4

LEMMA InitMInv == Init => MInv
<1> SUFFICES ASSUME Init
             PROVE  MInv
  OBVIOUS
<1>1. NoText \in Texts(buffer)
  <2>1. Len(buffer) \in Nat /\ SizeRange \in Nat /\ 2 * (Len(buffer) + 8) <= SizeRange
    BY BufferIs DEF Init
  <2> QED
    BY <2>1 DEF NoText, Texts
<1>2. Types
  BY <1>1 DEF Init, Types, Steps, Errors
<1>3. Passed
  BY DEF Init, Passed
<1> QED
  BY <1>2, <1>3 DEF Init, MInv

\* A text that is required: stored, and the next step taken, unless it is empty
LEMMA RequiredStep ==
  ASSUME Types, err = "NONE", NEW step \in Steps, NEW text \in Texts(buffer),
         NEW missing \in Errors \ {"NONE"}, NEW next \in Steps,
         Required(step, text, missing, next)
  PROVE  /\ Types' /\ pc = step /\ buffer' = buffer
         /\ step \in Fields => message'[step] = text
         /\ \A f \in Fields : f # step => message'[f] = message[f]
         /\ text.len = 0 => err' # "NONE" /\ pc' = "done"
         /\ text.len # 0 => err' = "NONE" /\ pc' = next
<1>1. /\ pc = step /\ buffer' = buffer
      /\ step \in Fields => message' = [message EXCEPT ![step] = text]
      /\ step \notin Fields => message' = message
      /\ text.len = 0 => pc' = "done" /\ err' = missing
      /\ text.len # 0 => pc' = next /\ err' = "NONE"
  BY DEF Required, Fail, Go
<1>2. message' \in [Fields -> Texts(buffer)]
  BY <1>1 DEF Types
<1>3. pc' \in Steps /\ err' \in Errors
  BY <1>1 DEF Types, Steps, Errors
<1>4. Types'
  BY <1>1, <1>2, <1>3 DEF Types
<1>5. step \in Fields => message'[step] = text
  BY <1>1 DEF Types
<1>6. \A f \in Fields : f # step => message'[f] = message[f]
  BY <1>1 DEF Types
<1> QED
  BY <1>1, <1>4, <1>5, <1>6

LEMMA GetFromMInv == MInv /\ GetFrom => MInv'
<1> SUFFICES ASSUME MInv, GetFrom
             PROVE  MInv'
  OBVIOUS
<1>1. PICK text : text = Header(buffer, "From") /\ text \in Texts(buffer)
  BY HeaderText DEF MInv, Types, Headers, NameLen
<1>2. Types /\ Passed /\ err = "NONE" /\ pc = "from" /\ buffer \in Buffers
  BY DEF MInv, Types, GetFrom, Required
<1>3. /\ Types' /\ buffer' = buffer
      /\ "from" \in Fields => message'["from"] = text
      /\ \A f \in Fields : f # "from" => message'[f] = message[f]
      /\ text.len = 0 => err' # "NONE" /\ pc' = "done"
      /\ text.len # 0 => err' = "NONE" /\ pc' = "from_tag"
  <2>1. Required("from", text, "MISSING_MANDATORY_HEADER", "from_tag")
    BY <1>1 DEF GetFrom
  <2>2. "from" \in Steps /\ "from_tag" \in Steps /\ "MISSING_MANDATORY_HEADER" \in Errors \ {"NONE"}
    BY DEF Steps, Errors
  <2> QED
    BY <1>1, <1>2, <2>1, <2>2, RequiredStep
<1>4. err' = "NONE" => Passed'
  BY <1>1, <1>2, <1>3 DEF Passed, Stored, StoredParameter, Found, Fields
<1>5. WellFormed(buffer) => text.len # 0
  BY <1>1, <1>2, WellFormedHeaders DEF Headers, NameLen
<1> QED
  BY <1>3, <1>4, <1>5 DEF MInv

LEMMA GetFromTagMInv == MInv /\ GetFromTag => MInv'
<1> SUFFICES ASSUME MInv, GetFromTag
             PROVE  MInv'
  OBVIOUS
<1>1. Types /\ Passed /\ err = "NONE" /\ pc = "from_tag" /\ buffer \in Buffers
  BY DEF MInv, Types, GetFromTag, Required
<1>2. message.from = Header(buffer, "From") /\ Header(buffer, "From").len # 0
  BY <1>1 DEF Passed, Stored, Found
<1>3. PICK text : text = Parameter(buffer, message.from, 4) /\ text \in Texts(buffer)
  BY <1>1, <1>2, ParameterText DEF Headers, NameLen
<1>4. /\ Types' /\ buffer' = buffer
      /\ message'["from_tag"] = text
      /\ \A g \in Fields : g # "from_tag" => message'[g] = message[g]
      /\ text.len = 0 => err' # "NONE" /\ pc' = "done"
      /\ text.len # 0 => err' = "NONE" /\ pc' = "to"
  <2>1. Required("from_tag", text, "MISSING_MANDATORY_PARAMETER", "to")
    BY <1>3 DEF GetFromTag
  <2>2. /\ "from_tag" \in Steps /\ "to" \in Steps /\ "from_tag" \in Fields
        /\ "MISSING_MANDATORY_PARAMETER" \in Errors \ {"NONE"}
    BY DEF Steps, Errors, Fields
  <2> QED
    BY <1>1, <1>3, <2>1, <2>2, RequiredStep
<1>5. err' = "NONE" => Passed'
  BY <1>1, <1>2, <1>3, <1>4 DEF Passed, Stored, StoredParameter, Found, Fields
<1>6. WellFormed(buffer) => text.len # 0
  BY <1>1, <1>2, <1>3, WellFormedParameters DEF IsValue
<1> QED
  BY <1>4, <1>5, <1>6 DEF MInv

LEMMA GetViaMInv == MInv /\ GetVia => MInv'
<1> SUFFICES ASSUME MInv, GetVia
             PROVE  MInv'
  OBVIOUS
<1>1. PICK text : text = Header(buffer, "Via") /\ text \in Texts(buffer)
  BY HeaderText DEF MInv, Types, Headers, NameLen
<1>2. Types /\ Passed /\ err = "NONE" /\ pc = "via" /\ buffer \in Buffers
  BY DEF MInv, Types, GetVia, Required
<1>3. /\ Types' /\ buffer' = buffer
      /\ "via" \in Fields => message'["via"] = text
      /\ \A f \in Fields : f # "via" => message'[f] = message[f]
      /\ text.len = 0 => err' # "NONE" /\ pc' = "done"
      /\ text.len # 0 => err' = "NONE" /\ pc' = "branch"
  <2>1. Required("via", text, "MISSING_MANDATORY_HEADER", "branch")
    BY <1>1 DEF GetVia
  <2>2. "via" \in Steps /\ "branch" \in Steps /\ "MISSING_MANDATORY_HEADER" \in Errors \ {"NONE"}
    BY DEF Steps, Errors
  <2> QED
    BY <1>1, <1>2, <2>1, <2>2, RequiredStep
<1>4. err' = "NONE" => Passed'
  BY <1>1, <1>2, <1>3 DEF Passed, Stored, StoredParameter, Found, Fields
<1>5. WellFormed(buffer) => text.len # 0
  BY <1>1, <1>2, WellFormedHeaders DEF Headers, NameLen
<1> QED
  BY <1>3, <1>4, <1>5 DEF MInv

LEMMA GetBranchMInv == MInv /\ GetBranch => MInv'
<1> SUFFICES ASSUME MInv, GetBranch
             PROVE  MInv'
  OBVIOUS
<1>1. Types /\ Passed /\ err = "NONE" /\ pc = "branch" /\ buffer \in Buffers
  BY DEF MInv, Types, GetBranch, Required
<1>2. message.via = Header(buffer, "Via") /\ Header(buffer, "Via").len # 0
  BY <1>1 DEF Passed, Stored, Found
<1>3. PICK text : text = Parameter(buffer, message.via, 7) /\ text \in Texts(buffer)
  BY <1>1, <1>2, ParameterText DEF Headers, NameLen
<1>4. /\ Types' /\ buffer' = buffer
      /\ message'["branch"] = text
      /\ \A g \in Fields : g # "branch" => message'[g] = message[g]
      /\ text.len = 0 => err' # "NONE" /\ pc' = "done"
      /\ text.len # 0 => err' = "NONE" /\ pc' = "cseq"
  <2>1. Required("branch", text, "MISSING_MANDATORY_PARAMETER", "cseq")
    BY <1>3 DEF GetBranch
  <2>2. /\ "branch" \in Steps /\ "cseq" \in Steps /\ "branch" \in Fields
        /\ "MISSING_MANDATORY_PARAMETER" \in Errors \ {"NONE"}
    BY DEF Steps, Errors, Fields
  <2> QED
    BY <1>1, <1>3, <2>1, <2>2, RequiredStep
<1>5. err' = "NONE" => Passed'
  BY <1>1, <1>2, <1>3, <1>4 DEF Passed, Stored, StoredParameter, Found, Fields
<1>6. WellFormed(buffer) => text.len # 0
  BY <1>1, <1>2, <1>3, WellFormedParameters DEF IsValue
<1> QED
  BY <1>4, <1>5, <1>6 DEF MInv

LEMMA GetCSeqMInv == MInv /\ GetCSeq => MInv'
<1> SUFFICES ASSUME MInv, GetCSeq
             PROVE  MInv'
  OBVIOUS
<1>1. PICK text : text = Header(buffer, "CSeq") /\ text \in Texts(buffer)
  BY HeaderText DEF MInv, Types, Headers, NameLen
<1>2. Types /\ Passed /\ err = "NONE" /\ pc = "cseq" /\ buffer \in Buffers
  BY DEF MInv, Types, GetCSeq, Required
<1>3. /\ Types' /\ buffer' = buffer
      /\ "cseq" \in Fields => message'["cseq"] = text
      /\ \A f \in Fields : f # "cseq" => message'[f] = message[f]
      /\ text.len = 0 => err' # "NONE" /\ pc' = "done"
      /\ text.len # 0 => err' = "NONE" /\ pc' = "Max-Forwards"
  <2>1. Required("cseq", text, "MISSING_MANDATORY_HEADER", "Max-Forwards")
    BY <1>1 DEF GetCSeq
  <2>2. "cseq" \in Steps /\ "Max-Forwards" \in Steps /\ "MISSING_MANDATORY_HEADER" \in Errors \ {"NONE"}
    BY DEF Steps, Errors
  <2> QED
    BY <1>1, <1>2, <2>1, <2>2, RequiredStep
<1>4. err' = "NONE" => Passed'
  BY <1>1, <1>2, <1>3 DEF Passed, Stored, StoredParameter, Found, Fields
<1>5. WellFormed(buffer) => text.len # 0
  BY <1>1, <1>2, WellFormedHeaders DEF Headers, NameLen
<1> QED
  BY <1>3, <1>4, <1>5 DEF MInv

LEMMA CheckMaxForwardsMInv == MInv /\ CheckMaxForwards => MInv'
<1> SUFFICES ASSUME MInv, CheckMaxForwards
             PROVE  MInv'
  OBVIOUS
<1>1. PICK text : text = Header(buffer, "Max-Forwards") /\ text \in Texts(buffer)
  BY HeaderText DEF MInv, Types, Headers, NameLen
<1>2. Types /\ Passed /\ err = "NONE" /\ pc = "Max-Forwards" /\ buffer \in Buffers
  BY DEF MInv, Types, CheckMaxForwards, Required
<1>3. /\ Types' /\ buffer' = buffer
      /\ "Max-Forwards" \in Fields => message'["Max-Forwards"] = text
      /\ \A f \in Fields : f # "Max-Forwards" => message'[f] = message[f]
      /\ text.len = 0 => err' # "NONE" /\ pc' = "done"
      /\ text.len # 0 => err' = "NONE" /\ pc' = "Content-Length"
  <2>1. Required("Max-Forwards", text, "MISSING_MANDATORY_HEADER", "Content-Length")
    BY <1>1 DEF CheckMaxForwards
  <2>2. "Max-Forwards" \in Steps /\ "Content-Length" \in Steps /\ "MISSING_MANDATORY_HEADER" \in Errors \ {"NONE"}
    BY DEF Steps, Errors
  <2> QED
    BY <1>1, <1>2, <2>1, <2>2, RequiredStep
<1>4. err' = "NONE" => Passed'
  BY <1>1, <1>2, <1>3 DEF Passed, Stored, StoredParameter, Found, Fields
<1>5. WellFormed(buffer) => text.len # 0
  BY <1>1, <1>2, WellFormedHeaders DEF Headers, NameLen
<1> QED
  BY <1>3, <1>4, <1>5 DEF MInv

LEMMA CheckContentLengthMInv == MInv /\ CheckContentLength => MInv'
<1> SUFFICES ASSUME MInv, CheckContentLength
             PROVE  MInv'
  OBVIOUS
<1>1. PICK text : text = Header(buffer, "Content-Length") /\ text \in Texts(buffer)
  BY HeaderText DEF MInv, Types, Headers, NameLen
<1>2. Types /\ Passed /\ err = "NONE" /\ pc = "Content-Length" /\ buffer \in Buffers
  BY DEF MInv, Types, CheckContentLength, Required
<1>3. /\ Types' /\ buffer' = buffer
      /\ "Content-Length" \in Fields => message'["Content-Length"] = text
      /\ \A f \in Fields : f # "Content-Length" => message'[f] = message[f]
      /\ text.len = 0 => err' # "NONE" /\ pc' = "done"
      /\ text.len # 0 => err' = "NONE" /\ pc' = "done"
  <2>1. Required("Content-Length", text, "MISSING_MANDATORY_HEADER", "done")
    BY <1>1 DEF CheckContentLength
  <2>2. "Content-Length" \in Steps /\ "done" \in Steps /\ "MISSING_MANDATORY_HEADER" \in Errors \ {"NONE"}
    BY DEF Steps, Errors
  <2> QED
    BY <1>1, <1>2, <2>1, <2>2, RequiredStep
<1>4. err' = "NONE" => Passed'
  BY <1>1, <1>2, <1>3 DEF Passed, Stored, StoredParameter, Found, Fields
<1>5. WellFormed(buffer) => text.len # 0
  BY <1>1, <1>2, WellFormedHeaders DEF Headers, NameLen
<1> QED
  BY <1>3, <1>4, <1>5 DEF MInv

LEMMA GetCallIdMInv == MInv /\ GetCallId => MInv'
<1> SUFFICES ASSUME MInv, GetCallId
             PROVE  MInv'
  OBVIOUS
<1>1. Types /\ err = "NONE" /\ pc = "call_id" /\ buffer \in Buffers /\ "Call-ID" \in Headers
  BY DEF MInv, Types, GetCallId, Headers, NameLen
<1>2. PICK text : text = Header(buffer, "Call-ID") /\ text \in Texts(buffer)
  BY <1>1, HeaderText
<1>3. /\ message' = [message EXCEPT !.call_id = text] /\ buffer' = buffer
      /\ text.at = 0 => pc' = "done" /\ err' = "NO_CALL_ID"
      /\ text.at # 0 => pc' = "first" /\ err' = "NONE"
  BY <1>1, <1>2 DEF GetCallId, Fail, Go
<1>4. message' \in [Fields -> Texts(buffer)] /\ message'.call_id = text
  BY <1>1, <1>2, <1>3 DEF Types, Fields
<1>5. Types'
  BY <1>1, <1>3, <1>4 DEF Types, Steps, Errors
<1>6. err' = "NONE" => Passed'
  BY <1>2, <1>3, <1>4 DEF Passed
<1>7. WellFormed(buffer) => text.at # 0
  BY <1>1, <1>2, WellFormedHeaders
<1> QED
  BY <1>3, <1>5, <1>6, <1>7 DEF MInv

LEMMA ParseFirstLineMInv == MInv /\ ParseFirstLine => MInv'
<1> SUFFICES ASSUME MInv, ParseFirstLine
             PROVE  MInv'
  OBVIOUS
<1>1. Types /\ Passed /\ err = "NONE" /\ pc = "first" /\ buffer \in Buffers
  BY DEF MInv, Types, ParseFirstLine
<1>2. FirstLineError(buffer) \in Errors /\ MethodError(buffer) \in Errors
  BY DEF FirstLineError, MethodError, RequestError, ResponseError, Errors
<1>3. /\ message' = message /\ buffer' = buffer
      /\ \/ pc' = "done" /\ err' = FirstLineError(buffer) /\ err' # "NONE"
         \/ pc' = "done" /\ err' = MethodError(buffer) /\ err' # "NONE"
         \/ /\ pc' = "from" /\ err' = "NONE"
            /\ FirstLineError(buffer) = "NONE" /\ MethodError(buffer) = "NONE"
  BY <1>1 DEF ParseFirstLine, Fail, Go
<1>4. Types'
  BY <1>1, <1>2, <1>3 DEF Types, Steps
<1>5. err' = "NONE" => Passed'
  BY <1>1, <1>3 DEF Passed
<1>6. WellFormed(buffer) => FirstLineError(buffer) = "NONE" /\ MethodError(buffer) = "NONE"
  BY <1>1, WellFormedFirstLine
<1> QED
  BY <1>3, <1>4, <1>5, <1>6 DEF MInv

LEMMA GetToMInv == MInv /\ GetTo => MInv'
<1> SUFFICES ASSUME MInv, GetTo
             PROVE  MInv'
  OBVIOUS
<1>1. Types /\ Passed /\ err = "NONE" /\ pc = "to" /\ buffer \in Buffers /\ "To" \in Headers
  BY DEF MInv, Types, GetTo, Headers, NameLen
<1>2. PICK to, tag : /\ to = Header(buffer, "To") /\ to \in Texts(buffer)
                     /\ tag = (IF to.len = 0 THEN message.to_tag ELSE Parameter(buffer, to, 4))
                     /\ tag \in Texts(buffer)
  <2>1. Header(buffer, "To") \in Texts(buffer)
    BY <1>1, HeaderText
  <2>2. Header(buffer, "To").len # 0 => Parameter(buffer, Header(buffer, "To"), 4) \in Texts(buffer)
    BY <1>1, ParameterText
  <2>3. message.to_tag \in Texts(buffer)
    BY <1>1 DEF Types, Fields
  <2> QED
    BY <2>1, <2>2, <2>3
<1>3. /\ message' = [message EXCEPT !.to = to, !.to_tag = tag] /\ buffer' = buffer
      /\ to.len = 0 => pc' = "done" /\ err' = "MISSING_MANDATORY_HEADER"
      /\ to.len # 0 => pc' = "via" /\ err' = "NONE"
  <2>1. message' = [message EXCEPT !.to = Header(buffer, "To"),
                      !.to_tag = IF Header(buffer, "To").len = 0 THEN @
                                 ELSE Parameter(buffer, Header(buffer, "To"), 4)]
    BY DEF GetTo
  <2>2. [message EXCEPT !.to = to].to_tag = message.to_tag
    BY <1>1 DEF Types, Fields
  <2>3. message' = [message EXCEPT !.to = to, !.to_tag = tag]
    BY <1>2, <2>1, <2>2
  <2>4. /\ buffer' = buffer
        /\ to.len = 0 => pc' = "done" /\ err' = "MISSING_MANDATORY_HEADER"
        /\ to.len # 0 => pc' = "via" /\ err' = "NONE"
    BY <1>1, <1>2 DEF GetTo, Fail, Go
  <2> QED
    BY <2>3, <2>4
<1>4. /\ message' \in [Fields -> Texts(buffer)] /\ message'.to = to /\ message'.to_tag = tag
      /\ \A f \in Fields : f \notin {"to", "to_tag"} => message'[f] = message[f]
  BY <1>1, <1>2, <1>3 DEF Types, Fields
<1>5. Types'
  BY <1>1, <1>3, <1>4 DEF Types, Steps, Errors
<1>6. err' = "NONE" => Passed'
  BY <1>1, <1>2, <1>3, <1>4 DEF Passed, Stored, StoredParameter, Found, Fields
<1>7. WellFormed(buffer) => to.len # 0
  BY <1>1, <1>2, WellFormedHeaders
<1> QED
  BY <1>3, <1>5, <1>6, <1>7 DEF MInv

LEMMA StutterMInv == MInv /\ UNCHANGED vars => MInv'
<1> SUFFICES ASSUME MInv, UNCHANGED vars
             PROVE  MInv'
  OBVIOUS
<1>1. buffer' = buffer /\ message' = message /\ pc' = pc /\ err' = err
  BY DEF vars
<1>2. Types'
  BY <1>1 DEF MInv, Types
<1>3. err' = "NONE" => Passed'
  BY <1>1 DEF MInv, Passed, Stored, StoredParameter, Found
<1> QED
  BY <1>1, <1>2, <1>3 DEF MInv

LEMMA NextMInv == MInv /\ [Next]_vars => MInv'
BY GetCallIdMInv, ParseFirstLineMInv, GetFromMInv, GetFromTagMInv, GetToMInv, GetViaMInv,
   GetBranchMInv, GetCSeqMInv, CheckMaxForwardsMInv, CheckContentLengthMInv, StutterMInv DEF Next

\* What has been stored and tested when a step of the parser is reached
THEOREM MInvInvariant == Spec => []MInv
<1>1. Init => MInv
  BY InitMInv
<1>2. MInv /\ [Next]_vars => MInv'
  BY NextMInv
<1> QED
  BY <1>1, <1>2, PTL DEF Spec

-----------------------------------------------------------------------------
\* The properties of the runs

LEMMA TypesOK == Types => TypeOK
<1> SUFFICES ASSUME Types
             PROVE  TypeOK
  OBVIOUS
<1>1. Len(buffer) \in Nat /\ SizeRange \in Nat
  BY BufferIs DEF Types
<1>2. ASSUME NEW f \in Fields
      PROVE  message[f].at \in 0 .. Len(buffer) + 9 /\ message[f].len \in 0 .. SizeRange - 1
  BY <1>1 DEF Types, Texts
<1> QED
  BY <1>2 DEF Types, TypeOK

\* The parser keeps to its types: no text begins more than nine characters behind the
\* buffer, and no length exceeds a size_t.
THEOREM MessageTypeCorrect == Spec => []TypeOK
<1>1. MInv => TypeOK
  BY TypesOK DEF MInv
<1> QED
  BY <1>1, MInvInvariant, PTL

\* What the parser accepted
LEMMA AcceptedPassed ==
  ASSUME MInv, Accepted
  PROVE  /\ buffer \in Buffers
         /\ FirstLineError(buffer) = "NONE" /\ MethodError(buffer) = "NONE"
         /\ \A h \in Headers \ {"Call-ID"} : Header(buffer, h).len # 0
         /\ message.from = Header(buffer, "From") /\ message.to = Header(buffer, "To")
         /\ message.via = Header(buffer, "Via")
         /\ message.from_tag = Parameter(buffer, message.from, 4)
         /\ message.to_tag = Parameter(buffer, message.to, 4)
         /\ message.branch = Parameter(buffer, message.via, 7)
<1>1. Passed /\ pc = "done" /\ buffer \in Buffers
  BY DEF MInv, Types, Accepted
<1>2. /\ Stored("from", "From") /\ Stored("to", "To") /\ Stored("via", "Via") /\ Stored("cseq", "CSeq")
      /\ Found("Max-Forwards") /\ Found("Content-Length")
      /\ StoredParameter("from_tag", "from", 4) /\ StoredParameter("branch", "via", 7)
      /\ message.to_tag = Parameter(buffer, message.to, 4)
      /\ FirstLineError(buffer) = "NONE" /\ MethodError(buffer) = "NONE"
  BY <1>1 DEF Passed
<1>3. \A h \in Headers \ {"Call-ID"} : Header(buffer, h).len # 0
  BY <1>2 DEF Stored, Found, Headers, NameLen
<1> QED
  BY <1>1, <1>2, <1>3 DEF Stored, StoredParameter

\* Whatever comes in, an accepted request has a known method, and an accepted message
\* has, for each of the six headers, a line that begins with its name and goes on.
THEOREM MessagesComplete == Spec => []AcceptedIsComplete
<1>1. ASSUME MInv, Accepted, IsRequest(buffer)
      PROVE  buffer[1] \in Known /\ buffer[3] = "SIP/2.0"
  <2>1. buffer \in Buffers /\ RequestError(FirstLine(buffer)) = "NONE"
    BY <1>1, AcceptedPassed DEF FirstLineError
  <2>2. PICK w, e : w = FirstLine(buffer) /\ e = LineEnd(buffer, 1) /\ w = SubSeq(buffer, 1, e - 1)
    BY DEF FirstLine
  <2>3. buffer \in Seq(STRING) /\ Len(buffer) \in Nat
    BY <2>1, BufferIs
  <2>4. e = 0 \/ e \in 1 .. Len(buffer) - 1
    BY <2>1, <2>2, LineEndIs
  <2>5. Len(w) \in Nat /\ (e = 0 => Len(w) = 0)
    BY <2>2, <2>3, <2>4
  <2>6. ~(Len(w) < 2) /\ w[1] \in Known /\ ~(Len(w) < 3) /\ w[3] = "SIP/2.0"
    BY <2>1, <2>2 DEF RequestError
  <2>7. e \in 1 .. Len(buffer) - 1
    BY <2>4, <2>5, <2>6
  <2>8. Len(w) = e - 1 /\ \A i \in 1 .. e - 1 : w[i] = buffer[i]
    BY <2>2, <2>3, <2>7
  <2>9. 1 \in 1 .. e - 1 /\ 3 \in 1 .. e - 1
    BY <2>3, <2>5, <2>6, <2>7, <2>8
  <2> QED
    BY <2>6, <2>8, <2>9, Zenon
<1>2. ASSUME MInv, Accepted, NEW h \in Headers \ {"Call-ID"}
      PROVE  \E p \in Lines(buffer) :
               /\ buffer[p] = h
               /\ \E q \in p + NameLen[h] .. LineEnd(buffer, p) - 1 : buffer[q] \notin {":", " "}
  <2>1. buffer \in Buffers /\ Header(buffer, h).len # 0
    BY <1>2, AcceptedPassed
  <2>2. PICK n : n = NameLen[h] /\ n \in Nat
    BY NameLenIs
  <2>3. PICK p \in Lines(buffer) :
          /\ buffer[p] = h
          /\ Header(buffer, h) = [at |-> Skip(buffer, p + n),
                                  len |-> LineEnd(buffer, p) - Skip(buffer, p + n)]
    BY <2>1, <2>2, HeaderIs DEF NoText
  <2>4. PICK v, e : /\ v = Skip(buffer, p + n) /\ e = LineEnd(buffer, p)
                    /\ p + n \in 1 .. e /\ e \in 1 .. Len(buffer) - 1
                    /\ v \in p + n .. e /\ buffer[v] \notin {":", " "}
    BY <2>1, <2>2, <2>3, HeaderLine
  <2>5. Header(buffer, h) = [at |-> v, len |-> e - v]
    BY <2>3, <2>4, Zenon
  <2>6. e - v # 0
    BY <2>1, <2>5
  <2>7. v \in p + n .. e - 1
    <3>1. e \in Int
      <4>1. Len(buffer) \in Nat
        BY <2>1, BufferIs
      <4>2. e \in 1 .. Len(buffer) - 1
        BY <2>4
      <4> QED
        BY <4>1, <4>2
    <3>2. v \in p + n .. e /\ p + n \in 1 .. e
      BY <2>4
    <3>3. p + n \in Int
      BY <3>1, <3>2
    <3> QED
      BY <2>6, <3>1, <3>2, <3>3
  <2> QED
    BY <2>2, <2>3, <2>4, <2>7
<1>3. MInv => AcceptedIsComplete
  BY <1>1, <1>2 DEF AcceptedIsComplete
<1> QED
  BY <1>3, MInvInvariant, PTL

\* Whatever comes in, where the header has the room for the parameter, the tag or branch
\* of an accepted message lies within it and ends at a '\r'.
THEOREM ParametersPlaced == Spec => []ParameterPlace
<1>1. ASSUME MInv, Accepted
      PROVE  /\ HasParameter(message.from, 4) => PlaceOf(message.from_tag, message.from)
             /\ HasParameter(message.to, 4) => PlaceOf(message.to_tag, message.to)
             /\ HasParameter(message.via, 7) => PlaceOf(message.branch, message.via)
  <2>1. "From" \in Headers \ {"Call-ID"} /\ "To" \in Headers \ {"Call-ID"} /\ "Via" \in Headers \ {"Call-ID"}
    BY DEF Headers, NameLen
  <2>2. 4 \in 1 .. 7 /\ 7 \in 1 .. 7
    OBVIOUS
  <2> QED
    BY <1>1, <2>1, <2>2, AcceptedPassed, ParameterFound
<1>2. MInv => ParameterPlace
  BY <1>1 DEF ParameterPlace, ParameterOf, PlaceOf
<1> QED
  BY <1>2, MInvInvariant, PTL

LEMMA OneLetter ==
  ASSUME NEW S, NEW s \in Seq(S), Len(s) = 1
  PROVE  s = <<s[1]>>
<1>1. s[1] \in S
  OBVIOUS
<1>2. <<s[1]>> \in Seq(S) /\ Len(<<s[1]>>) = 1 /\ <<s[1]>>[1] = s[1]
  BY <1>1
<1> QED
  BY <1>2, SeqEqual

\* A well-formed request is accepted, in whatever order its headers stand and whatever
\* follows them, with the tags, the branch and the Call-ID that it has.
THEOREM WellFormedParsed == Spec => []WellFormedIsParsed
<1>1. ASSUME MInv, pc = "done", WellFormed(buffer)
      PROVE  /\ err = "NONE"
             /\ \A f \in {"from_tag", "branch", "call_id", "from", "to", "via", "cseq"} :
                  Chars(message[f])[1] = "v"
             /\ \A f \in {"from_tag", "branch", "call_id", "cseq"} : message[f].len = 1
             /\ Value(buffer, "To") = {WithTag("To")} => Chars(message.to_tag) = <<"v">>
  <2>1. err = "NONE" /\ Accepted /\ Passed /\ buffer \in Buffers
    BY <1>1 DEF MInv, Types, Accepted
  <2>2. /\ message.call_id = Header(buffer, "Call-ID") /\ message.cseq = Header(buffer, "CSeq")
        /\ message.from = Header(buffer, "From") /\ message.to = Header(buffer, "To")
        /\ message.via = Header(buffer, "Via")
        /\ message.from_tag = Parameter(buffer, Header(buffer, "From"), 4)
        /\ message.to_tag = Parameter(buffer, Header(buffer, "To"), 4)
        /\ message.branch = Parameter(buffer, Header(buffer, "Via"), 7)
    BY <1>1, <2>1 DEF Passed, Stored, StoredParameter
  <2>3. PICK l : l = Len(buffer) /\ l \in Nat /\ buffer \in Seq(STRING)
    BY <2>1, BufferIs
  \* A text that begins with "v"
  <2> DEFINE Begins(t) == /\ t.at \in Nat \ {0} /\ t.len \in Nat \ {0} /\ t.at + t.len <= l
                          /\ buffer[t.at] = "v"
  <2>4. ASSUME NEW t, Begins(t)
        PROVE  Chars(t)[1] = "v" /\ (t.len = 1 => Chars(t) = <<"v">>)
    <3>1. PICK a, m, c : /\ a = t.at /\ m = t.len /\ c = a + m - 1
                         /\ a \in Nat /\ a >= 1 /\ m \in Nat /\ m >= 1 /\ a + m <= l /\ buffer[a] = "v"
      BY <2>3, <2>4
    <3>2. c \in Int /\ a \in Int /\ a <= c /\ c <= l /\ 1 \in 1 .. c - a + 1 /\ a + 1 - 1 = a
      <4>1. l \in Nat
        BY <2>3
      <4>2. c = a + m - 1 /\ a \in Nat /\ a >= 1 /\ m \in Nat /\ m >= 1 /\ a + m <= l
        BY <3>1
      <4> QED
        BY <4>1, <4>2
    <3>3. Chars(t) = SubSeq(buffer, a, c)
      BY <3>1, Zenon DEF Chars
    <3>4. PICK s : s = SubSeq(buffer, a, c)
      OBVIOUS
    <3>5. s \in Seq(STRING) /\ Len(s) = c - a + 1
      <4>1. buffer \in Seq(STRING) /\ Len(buffer) = l
        BY <2>3
      <4>2. a \in Nat /\ a >= 1 /\ c \in Nat
        BY <3>1, <3>2
      <4>3. Len(s) = c - a + 1
        BY <3>2, <3>4, <4>1, <4>2
      <4>4. s \in Seq(STRING)
        BY <3>2, <3>4, <4>1, <4>2
      <4> QED
        BY <4>3, <4>4
    <3>6. s[1] = buffer[a]
      BY <2>3, <3>2, <3>4, <3>5
    <3>7. m = 1 => s = <<"v">>
      <4>1. m = 1 => Len(s) = 1
        BY <3>1, <3>2, <3>5
      <4>2. s[1] = "v"
        BY <3>1, <3>6
      <4> QED
        BY <3>5, <4>1, <4>2, OneLetter
    <3> QED
      BY <3>1, <3>3, <3>4, <3>6, <3>7
  <2>5. \A h \in Headers : Begins(Header(buffer, h)) /\ (h \notin {"From", "To", "Via"} => Header(buffer, h).len = 1)
    BY <1>1, <2>1, <2>3, WellFormedHeaders
  <2>6. ASSUME NEW t, IsValue(buffer, t)
        PROVE  Begins(t) /\ t.len = 1
    <3>1. t.at \in 1 .. l - 1 /\ t.len = 1 /\ buffer[t.at] = "v"
      BY <2>3, <2>6 DEF IsValue
    <3>2. PICK a : a = t.at /\ a \in 1 .. l - 1
      BY <3>1
    <3>3. a \in Nat \ {0} /\ a + 1 <= l
      BY <2>3, <3>2
    <3> QED
      BY <3>1, <3>2, <3>3
  <2>7. /\ IsValue(buffer, message.from_tag) /\ IsValue(buffer, message.branch)
        /\ Value(buffer, "To") = {WithTag("To")} => IsValue(buffer, message.to_tag)
    BY <1>1, <2>1, <2>2, WellFormedParameters
  <2> HIDE DEF Begins
  <2>8. /\ Begins(message.from_tag) /\ Begins(message.branch) /\ Begins(message.call_id)
        /\ Begins(message.from) /\ Begins(message.to) /\ Begins(message.via) /\ Begins(message.cseq)
        /\ message.from_tag.len = 1 /\ message.branch.len = 1
        /\ message.call_id.len = 1 /\ message.cseq.len = 1
    <3>1. "Call-ID" \in Headers /\ "CSeq" \in Headers /\ "From" \in Headers /\ "To" \in Headers /\ "Via" \in Headers
      BY DEF Headers, NameLen
    <3> QED
      BY <2>2, <2>5, <2>6, <2>7, <3>1
  <2>9. Value(buffer, "To") = {WithTag("To")} => Chars(message.to_tag) = <<"v">>
    BY <2>4, <2>6, <2>7
  <2> QED
    BY <2>1, <2>4, <2>8, <2>9
<1>2. MInv => WellFormedIsParsed
  BY <1>1 DEF WellFormedIsParsed
<1> QED
  BY <1>2, MInvInvariant, PTL

=============================================================================
