------------------------- MODULE DetokenizerProofs -------------------------
(***************************************************************************)
(* The streamed text is the text: for every vocabulary and every stream,   *)
(* however its tokens cut characters and whatever bytes they are made of.  *)
(***************************************************************************)
EXTENDS Detokenizer, DataLemmas

Bytes == {"a", "x", "w", "c", "f", "u"}
Chars == {"none", "a", "x", "w", "?"}

(* The states of the decoder, and the one it starts in.                     *)
Decoders == [text : Seq(Chars), first : {"none", "x", "w"}, wants : {0, 1, 2}]
Start == [text |-> <<>>, first |-> "none", wants |-> 0]

(* The decoder after some bytes.                                            *)
DecoderAfter(bytes) == FoldLeft(DecodeByte, Start, bytes)

-----------------------------------------------------------------------------
(* One byte.                                                                *)

LEMMA BrokenFacts ==
    ASSUME NEW d \in Decoders
    PROVE  Broken(d) \in Seq(Chars)
PROOF BY DEF Broken, Decoders, Chars

(* The three things a byte does.                                            *)
LEMMA ByteCases ==
    ASSUME NEW d \in Decoders, NEW b \in Bytes
    PROVE  LET e == DecodeByte(d, b)
           IN  \/ b = "c" /\ d.wants = 2 /\ e = [d EXCEPT !.wants = 1]
               \/ b = "c" /\ d.wants = 1 /\ e = [d EXCEPT !.text = Append(d.text, d.first), !.wants = 0]
               \/ b = "x" /\ e = [text |-> Broken(d), first |-> "x", wants |-> 1]
               \/ b = "w" /\ e = [text |-> Broken(d), first |-> "w", wants |-> 2]
               \/ /\ b = "a"
                  /\ e = [d EXCEPT !.text = Append(Broken(d), "a"), !.wants = 0]
               \/ /\ b \in {"f", "u"} \/ (b = "c" /\ d.wants = 0)
                  /\ e = [d EXCEPT !.text = Append(Broken(d), "?"), !.wants = 0]
PROOF
<1>1. DOMAIN Longer = {"x", "w"} /\ Longer["x"] = 1 /\ Longer["w"] = 2
  BY DEF Longer
<1>2. d.wants \in {0, 1, 2}
  BY DEF Decoders
<1>3. CASE b = "c"
  BY <1>1, <1>2, <1>3 DEF DecodeByte
<1>4. CASE b \in {"x", "w"}
  BY <1>1, <1>4 DEF DecodeByte
<1>5. CASE b = "a"
  BY <1>1, <1>5 DEF DecodeByte
<1>6. CASE b \in {"f", "u"}
  <2>1. b # "c" /\ b # "a" /\ b \notin DOMAIN Longer
    BY <1>1, <1>6
  <2>2. DecodeByte(d, b) = [d EXCEPT !.text = Append(Broken(d), "?"), !.wants = 0]
    BY <2>1 DEF DecodeByte
  <2> QED BY <1>6, <2>2
<1> QED BY <1>3, <1>4, <1>5, <1>6 DEF Bytes

(* The decoder stays a decoder, and a byte leaves a trace: text, or a       *)
(* character begun.                                                         *)
LEMMA ByteTyped ==
    ASSUME NEW d \in Decoders, NEW b \in Bytes
    PROVE  /\ DecodeByte(d, b) \in Decoders
           /\ DecodeByte(d, b).wants > 0 \/ DecodeByte(d, b).text # <<>>
PROOF
<1>1. Broken(d) \in Seq(Chars) /\ d.text \in Seq(Chars) /\ d.first \in {"none", "x", "w"}
  BY BrokenFacts DEF Decoders
<1>2. \A s \in Seq(Chars), c \in Chars : Append(s, c) \in Seq(Chars) /\ Append(s, c) # <<>>
  BY AppendProperties
<1>3. {"none", "x", "w"} \subseteq Chars /\ "a" \in Chars /\ "?" \in Chars
  BY DEF Chars
<1> DEFINE e == DecodeByte(d, b)
<1> HIDE DEF e
<1>4. CASE b = "c" /\ d.wants = 2 /\ e = [d EXCEPT !.wants = 1]
  BY <1>4 DEF Decoders, e
<1>5. CASE b = "c" /\ d.wants = 1 /\ e = [d EXCEPT !.text = Append(d.text, d.first), !.wants = 0]
  <2>1. PICK v \in Seq(Chars) : v = Append(d.text, d.first) /\ v # <<>>
    BY <1>1, <1>2, <1>3
  <2>2. e = [d EXCEPT !.text = v, !.wants = 0]
    BY <1>5, <2>1
  <2>3. e \in Decoders /\ e.text = v
    <3>1. [d EXCEPT !.text = v] \in Decoders
      BY DEF Decoders
    <3> QED BY <2>2, <3>1 DEF Decoders
  <2> QED BY <2>1, <2>3 DEF e
<1>6. CASE b = "x" /\ e = [text |-> Broken(d), first |-> "x", wants |-> 1]
  BY <1>1, <1>6 DEF Decoders, e
<1>7. CASE b = "w" /\ e = [text |-> Broken(d), first |-> "w", wants |-> 2]
  BY <1>1, <1>7 DEF Decoders, e
<1>8. CASE \E c \in {"a", "?"} : e = [d EXCEPT !.text = Append(Broken(d), c), !.wants = 0]
  <2>1. PICK c \in {"a", "?"} : e = [d EXCEPT !.text = Append(Broken(d), c), !.wants = 0]
    BY <1>8
  <2>2. PICK v \in Seq(Chars) : v = Append(Broken(d), c) /\ v # <<>>
    BY <1>1, <1>2, <1>3
  <2>3. e = [d EXCEPT !.text = v, !.wants = 0]
    BY <2>1, <2>2
  <2>4. e \in Decoders /\ e.text = v
    <3>1. [d EXCEPT !.text = v] \in Decoders
      BY DEF Decoders
    <3> QED BY <2>3, <3>1 DEF Decoders
  <2> QED BY <2>2, <2>4 DEF e
<1> QED BY <1>4, <1>5, <1>6, <1>7, <1>8, ByteCases DEF e

(* A decoder that has read u before, and is not inside a character from it, *)
(* goes on as one that has not.                                             *)
Behind(u, s, t) ==
    /\ s.text = u \o t.text /\ s.wants = t.wants
    /\ t.wants > 0 => s.first = t.first

LEMMA AppendBehind ==
    ASSUME NEW u \in Seq(Chars), NEW v \in Seq(Chars), NEW c \in Chars
    PROVE  Append(u \o v, c) = u \o Append(v, c)
PROOF
<1>1. <<c>> \in Seq(Chars) /\ u \o v \in Seq(Chars)
  OBVIOUS
<1>2. Append(u \o v, c) = (u \o v) \o <<c>>
  BY <1>1, AppendIsConcat
<1>3. Append(v, c) = v \o <<c>>
  BY AppendIsConcat
<1>4. (u \o v) \o <<c>> = u \o (v \o <<c>>)
  BY <1>1, ConcatAssociative
<1> QED BY <1>2, <1>3, <1>4

LEMMA BrokenBehind ==
    ASSUME NEW u \in Seq(Chars), NEW s \in Decoders, NEW t \in Decoders, Behind(u, s, t)
    PROVE  Broken(s) = u \o Broken(t)
PROOF
<1>1. t.text \in Seq(Chars) /\ "?" \in Chars
  BY DEF Decoders, Chars
<1>2. Append(u \o t.text, "?") = u \o Append(t.text, "?")
  BY <1>1, AppendBehind
<1> QED BY <1>2 DEF Broken, Behind

LEMMA ByteBehind ==
    ASSUME NEW u \in Seq(Chars), NEW s \in Decoders, NEW t \in Decoders, Behind(u, s, t),
           NEW b \in Bytes
    PROVE  Behind(u, DecodeByte(s, b), DecodeByte(t, b))
PROOF
<1>1. s.text = u \o t.text /\ s.wants = t.wants /\ (t.wants > 0 => s.first = t.first)
  BY DEF Behind
<1>2. Broken(s) = u \o Broken(t) /\ Broken(t) \in Seq(Chars)
  BY BrokenBehind, BrokenFacts
<1>3. \A v \in Seq(Chars), c \in Chars : Append(u \o v, c) = u \o Append(v, c)
  BY AppendBehind
<1>4. DOMAIN Longer = {"x", "w"} /\ t.wants \in {0, 1, 2} /\ t.text \in Seq(Chars)
      /\ t.first \in Chars /\ "a" \in Chars /\ "?" \in Chars
  BY DEF Longer, Decoders, Chars
<1>5. CASE b = "c" /\ t.wants = 2
  BY <1>1, <1>5 DEF DecodeByte, Behind, Decoders
<1>6. CASE b = "c" /\ t.wants = 1
  <2>1. Append(u \o t.text, t.first) = u \o Append(t.text, t.first)
    BY <1>3, <1>4
  <2>2. /\ DecodeByte(s, b) = [s EXCEPT !.text = Append(s.text, s.first), !.wants = 0]
        /\ DecodeByte(t, b) = [t EXCEPT !.text = Append(t.text, t.first), !.wants = 0]
    BY <1>1, <1>6 DEF DecodeByte
  <2>3. Append(s.text, s.first) = u \o Append(t.text, t.first)
    <3>1. s.first = t.first
      BY <1>1, <1>6
    <3> QED BY <1>1, <2>1, <3>1, Zenon
  <2> QED BY <2>2, <2>3, SMTT(30) DEF Behind, Decoders
<1>7. CASE b \in {"x", "w"}
  BY <1>1, <1>2, <1>4, <1>7 DEF DecodeByte, Behind, Decoders
<1>8. CASE b \in {"a", "f", "u"} \/ (b = "c" /\ t.wants = 0)
  <2>1. PICK c \in {"a", "?"} : c = IF b = "a" THEN "a" ELSE "?"
    OBVIOUS
  <2>2. Append(Broken(s), c) = u \o Append(Broken(t), c)
    BY <1>2, <1>3, <1>4
  <2>3. /\ DecodeByte(s, b) = [s EXCEPT !.text = Append(Broken(s), c), !.wants = 0]
        /\ DecodeByte(t, b) = [t EXCEPT !.text = Append(Broken(t), c), !.wants = 0]
    BY <1>1, <1>4, <1>8, <2>1 DEF DecodeByte
  <2> QED BY <2>2, <2>3, SMTT(30) DEF Behind, Decoders
<1>9. b = "c" => t.wants = 0 \/ t.wants = 1 \/ t.wants = 2
  BY <1>4
<1>10. b = "c" \/ b \in {"x", "w"} \/ b \in {"a", "f", "u"}
  BY DEF Bytes
<1>11. CASE b = "c"
  BY <1>5, <1>6, <1>8, <1>9, <1>11
<1> QED BY <1>7, <1>8, <1>10, <1>11

-----------------------------------------------------------------------------
(* All the bytes: the library's fold is the last state of the decoder that  *)
(* reads one byte after the other.                                          *)
Reading(bytes, d) ==
    /\ d[0] = Start
    /\ \A i \in 1..Len(bytes) : d[i] = DecodeByte(d[i - 1], bytes[i])

LEMMA StartTyped == Start \in Decoders
PROOF
<1>1. <<>> \in Seq(Chars)
  OBVIOUS
<1> QED BY <1>1 DEF Start, Decoders

LEMMA ReadingTyped ==
    ASSUME NEW bytes \in Seq(Bytes), NEW d, Reading(bytes, d)
    PROVE  \A i \in 0..Len(bytes) : d[i] \in Decoders
PROOF
<1>1. Len(bytes) \in Nat /\ \A i \in 1..Len(bytes) : bytes[i] \in Bytes
  OBVIOUS
<1>2. d[0] \in Decoders
  BY StartTyped DEF Reading
<1>3. \A i \in 1..Len(bytes) : d[i - 1] \in Decoders => d[i] \in Decoders
  BY <1>1, ByteTyped DEF Reading
<1> QED BY <1>1, <1>2, <1>3, RunTyped

LEMMA FoldReads ==
    ASSUME NEW bytes \in Seq(Bytes)
    PROVE  \E d : Reading(bytes, d) /\ DecoderAfter(bytes) = d[Len(bytes)]
PROOF
<1>1. PICK n \in Nat : n = Len(bytes) /\ DOMAIN bytes = 1..n
  OBVIOUS
<1>2. \A i \in 1..n : bytes[i] \in Bytes
  BY <1>1
<1> DEFINE g == [p \in (1..n) \X Decoders |-> DecodeByte(p[2], bytes[p[1]])]
<1>3. g \in [(1..n) \X Decoders -> Decoders]
  BY <1>2, ByteTyped
<1>4. \A i \in 1..n, e \in Decoders : g[<<i, e>>] = DecodeByte(e, bytes[i])
  OBVIOUS
<1> HIDE DEF g
<1>5. PICK it : IsFold(n, Decoders, Start, g, it)
  BY <1>3, StartTyped, FoldExists
<1>6. it = [s \in SUBSET (1..n) |->
               IF s = {} THEN Start ELSE DecodeByte(it[s \ {Max(s)}], bytes[Max(s)])]
  <2>1. ASSUME NEW s \in SUBSET (1..n), s # {}
        PROVE  it[s] = DecodeByte(it[s \ {Max(s)}], bytes[Max(s)])
    <3>1. Max(s) \in 1..n
      BY <2>1, MaxIn
    <3>2. it[s \ {Max(s)}] \in Decoders
      BY <1>5 DEF IsFold
    <3>3. it[s] = g[<<Max(s), it[s \ {Max(s)}]>>]
      BY <1>5, <2>1 DEF IsFold
    <3> QED BY <1>4, <3>1, <3>2, <3>3
  <2>2. it[{}] = Start
    BY <1>5 DEF IsFold
  <2>3. it = [s \in SUBSET (1..n) |-> it[s]]
    BY <1>5 DEF IsFold
  <2> QED BY <2>1, <2>2, <2>3
<1> DEFINE iter == CHOOSE f : f = [s \in SUBSET (1..n) |->
               IF s = {} THEN Start ELSE DecodeByte(f[s \ {Max(s)}], bytes[Max(s)])]
<1>7. iter = [s \in SUBSET (1..n) |->
                 IF s = {} THEN Start ELSE DecodeByte(iter[s \ {Max(s)}], bytes[Max(s)])]
  BY <1>6
<1>8. DecoderAfter(bytes) = iter[1..n]
  BY <1>1 DEF DecoderAfter, FoldLeft, MapThenFoldSet
<1> HIDE DEF iter
<1> DEFINE d == [k \in 0..n |-> iter[1..k]]
<1>9. d[0] = Start
  <2>1. 1..0 = {} /\ 0 \in 0..n
    OBVIOUS
  <2>2. iter[{}] = Start
    BY <1>7
  <2> QED BY <2>1, <2>2
<1>10. ASSUME NEW k \in 1..n PROVE d[k] = DecodeByte(d[k - 1], bytes[k])
  <2>1. Max(1..k) = k /\ (1..k) \ {k} = 1..(k - 1) /\ k - 1 \in 0..n /\ k \in 0..n
        /\ 1..k # {} /\ 1..k \in SUBSET (1..n)
    BY WithoutTop
  <2>2. iter[1..k] = DecodeByte(iter[(1..k) \ {k}], bytes[k])
    BY <1>7, <2>1
  <2> QED BY <2>1, <2>2
<1>11. d[n] = iter[1..n]
  OBVIOUS
<1> HIDE DEF d
<1> QED BY <1>1, <1>8, <1>9, <1>10, <1>11 DEF Reading

LEMMA ReadingUnique ==
    ASSUME NEW bytes \in Seq(Bytes), NEW d, Reading(bytes, d)
    PROVE  DecoderAfter(bytes) = d[Len(bytes)] /\ DecoderAfter(bytes) \in Decoders
PROOF
<1>1. PICK n \in Nat : n = Len(bytes)
  OBVIOUS
<1>2. PICK e : Reading(bytes, e) /\ DecoderAfter(bytes) = e[n]
  BY <1>1, FoldReads
<1> DEFINE S == {k \in 0..n : d[k] = e[k]}
<1>3. 0 \in S
  BY <1>2 DEF Reading
<1>4. ASSUME NEW k \in 0..(n - 1), k \in S PROVE k + 1 \in S
  <2>1. k + 1 \in 1..n /\ (k + 1) - 1 = k /\ k + 1 \in 0..n
    OBVIOUS
  <2>2. d[k + 1] = DecodeByte(d[k], bytes[k + 1]) /\ e[k + 1] = DecodeByte(e[k], bytes[k + 1])
    BY <1>1, <1>2, <2>1 DEF Reading
  <2> QED BY <1>4, <2>1, <2>2
<1> HIDE DEF S
<1>5. \A k \in 0..n : k \in S
  BY <1>3, <1>4, UpTo
<1>6. d[n] = e[n]
  BY <1>5 DEF S
<1>7. d[n] \in Decoders
  BY <1>1, ReadingTyped
<1> QED BY <1>1, <1>2, <1>6, <1>7

(* Where no character is open, the bytes before and the bytes behind are    *)
(* read as if there were no others.                                         *)
LEMMA ReadsApart ==
    ASSUME NEW p \in Seq(Bytes), NEW q \in Seq(Bytes), DecoderAfter(p).wants = 0
    PROVE  Behind(DecoderAfter(p).text, DecoderAfter(p \o q), DecoderAfter(q))
PROOF
<1>1. PICK m \in Nat, n \in Nat : m = Len(p) /\ n = Len(q)
  <2>1. Len(p) \in Nat /\ Len(q) \in Nat
    OBVIOUS
  <2> QED BY <2>1
<1>2. PICK r \in Seq(Bytes) : r = p \o q
  BY ConcatProperties
<1>3. /\ Len(r) = m + n
      /\ \A i \in 1..m : r[i] = p[i]
      /\ \A i \in 1..n : r[m + i] = q[i] /\ q[i] \in Bytes
  BY <1>1, <1>2
<1>4. PICK d : Reading(r, d)
  BY FoldReads
<1>5. PICK e : Reading(q, e)
  BY FoldReads
<1>6. Reading(p, d)
  <2>1. \A i \in 1..m : i \in 1..(m + n)
    OBVIOUS
  <2> QED BY <1>1, <1>3, <1>4, <2>1 DEF Reading
<1>7. DecoderAfter(p) = d[m] /\ DecoderAfter(r) = d[m + n] /\ DecoderAfter(q) = e[n]
      /\ d[m] \in Decoders
  BY <1>1, <1>3, <1>4, <1>5, <1>6, ReadingUnique
<1>8. (\A i \in 0..(m + n) : d[i] \in Decoders) /\ \A i \in 0..n : e[i] \in Decoders
  BY <1>1, <1>3, <1>4, <1>5, ReadingTyped
<1>9. PICK u \in Seq(Chars) : u = d[m].text /\ d[m].wants = 0
  BY <1>7 DEF Decoders
<1> DEFINE S == {k \in 0..n : Behind(u, d[m + k], e[k])}
<1>10. 0 \in S
  <2>1. m + 0 = m /\ e[0] = Start /\ Start.text = <<>> /\ Start.wants = 0 /\ ~(0 > 0)
    BY <1>5 DEF Reading, Start
  <2>2. u \o <<>> = u
    BY ConcatEmptySeq
  <2>3. Behind(u, d[m], e[0])
    BY <1>9, <2>1, <2>2 DEF Behind
  <2> QED BY <2>1, <2>3
<1>11. ASSUME NEW k \in 0..(n - 1), k \in S PROVE k + 1 \in S
  <2>1. k + 1 \in 1..n /\ m + (k + 1) \in 1..(m + n) /\ (m + (k + 1)) - 1 = m + k
        /\ (k + 1) - 1 = k /\ k \in 0..n /\ k + 1 \in 0..n /\ m + k \in 0..(m + n)
    OBVIOUS
  <2>2. /\ d[m + (k + 1)] = DecodeByte(d[m + k], q[k + 1])
        /\ e[k + 1] = DecodeByte(e[k], q[k + 1])
    BY <1>1, <1>3, <1>4, <1>5, <2>1 DEF Reading
  <2>3. d[m + k] \in Decoders /\ e[k] \in Decoders /\ q[k + 1] \in Bytes
    BY <1>3, <1>8, <2>1
  <2>4. Behind(u, DecodeByte(d[m + k], q[k + 1]), DecodeByte(e[k], q[k + 1]))
    BY <1>11, <2>3, ByteBehind
  <2> QED BY <2>1, <2>2, <2>4
<1> HIDE DEF S
<1>12. \A k \in 0..n : k \in S
  BY <1>10, <1>11, UpTo
<1>13. Behind(u, d[m + n], e[n])
  BY <1>12 DEF S
<1> QED BY <1>2, <1>7, <1>9, <1>13

(* Bytes leave a trace.                                                     *)
LEMMA ReadsSomething ==
    ASSUME NEW q \in Seq(Bytes)
    PROVE  /\ DecoderAfter(q) \in Decoders
           /\ q # <<>> => DecoderAfter(q).wants > 0 \/ DecoderAfter(q).text # <<>>
PROOF
<1>1. PICK n \in Nat : n = Len(q) /\ (q # <<>> => n > 0)
  OBVIOUS
<1>2. PICK d : Reading(q, d)
  BY FoldReads
<1>3. DecoderAfter(q) = d[n] /\ DecoderAfter(q) \in Decoders
  BY <1>1, <1>2, ReadingUnique
<1>4. ASSUME n > 0 PROVE d[n].wants > 0 \/ d[n].text # <<>>
  <2>1. n \in 1..n /\ n - 1 \in 0..n /\ q[n] \in Bytes
    BY <1>1, <1>4
  <2>2. d[n] = DecodeByte(d[n - 1], q[n]) /\ d[n - 1] \in Decoders
    BY <1>1, <1>2, <2>1, ReadingTyped DEF Reading
  <2> QED BY <2>1, <2>2, ByteTyped
<1> QED BY <1>1, <1>3, <1>4

-----------------------------------------------------------------------------
(* Tokens.                                                                  *)

(* The decoder after some tokens.                                           *)
At(tokens) == DecoderAfter(FlattenSeq(tokens))

LEMMA DecodeIs ==
    ASSUME NEW tokens
    PROVE  Decode(tokens) = Broken(At(tokens))
PROOF BY DEF Decode, At, DecoderAfter, Start

LEMMA TokensAreBytes ==
    ASSUME DetokenizerAssumption, NEW q \in Seq(Tokens)
    PROVE  q \in Seq(Seq(Bytes)) /\ \A i \in 1..Len(q) : q[i] # <<>>
PROOF
<1>1. Tokens \subseteq Seq(Bytes) \ {<<>>}
  BY DEF DetokenizerAssumption, Bytes
<1>2. \A i \in 1..Len(q) : q[i] \in Tokens
  OBVIOUS
<1>3. q \in Seq(Seq(Bytes))
  BY <1>1, SeqMonotonic
<1> QED BY <1>1, <1>2, <1>3

(* The text of tokens: some for each list of them, and where it does not    *)
(* end in U+FFFD no character is open.                                      *)
LEMMA TextOfTokens ==
    ASSUME DetokenizerAssumption, NEW q \in Seq(Tokens)
    PROVE  /\ At(q) \in Decoders /\ Decode(q) \in Seq(Chars)
           /\ q # <<>> => Decode(q) # <<>>
           /\ q # <<>> /\ Last(Decode(q)) # "?" => At(q).wants = 0
           /\ At(q).wants = 0 => Decode(q) = At(q).text
PROOF
<1>1. q \in Seq(Seq(Bytes)) /\ \A i \in 1..Len(q) : q[i] # <<>>
  BY TokensAreBytes
<1>2. FlattenSeq(q) \in Seq(Bytes)
  BY <1>1, FlattenConcat
<1>3. ASSUME q # <<>> PROVE FlattenSeq(q) # <<>>
  <2>1. PICK n : n = Len(q) /\ n \in 1..Len(q)
    BY <1>3
  <2>2. PICK p, t : p = SubSeq(q, 1, n - 1) /\ t = q[n]
    OBVIOUS
  <2>3. p \in Seq(Seq(Bytes)) /\ t \in Seq(Bytes) /\ t # <<>>
    BY <1>1, <2>1, <2>2
  <2>4. q = p \o <<t>>
    <3>1. SubSeq(q, 1, n) = SubSeq(q, 1, n - 1) \o <<q[n]>>
      BY <1>1, <2>1, SubSeqRecursiveSecond
    <3>2. SubSeq(q, 1, n) = q
      BY <1>1, <2>1, SubSeqFull
    <3> QED BY <2>2, <3>1, <3>2
  <2>5. <<t>> \in Seq(Seq(Bytes))
    BY <2>3
  <2>6. PICK x \in Seq(Bytes) : x = FlattenSeq(p) /\ FlattenSeq(p \o <<t>>) = x \o t
    <3>1. FlattenSeq(p) \in Seq(Bytes)
          /\ FlattenSeq(p \o <<t>>) = FlattenSeq(p) \o FlattenSeq(<<t>>)
      BY <2>3, <2>5, FlattenConcat
    <3>2. FlattenSeq(<<t>>) = t
      BY <2>3, FlattenOne
    <3> QED BY <3>1, <3>2
  <2>7. x \o t # <<>>
    BY <2>3
  <2> QED BY <2>4, <2>6, <2>7
<1>4. PICK d \in Decoders : d = At(q) /\ (q # <<>> => d.wants > 0 \/ d.text # <<>>)
  BY <1>2, <1>3, ReadsSomething DEF At
<1>5. Decode(q) = Broken(d) /\ d.text \in Seq(Chars) /\ d.wants \in Nat
  BY <1>4, DecodeIs DEF Decoders
<1>6. PICK v \in Seq(Chars) : v = Append(d.text, "?") /\ v # <<>> /\ Last(v) = "?"
  <2>1. "?" \in Chars
    BY DEF Chars
  <2>2. Append(d.text, "?") \in Seq(Chars) /\ Append(d.text, "?") # <<>>
        /\ Len(Append(d.text, "?")) = Len(d.text) + 1
        /\ Append(d.text, "?")[Len(d.text) + 1] = "?"
    BY <1>5, <2>1, AppendProperties
  <2> QED BY <2>2 DEF Last
<1>7. CASE d.wants > 0
  <2>1. Decode(q) = v
    BY <1>5, <1>6, <1>7 DEF Broken
  <2> QED BY <1>4, <1>6, <1>7, <2>1
<1>8. CASE d.wants = 0
  <2>1. Decode(q) = d.text
    BY <1>5, <1>8 DEF Broken
  <2> QED BY <1>4, <1>5, <1>8, <2>1
<1> QED BY <1>5, <1>7, <1>8

(* Where no character is open, the text of tokens is the text of those      *)
(* before and the text of those behind.                                     *)
LEMMA DecodesApart ==
    ASSUME DetokenizerAssumption, NEW p \in Seq(Tokens), NEW q \in Seq(Tokens),
           At(p).wants = 0
    PROVE  /\ Decode(p \o q) = Decode(p) \o Decode(q)
           /\ At(p \o q).wants = At(q).wants
PROOF
<1>1. PICK a \in Seq(Seq(Bytes)), b \in Seq(Seq(Bytes)) : a = p /\ b = q
  BY TokensAreBytes
<1>2. PICK x \in Seq(Bytes), y \in Seq(Bytes) : x = FlattenSeq(p) /\ y = FlattenSeq(q)
  BY <1>1, FlattenConcat
<1>3. FlattenSeq(p \o q) = x \o y
  BY <1>1, <1>2, FlattenConcat
<1>4. PICK u \in Seq(Chars) : u = At(p).text /\ Decode(p) = u
  BY TextOfTokens
<1>5. Behind(u, At(p \o q), At(q))
  BY <1>2, <1>3, <1>4, ReadsApart DEF At
<1>6. At(q) \in Decoders /\ At(p \o q) \in Decoders
  BY TextOfTokens, p \o q \in Seq(Tokens)
<1>7. Broken(At(p \o q)) = u \o Broken(At(q))
  BY <1>5, <1>6, BrokenBehind
<1> QED BY <1>4, <1>5, <1>7, DecodeIs DEF Behind

-----------------------------------------------------------------------------
(* The stream.                                                              *)

LEMMA EndOfConcat ==
    ASSUME NEW A, NEW x \in Seq(A), NEW y \in Seq(A)
    PROVE  /\ After(x \o y, Len(x)) = y
           /\ y # <<>> => Last(x \o y) = Last(y) /\ Len(x \o y) > Len(x)
           /\ IsPrefix(x, x \o y)
PROOF
<1>1. PICK m \in Nat, n \in Nat : m = Len(x) /\ n = Len(y)
  BY LenProperties
<1>2. PICK z \in Seq(A) : z = x \o y
  BY ConcatProperties
<1>3. /\ Len(z) = m + n /\ (\A i \in 1..m : z[i] = x[i]) /\ \A i \in 1..n : z[m + i] = y[i]
  BY <1>1, <1>2
<1>4. After(z, m) = y
  <2>1. SubSeq(z, m + 1, m + n) \in Seq(A) /\ Len(SubSeq(z, m + 1, m + n)) = n
        /\ \A i \in 1..n : SubSeq(z, m + 1, m + n)[i] = z[m + i]
    BY <1>3
  <2>2. SubSeq(z, m + 1, m + n) = y
    BY <1>1, <1>3, <2>1, SeqEqual, ZenonT(30)
  <2> QED BY <1>3, <2>2 DEF After
<1>5. y # <<>> => Last(z) = Last(y) /\ Len(z) > m
  <2>1. y # <<>> => n \in 1..n
    BY <1>1
  <2> QED BY <1>1, <1>3, <2>1 DEF Last
<1>6. IsPrefix(x, z)
  <2>1. \A i \in 1..m : i \in 1..(m + n)
    OBVIOUS
  <2> QED BY <1>1, <1>3, <2>1 DEF IsPrefix
<1> QED BY <1>1, <1>2, <1>4, <1>5, <1>6

LEMMA Cut ==
    ASSUME NEW A, NEW w \in Seq(A), NEW m \in Nat, NEW r \in Nat, NEW n \in Nat,
           1 <= m, m <= r + 1, r <= n, n <= Len(w)
    PROVE  /\ SubSeq(w, m, r) \o SubSeq(w, r + 1, n) = SubSeq(w, m, n)
           /\ SubSeq(w, m, r) \in Seq(A) /\ Len(SubSeq(w, m, r)) = r + 1 - m
PROOF
<1>1. Len(w) \in Nat /\ \A i \in 1..Len(w) : w[i] \in A
  BY LenProperties
<1>2. m \in 1..(Len(w) + 1) /\ r \in (m - 1)..Len(w) /\ n \in r..Len(w)
  BY <1>1
<1>3. SubSeq(w, m, r) \o SubSeq(w, r + 1, n) = SubSeq(w, m, n)
  BY <1>2, ConcatAdjacentSubSeq
<1>4. \A i \in m..r : w[i] \in A
  BY <1>1
<1>5. m \in Int /\ r \in Int
  OBVIOUS
<1>6. SubSeq(w, m, r) \in Seq(A)
      /\ Len(SubSeq(w, m, r)) = IF m <= r THEN r - m + 1 ELSE 0
  BY <1>4, <1>5, SubSeqProperties
<1> QED BY <1>3, <1>6

(* A stream cut at p and at r, where no character is open: the new text of  *)
(* the window from p on, without the text up to r, is what the text has     *)
(* behind r; if the window does not end in U+FFFD no character is open at   *)
(* the end; and a text that does not end in U+FFFD and has a token behind r *)
(* is seen in the window.                                                   *)
LEMMA WindowShows ==
    ASSUME DetokenizerAssumption, NEW w \in Seq(Tokens),
           NEW r \in 0..Len(w), NEW p \in 0..r,
           At(SubSeq(w, 1, p)).wants = 0, At(SubSeq(w, 1, r)).wants = 0
    PROVE  LET old == Decode(SubSeq(w, p + 1, r))
               new == Decode(SubSeq(w, p + 1, Len(w)))
           IN  /\ Decode(SubSeq(w, 1, r)) \o After(new, Len(old)) = Decode(w)
               /\ IsPrefix(Decode(SubSeq(w, 1, r)), Decode(w))
               /\ r < Len(w) /\ Last(new) # "?" => At(w).wants = 0
               /\ r < Len(w) /\ Last(Decode(w)) # "?" => Complete(new, old)
PROOF
<1>1. PICK n \in Nat : n = Len(w) /\ r \in 0..n /\ p \in 0..n
  BY LenProperties
<1>2. PICK a, b, c : a = SubSeq(w, 1, p) /\ b = SubSeq(w, p + 1, r) /\ c = SubSeq(w, r + 1, n)
  OBVIOUS
<1>0. /\ p \in Nat /\ r \in Nat /\ 1 <= p + 1 /\ p + 1 <= r + 1 /\ r <= n /\ n <= Len(w)
      /\ p + 1 \in Nat /\ r + 1 \in Nat /\ 1 <= r + 1 /\ r + 1 <= n + 1 /\ n <= n
      /\ 1 \in Nat /\ 1 <= 1 /\ 1 <= p + 1 /\ 1 <= r + 1 /\ p <= r /\ p <= n
  BY <1>1
<1>3. a \in Seq(Tokens) /\ b \in Seq(Tokens) /\ c \in Seq(Tokens)
      /\ (r < n => c # <<>>)
  <2>1. SubSeq(w, 1, p) \in Seq(Tokens)
    BY <1>0, Cut
  <2>2. SubSeq(w, p + 1, r) \in Seq(Tokens)
    BY <1>0, Cut
  <2>3. SubSeq(w, r + 1, n) \in Seq(Tokens) /\ Len(SubSeq(w, r + 1, n)) = n + 1 - (r + 1)
    BY <1>0, Cut
  <2>4. r < n => Len(c) # 0
    BY <1>0, <1>2, <2>3
  <2> QED BY <1>2, <2>1, <2>2, <2>3, <2>4
<1>4. a \o b = SubSeq(w, 1, r)
  <2>1. SubSeq(w, 1, p) \o SubSeq(w, p + 1, r) = SubSeq(w, 1, r)
    BY <1>0, Cut
  <2> QED BY <1>2, <2>1
<1>5. b \o c = SubSeq(w, p + 1, n)
  <2>1. SubSeq(w, p + 1, r) \o SubSeq(w, r + 1, n) = SubSeq(w, p + 1, n)
    BY <1>0, Cut
  <2> QED BY <1>2, <2>1
<1>6. a \o (b \o c) = w /\ (a \o b) \o c = w
  <2>1. SubSeq(w, 1, p) \o SubSeq(w, p + 1, n) = SubSeq(w, 1, n)
    BY <1>0, Cut
  <2>2. SubSeq(w, 1, r) \o SubSeq(w, r + 1, n) = SubSeq(w, 1, n)
    BY <1>0, Cut
  <2>3. SubSeq(w, 1, n) = w
    BY <1>1, SubSeqFull
  <2>4. a \o (b \o c) = w
    BY <1>2, <1>5, <2>1, <2>3
  <2>5. (a \o b) \o c = w
    BY <1>2, <1>4, <2>2, <2>3
  <2> QED BY <2>4, <2>5
<1>7. PICK ab \in Seq(Tokens), bc \in Seq(Tokens) : ab = a \o b /\ bc = b \o c
  BY <1>3, ConcatProperties
<1>8. At(a).wants = 0 /\ At(ab).wants = 0 /\ At(b).wants = 0
  <2>1. At(a).wants = 0 /\ At(ab).wants = 0
    BY <1>2, <1>4, <1>7
  <2>2. At(a \o b).wants = At(b).wants
    BY <1>3, <2>1, DecodesApart
  <2> QED BY <1>7, <2>1, <2>2
<1>9. PICK A \in Seq(Chars), B \in Seq(Chars), C \in Seq(Chars) :
         /\ A = Decode(a) /\ B = Decode(b) /\ C = Decode(c)
         /\ r < n => C # <<>>
  BY <1>3, TextOfTokens
<1>10. /\ Decode(ab) = A \o B /\ Decode(bc) = B \o C /\ Decode(w) = A \o (B \o C)
       /\ Decode(w) = (A \o B) \o C /\ At(w).wants = At(bc).wants
  <2>1. Decode(a \o b) = Decode(a) \o Decode(b)
    BY <1>3, <1>8, DecodesApart
  <2>2. Decode(b \o c) = Decode(b) \o Decode(c)
    BY <1>3, <1>8, DecodesApart
  <2>3. Decode(a \o bc) = Decode(a) \o Decode(bc) /\ At(a \o bc).wants = At(bc).wants
    BY <1>3, <1>7, <1>8, DecodesApart
  <2>4. Decode(ab \o c) = Decode(ab) \o Decode(c)
    BY <1>3, <1>7, <1>8, DecodesApart
  <2> QED BY <1>6, <1>7, <1>9, <2>1, <2>2, <2>3, <2>4
<1>11. PICK AB \in Seq(Chars), BC \in Seq(Chars) : AB = A \o B /\ BC = B \o C
  BY ConcatProperties
<1>12. After(BC, Len(B)) = C
  BY <1>11, EndOfConcat
<1>13. AB \o After(BC, Len(B)) = Decode(w)
  BY <1>10, <1>11, <1>12
<1>14. IsPrefix(AB, Decode(w))
  BY <1>10, <1>11, EndOfConcat, ZenonT(30)
<1>15. r < n /\ Last(BC) # "?" => At(w).wants = 0
  <2>1. r < n => bc # <<>>
    BY <1>3, <1>7, ConcatEqualIffEmpty
  <2> QED BY <1>7, <1>10, <1>11, <2>1, TextOfTokens
<1>16. r < n /\ Last(Decode(w)) # "?" => Complete(BC, B)
  <2>1. r < n => Last(BC) = Last(C) /\ Len(BC) > Len(B)
    BY <1>9, <1>11, EndOfConcat
  <2>2. r < n => Last(AB \o C) = Last(C)
    BY <1>9, <1>11, EndOfConcat, ZenonT(30)
  <2> QED BY <1>10, <1>11, <2>1, <2>2 DEF Complete
<1>17. AB = Decode(SubSeq(w, 1, r)) /\ B = Decode(SubSeq(w, p + 1, r))
       /\ BC = Decode(SubSeq(w, p + 1, Len(w)))
  BY <1>1, <1>2, <1>4, <1>5, <1>7, <1>9, <1>10, <1>11
<1> QED BY <1>1, <1>13, <1>14, <1>15, <1>16, <1>17

(* The inductive invariant: prefix and read are places of the stream where  *)
(* no character is open, what has left is the text up to read, and a text   *)
(* that ends in a whole character has been read to the end.                 *)
DetokInv ==
    /\ ids \in Seq(Tokens) /\ read \in 0..Len(ids) /\ prefix \in 0..read
    /\ ~flushed => At(SubSeq(ids, 1, prefix)).wants = 0 /\ At(SubSeq(ids, 1, read)).wants = 0
    /\ flushed => read = Len(ids)
    /\ sent = Decode(SubSeq(ids, 1, read))
    /\ ids # <<>> /\ Last(Decode(ids)) # "?" => read = Len(ids)
    /\ IsPrefix(sent, Decode(ids))

LEMMA DetokInitInv ==
    ASSUME DetokenizerAssumption, DetokInit
    PROVE  DetokInv
PROOF
<1>1. ids = <<>> /\ prefix = 0 /\ read = 0 /\ sent = <<>> /\ flushed = FALSE
  BY DEF DetokInit
<1>2. ids \in Seq(Tokens) /\ Len(ids) = 0 /\ SubSeq(ids, 1, 0) = <<>>
  BY <1>1, SubSeqEmpty
<1>3. FlattenSeq(<<>>) = <<>> /\ <<>> \in Seq(Bytes) /\ Len(<<>>) = 0
  <2>1. <<>> \in Seq(Bytes) /\ Len(<<>>) = 0
    OBVIOUS
  <2>2. FlattenSeq(<<>>) = <<>>
    BY <2>1, FlattenOne
  <2> QED BY <2>1, <2>2
<1>4. At(<<>>) = Start
  <2>1. PICK d : Reading(<<>>, d)
    BY <1>3, FoldReads
  <2>2. DecoderAfter(<<>>) = d[Len(<<>>)]
    BY <1>3, <2>1, ReadingUnique
  <2> QED BY <1>3, <2>1, <2>2 DEF Reading, At
<1>5. Decode(<<>>) = <<>> /\ At(<<>>).wants = 0
  BY <1>4, DecodeIs DEF Start, Broken
<1>6. IsPrefix(<<>>, <<>>)
  BY DEF IsPrefix
<1>7. read \in 0..Len(ids) /\ prefix \in 0..read
  BY <1>1, <1>2
<1> QED BY <1>1, <1>2, <1>5, <1>6, <1>7 DEF DetokInv

(* A token more: the places up to the end so far are where they were.       *)
LEMMA PushInv ==
    ASSUME DetokenizerAssumption, DetokInv, NEW t \in Tokens, Push(t)
    PROVE  DetokInv'
PROOF
<1>1. PICK w \in Seq(Tokens) : w = ids' /\ w = Append(ids, t) /\ Len(w) = Len(ids) + 1
  BY AppendProperties DEF Push, DetokInv
<1>2. ids \in Seq(Tokens) /\ Len(ids) \in Nat /\ read \in 0..Len(ids) /\ prefix \in 0..read
  BY DEF DetokInv
<1>3. /\ SubSeq(w, 1, prefix) = SubSeq(ids, 1, prefix)
      /\ SubSeq(w, 1, read) = SubSeq(ids, 1, read)
      /\ SubSeq(w, 1, Len(w)) = w
  <2>1. \A i \in 1..Len(ids) : w[i] = ids[i]
    BY <1>1, <1>2
  <2>2. ASSUME NEW k \in 0..Len(ids) PROVE SubSeq(w, 1, k) = SubSeq(ids, 1, k)
    BY <1>1, <1>2, <2>1
  <2>3. prefix \in 0..Len(ids)
    BY <1>2
  <2> QED BY <1>1, <1>2, <2>2, <2>3, SubSeqFull
<1>4. /\ ~flushed /\ ~flushed'
      /\ At(SubSeq(w, 1, prefix)).wants = 0 /\ At(SubSeq(w, 1, read)).wants = 0
      /\ sent = Decode(SubSeq(w, 1, read))
  BY <1>3 DEF DetokInv, Push
<1>5. PICK old, new : /\ old = Decode(SubSeq(w, prefix + 1, read))
                      /\ new = Decode(SubSeq(w, prefix + 1, Len(w)))
  OBVIOUS
<1>6. /\ read \in 0..Len(w) /\ prefix \in 0..read /\ read < Len(w)
      /\ Len(w) \in Nat /\ w # <<>> /\ Len(w) \in 0..Len(w) /\ read \in 0..Len(w)
  BY <1>1, <1>2
<1>7. /\ sent \o After(new, Len(old)) = Decode(w)
      /\ IsPrefix(sent, Decode(w))
      /\ Last(new) # "?" => At(w).wants = 0
      /\ Last(Decode(w)) # "?" => Complete(new, old)
  BY <1>4, <1>5, <1>6, WindowShows
<1>8. IF Complete(new, old)
      THEN prefix' = read /\ read' = Len(w) /\ sent' = sent \o After(new, Len(old))
      ELSE UNCHANGED <<prefix, read, sent>>
  BY <1>1, <1>5 DEF Push, Between
<1>9. CASE Complete(new, old)
  <2>1. prefix' = read /\ read' = Len(w) /\ sent' = Decode(w) /\ Last(new) # "?"
    BY <1>7, <1>8, <1>9 DEF Complete
  <2>2. Decode(w) \in Seq(Chars)
    BY TextOfTokens
  <2>3. IsPrefix(Decode(w), Decode(w))
    BY <2>2 DEF IsPrefix
  <2> QED BY <1>1, <1>3, <1>4, <1>6, <1>7, <2>1, <2>3 DEF DetokInv
<1>10. CASE ~Complete(new, old)
  BY <1>1, <1>4, <1>6, <1>7, <1>8, <1>10 DEF DetokInv
<1> QED BY <1>9, <1>10

LEMMA FlushInv ==
    ASSUME DetokenizerAssumption, DetokInv, Flush
    PROVE  DetokInv'
PROOF
<1>1. PICK w \in Seq(Tokens) : w = ids /\ w = ids'
  BY DEF Flush, DetokInv
<1>2. /\ Len(w) \in Nat /\ read \in 0..Len(w) /\ prefix \in 0..read /\ ~flushed
      /\ At(SubSeq(w, 1, prefix)).wants = 0 /\ At(SubSeq(w, 1, read)).wants = 0
      /\ sent = Decode(SubSeq(w, 1, read))
  BY <1>1 DEF DetokInv, Flush
<1>3. /\ flushed' = TRUE /\ prefix' = Len(w) /\ read' = Len(w)
      /\ sent' = sent \o After(Decode(SubSeq(w, prefix + 1, Len(w))),
                               Len(Decode(SubSeq(w, prefix + 1, read))))
  BY <1>1 DEF Flush, Between
<1>4. sent' = Decode(w)
  BY <1>2, <1>3, WindowShows
<1>5. SubSeq(w, 1, Len(w)) = w
  BY SubSeqFull
<1>6. Decode(w) \in Seq(Chars)
  BY TextOfTokens
<1>7. IsPrefix(Decode(w), Decode(w))
  BY <1>6 DEF IsPrefix
<1>8. read' \in 0..Len(ids') /\ prefix' \in 0..read' /\ ids' \in Seq(Tokens)
      /\ flushed' /\ read' = Len(ids')
  BY <1>1, <1>2, <1>3
<1>9. sent' = Decode(SubSeq(ids', 1, read')) /\ IsPrefix(sent', Decode(ids'))
  BY <1>1, <1>3, <1>4, <1>5, <1>7
<1> QED BY <1>8, <1>9 DEF DetokInv

LEMMA DetokInvStays == DetokSpec => []DetokInv
PROOF
<1>1. DetokInit => DetokInv
  BY DetokenizerAssumption, DetokInitInv
<1>2. DetokInv /\ [DetokNext]_detokVars => DetokInv'
  <2> SUFFICES ASSUME DetokInv, [DetokNext]_detokVars PROVE DetokInv'
    OBVIOUS
  <2>1. CASE Flush
    BY <2>1, DetokenizerAssumption, FlushInv
  <2>2. ASSUME NEW t \in Tokens, Push(t) PROVE DetokInv'
    BY <2>2, DetokenizerAssumption, PushInv
  <2>3. CASE UNCHANGED detokVars
    BY <2>3 DEF DetokInv, detokVars
  <2> QED BY <2>1, <2>2, <2>3 DEF DetokNext
<1> QED BY <1>1, <1>2, PTL DEF DetokSpec

(* What a client has received is the text of the tokens read so far, and    *)
(* after the flush of all of them, whatever the tokens are: push and flush  *)
(* of IncrementalDetokenizer neither lose, repeat nor alter a character.    *)
THEOREM StreamedTextIsRight == DetokSpec => []StreamedTextIsTheText
PROOF
<1>1. DetokInv => StreamedTextIsTheText
  BY DEF DetokInv, StreamedTextIsTheText
<1> QED BY <1>1, DetokInvStays, PTL

(* A text that ends in a whole character has left to the end, and nothing   *)
(* that left is taken back: it begins the text of all the tokens.           *)
THEOREM OnlyATailIsHeld == DetokSpec => []NothingHeldButATail
PROOF
<1>1. DetokInv => NothingHeldButATail
  BY DEF DetokInv, NothingHeldButATail
<1> QED BY <1>1, DetokInvStays, PTL
=============================================================================
