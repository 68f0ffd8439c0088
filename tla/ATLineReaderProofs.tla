------------------------ MODULE ATLineReaderProofs ------------------------
(***************************************************************************)
(* Proofs about ATLineReader: where readline()'s cursors are in s_ATBuffer *)
(* and which lines it returns, for every size of the buffer, every stream  *)
(* of the modem and every way in which read() cuts it.                     *)
(*                                                                         *)
(* The loops of readline have no bound of their own: each runs up to a     *)
(* byte it looks for.  What keeps them inside is the terminator in the     *)
(* last byte of the buffer, which no step overwrites (Terminated), and     *)
(* the one behind the data that was read last.  The lines are right        *)
(* because the data in the buffer mirror the last bytes that were read,    *)
(* right after the last line that was returned (Complete).                 *)
(***************************************************************************)
EXTENDS ATLineReader, TLAPS, WellFoundedInduction, SequenceTheorems

Indices == 0..MAX_AT_RESPONSE
Buffers == [Indices -> Bytes \cup {NUL}]

---------------------------------------------------------------------------
(* Scanning.                                                               *)

\* Every set of naturals that has an element has a least one.
LEMMA LeastElement ==
    ASSUME NEW T, T \subseteq Nat, NEW j \in T
    PROVE  \E m \in T : \A k \in T : m <= k
<1> DEFINE R == {ss \in Nat \X Nat : ss[1] < ss[2]}
<1>1. IsWellFoundedOn(R, Nat)
  BY NatLessThanWellFounded DEF OpToRel
<1>2. \A y, x \in Nat : y < x => <<y, x>> \in R
  OBVIOUS
<1> HIDE DEF R
<1>3. PICK m \in T : \A k \in T : ~(<<k, m>> \in R)
  BY <1>1, WFMin
<1>4. ASSUME NEW k \in T PROVE m <= k
  <2>1. k \in Nat /\ m \in Nat
    OBVIOUS
  <2>2. ~(k < m)
    BY <1>2, <1>3, <2>1, Zenon
  <2> QED BY <2>1, <2>2
<1> QED BY <1>4

\* A loop that looks for a byte of S stops at the first one, not after j if there is one at j.
LEMMA ScanStops ==
    ASSUME NEW buf, NEW S, NEW i \in Indices, NEW j \in i..MAX_AT_RESPONSE, buf[j] \in S
    PROVE  /\ Scan(buf, i, S) \in i..j /\ buf[Scan(buf, i, S)] \in S
           /\ \A k \in i..(Scan(buf, i, S) - 1) : buf[k] \notin S
<1>1. MAX_AT_RESPONSE \in Nat
  BY SizeAssumption
<1> DEFINE T == {k \in i..MAX_AT_RESPONSE : buf[k] \in S}
<1>2. T \subseteq Nat /\ j \in T
  BY <1>1 DEF Indices
<1>3. PICK m \in T : \A k \in T : m <= k
  BY <1>2, LeastElement
<1>4. /\ m \in i..MAX_AT_RESPONSE /\ buf[m] \in S
      /\ \A k \in i..(m - 1) : buf[k] \notin S
  <2>1. ASSUME NEW k \in i..(m - 1), buf[k] \in S PROVE FALSE
    <3>1. k \in T /\ k < m
      BY <1>1, <1>2, <1>3, <2>1 DEF Indices
    <3> QED BY <1>1, <1>2, <1>3, <3>1
  <2> QED BY <1>3, <2>1
<1>5. PICK s : /\ s = Scan(buf, i, S)
               /\ s \in i..MAX_AT_RESPONSE /\ buf[s] \in S
               /\ \A k \in i..(s - 1) : buf[k] \notin S
  BY <1>4 DEF Scan
<1>6. s <= j
  BY <1>1, <1>5 DEF Indices
<1> QED BY <1>1, <1>5, <1>6 DEF Indices

---------------------------------------------------------------------------
(* The inductive invariant.                                                *)

TypeInv ==
    /\ s_ATBuffer \in Buffers /\ s_ATBufferCur \in Nat /\ p_read \in Indices
    /\ stream \in Seq(Bytes)

Terminated(buf) == buf \in Buffers /\ buf[MAX_AT_RESPONSE] = NUL

CursorInv == s_ATBufferCur \in Indices \/ (strayed /\ s_ATBufferCur = MAX_AT_RESPONSE + 1)
ReadInv == s_ATBuffer[p_read] = NUL /\ (pc = "read" => s_ATBufferCur <= p_read)

IInv == TypeInv /\ Terminated(s_ATBuffer) /\ CursorInv /\ ReadInv

LEMMA Ranges ==
    /\ MAX_AT_RESPONSE \in Nat /\ MAX_AT_RESPONSE > 0 /\ MAX_AT_RESPONSE \in Indices
    /\ 0 \in Indices /\ Indices \subseteq Nat
    /\ \A i \in Indices : i..MAX_AT_RESPONSE \subseteq Indices
    /\ \A i \in Indices : MAX_AT_RESPONSE \in i..MAX_AT_RESPONSE
BY SizeAssumption DEF Indices

\* Line ends are skipped up to the terminator at the most.
LEMMA SkipStops ==
    ASSUME NEW buf, Terminated(buf), NEW i \in Indices, NEW j \in i..MAX_AT_RESPONSE, buf[j] = NUL
    PROVE  SkipNewlines(buf, i) \in i..j /\ SkipNewlines(buf, i) \in Indices
<1>1. NUL \in (Bytes \cup {NUL}) \ {"\n"}
  BY DEF NUL
<1>2. SkipNewlines(buf, i) \in i..j
  BY <1>1, ScanStops DEF SkipNewlines
<1> QED BY <1>2, Ranges DEF Indices

\* The end of a line, or of a prompt, is a byte of the buffer; only the end of a prompt is a
\* terminator.
LEMMA EndOfLine ==
    ASSUME NEW buf, Terminated(buf), NEW c \in Indices, findNextEOL(buf, c) # None
    PROVE  findNextEOL(buf, c) \in Indices
<1> DEFINE e == Scan(buf, c, {"\n", NUL})
<1>1. e \in Indices
  BY ScanStops, Ranges DEF Terminated, Indices
<1>2. CASE buf[c] = ">" /\ buf[c + 1] = " " /\ buf[c + 2] = NUL
  <2>1. c # MAX_AT_RESPONSE /\ c + 1 # MAX_AT_RESPONSE
    BY <1>2 DEF Terminated, NUL
  <2>2. c + 2 \in Indices
    BY <2>1, Ranges DEF Indices
  <2> QED BY <1>2, <2>2 DEF findNextEOL
<1>3. CASE ~(buf[c] = ">" /\ buf[c + 1] = " " /\ buf[c + 2] = NUL)
  BY <1>1, <1>3 DEF findNextEOL
<1> QED BY <1>2, <1>3

\* Returning a line leaves the cursor in the buffer, or notes that it strayed.
LEMMA ReturnStays ==
    ASSUME NEW buf, Terminated(buf), NEW c, NEW eol \in Indices, NEW bytes,
           ReturnLine(buf, c, eol, bytes)
    PROVE  /\ s_ATBuffer' \in Buffers /\ Terminated(s_ATBuffer)' /\ s_ATBufferCur' \in Nat
           /\ CursorInv' /\ pc' = "call"
           /\ \A i \in Indices : buf[i] = NUL => s_ATBuffer'[i] = NUL
<1>1. s_ATBuffer' = [buf EXCEPT ![eol] = NUL] /\ s_ATBufferCur' = eol + 1 /\ pc' = "call"
  BY DEF ReturnLine
<1>2. /\ s_ATBuffer' \in Buffers /\ s_ATBuffer'[MAX_AT_RESPONSE] = NUL
      /\ \A i \in Indices : buf[i] = NUL => s_ATBuffer'[i] = NUL
  BY <1>1, Ranges DEF Terminated, Buffers
<1>3. CASE eol = MAX_AT_RESPONSE
  <2>1. strayed' = TRUE
    BY <1>3 DEF ReturnLine, Terminated
  <2> QED BY <1>1, <1>2, <2>1, Ranges DEF CursorInv, Terminated
<1>4. CASE eol # MAX_AT_RESPONSE
  <2>1. eol + 1 \in Indices
    BY <1>4, Ranges DEF Indices
  <2> QED BY <1>1, <1>2, <2>1, Ranges DEF CursorInv, Terminated
<1> QED BY <1>3, <1>4

LEMMA InitInv == Init => IInv
<1> SUFFICES ASSUME Init PROVE IInv
  OBVIOUS
<1>1. stream \in Seq(Bytes)
  BY StreamsAssumption DEF Init
<1>2. s_ATBuffer = [i \in Indices |-> NUL] /\ s_ATBufferCur = 0 /\ p_read = 0 /\ pc = "call"
  BY DEF Init, Indices
<1> QED BY <1>1, <1>2, Ranges DEF IInv, TypeInv, Terminated, CursorInv, ReadInv, Buffers

LEMMA ReadlineStep ==
    ASSUME IInv, readline
    PROVE  IInv'
<1> USE DEF IInv
<1> DEFINE buf == s_ATBuffer
           cur == s_ATBufferCur
<1>1. /\ cur \in Indices /\ Terminated(buf) /\ UNCHANGED stream /\ stream \in Seq(Bytes)
      /\ buf \in Buffers
  BY Ranges DEF readline, TypeInv, Indices
<1>2. CASE buf[cur] = NUL
  <2>1. /\ s_ATBufferCur' = 0 /\ p_read' = 0 /\ s_ATBuffer' = [buf EXCEPT ![0] = NUL]
    BY <1>2 DEF readline
  <2>2. s_ATBuffer' \in Buffers /\ s_ATBuffer'[MAX_AT_RESPONSE] = NUL /\ s_ATBuffer'[0] = NUL
    BY <1>1, <2>1, Ranges DEF Terminated, Buffers
  <2> QED BY <1>1, <2>1, <2>2, Ranges DEF TypeInv, Terminated, CursorInv, ReadInv
<1>3. CASE buf[cur] # NUL
  <2> DEFINE c == SkipNewlines(buf, cur)
             eol == findNextEOL(buf, c)
  <2>1. c \in Indices
    BY <1>1, SkipStops, Ranges DEF Terminated
  <2>2. CASE eol = None
    <3> DEFINE end == EndOfData(buf, c)
               len == end - c
    <3>1. end \in c..MAX_AT_RESPONSE /\ buf[end] = NUL
      <4>1. buf[MAX_AT_RESPONSE] \in {NUL} /\ MAX_AT_RESPONSE \in c..MAX_AT_RESPONSE
        BY <1>1, <2>1, Ranges DEF Terminated
      <4>2. end \in c..MAX_AT_RESPONSE /\ buf[end] \in {NUL}
        BY <2>1, <4>1, ScanStops DEF EndOfData
      <4> QED BY <4>2
    <3>2. len \in Indices /\ c + len = end /\ \A i \in Indices : i <= len => c + i \in Indices
      BY <2>1, <3>1, Ranges DEF Indices
    <3>3. KeepPartial(c)
      BY <1>3, <2>2 DEF readline
    <3>4. s_ATBuffer' = MovedUp(buf, c, len) /\ s_ATBufferCur' = 0 /\ p_read' = len
      BY <3>3 DEF KeepPartial
    <3>5. s_ATBuffer' \in Buffers /\ s_ATBuffer'[len] = NUL
      BY <1>1, <3>1, <3>2, <3>4 DEF MovedUp, Indices, Buffers
    <3>6. s_ATBuffer'[MAX_AT_RESPONSE] = NUL
      <4>1. len = MAX_AT_RESPONSE \/ ~(MAX_AT_RESPONSE <= len)
        BY <3>2, Ranges DEF Indices
      <4> QED BY <1>1, <3>4, <3>5, <4>1, Ranges DEF MovedUp, Terminated, Indices
    <3> QED BY <1>1, <3>2, <3>4, <3>5, <3>6, Ranges DEF TypeInv, Terminated, CursorInv, ReadInv
  <2>3. CASE eol # None
    <3>1. ReturnLine(buf, c, eol, seen) /\ UNCHANGED p_read
      BY <1>3, <2>3 DEF readline
    <3>2. eol \in Indices
      BY <1>1, <2>1, <2>3, EndOfLine
    <3>3. /\ s_ATBuffer' \in Buffers /\ Terminated(s_ATBuffer)' /\ s_ATBufferCur' \in Nat
          /\ CursorInv' /\ pc' = "call"
          /\ \A i \in Indices : buf[i] = NUL => s_ATBuffer'[i] = NUL
      BY <1>1, <3>1, <3>2, ReturnStays
    <3>4. p_read' = p_read /\ p_read \in Indices /\ buf[p_read] = NUL
      BY <3>1 DEF TypeInv, ReadInv
    <3>5. s_ATBuffer'[p_read'] = NUL
      BY <3>3, <3>4
    <3> QED BY <1>1, <3>3, <3>4, <3>5 DEF TypeInv, ReadInv
  <2> QED BY <2>2, <2>3
<1> QED BY <1>2, <1>3

\* After a read() of k bytes at start the data are terminated, and so is the buffer.
LEMMA ChunkTerminated ==
    ASSUME NEW old \in Buffers, old[MAX_AT_RESPONSE] = NUL, NEW str \in Seq(Bytes),
           NEW start \in Nat, NEW k \in 1..Len(str), start + k \in Indices,
           NEW b, b = Stored(old, start, str, k)
    PROVE  b \in Buffers /\ b[start + k] = NUL /\ b[MAX_AT_RESPONSE] = NUL
<1>1. k \in Nat /\ k > 0
  OBVIOUS
<1>2. ASSUME NEW i \in Indices, i \in start..(start + k - 1)
      PROVE  str[i - start + 1] \in Bytes
  <2>1. i - start + 1 \in 1..Len(str)
    BY <1>1, <1>2 DEF Indices
  <2> QED BY <2>1
<1>3. b \in Buffers
  BY <1>2 DEF Stored, Buffers, Indices
<1>4. start + k \notin start..(start + k - 1)
  BY <1>1
<1>5. MAX_AT_RESPONSE \notin start..(start + k - 1)
  BY <1>1, Ranges DEF Indices
<1> QED BY <1>3, <1>4, <1>5, Ranges DEF Stored, Indices

LEMMA ReadChunkStep ==
    ASSUME IInv, ReadChunk
    PROVE  IInv'
<1> USE DEF IInv
<1> DEFINE start == IF Full THEN 0 ELSE p_read
           cur   == IF Full THEN 0 ELSE s_ATBufferCur
           buf(k) == Stored(s_ATBuffer, start, stream, k)
<1>1. PICK k \in 1..Len(stream) :
        /\ k <= Room(start)
        /\ LET c     == SkipNewlines(buf(k), cur)
               eol   == findNextEOL(buf(k), c)
               bytes == seen \o SubSeq(stream, 1, k)
           IN  /\ IF eol = None
                  THEN /\ s_ATBuffer' = buf(k) /\ s_ATBufferCur' = c
                       /\ seen' = bytes /\ UNCHANGED <<out, pc, ends, strayed>>
                  ELSE ReturnLine(buf(k), c, eol, bytes)
               /\ p_read' = start + k
               /\ stream' = SubSeq(stream, k + 1, Len(stream))
  BY DEF ReadChunk
<1>2. /\ start \in Indices /\ cur \in Nat /\ cur <= start /\ k \in Nat /\ k > 0
      /\ start + k \in Indices /\ start \in Nat
  BY <1>1, Ranges DEF Full, Room, ReadChunk, ReadInv, TypeInv, Indices
<1>3. stream \in Seq(Bytes) /\ s_ATBuffer \in Buffers /\ s_ATBuffer[MAX_AT_RESPONSE] = NUL
  BY DEF TypeInv, Terminated
<1> HIDE DEF start, cur
<1>4. buf(k) \in Buffers /\ buf(k)[start + k] = NUL /\ buf(k)[MAX_AT_RESPONSE] = NUL
  BY <1>1, <1>2, <1>3, ChunkTerminated
<1> DEFINE b == buf(k)
           c == SkipNewlines(b, cur)
           eol == findNextEOL(b, c)
<1>5. Terminated(b) /\ b[start + k] = NUL
  BY <1>4 DEF Terminated
<1>6. SubSeq(stream, k + 1, Len(stream)) \in Seq(Bytes)
  BY <1>1, <1>2, <1>3
<1>7. /\ \/ eol = None /\ s_ATBuffer' = b /\ s_ATBufferCur' = c /\ UNCHANGED pc
         \/ eol # None /\ ReturnLine(b, c, eol, seen \o SubSeq(stream, 1, k))
      /\ p_read' = start + k /\ stream' \in Seq(Bytes)
  BY <1>1, <1>6
<1> HIDE DEF b
<1>8. c \in cur..(start + k) /\ c \in Indices
  <2>1. cur \in Indices /\ start + k \in cur..MAX_AT_RESPONSE
    BY <1>2, Ranges DEF Indices
  <2> QED BY <1>5, <2>1, SkipStops
<1> HIDE DEF c
<1>9. CASE eol = None
  <2>1. s_ATBuffer' = b /\ s_ATBufferCur' = c /\ c <= start + k /\ c \in Nat
    BY <1>2, <1>7, <1>8, <1>9, Ranges DEF Indices
  <2> QED BY <1>2, <1>5, <1>7, <1>8, <2>1 DEF TypeInv, Terminated, CursorInv, ReadInv
<1>10. CASE eol # None
  <2>1. eol \in Indices
    BY <1>5, <1>8, <1>10, EndOfLine
  <2>2. ReturnLine(b, c, eol, seen \o SubSeq(stream, 1, k))
    BY <1>7, <1>10
  <2> HIDE DEF eol
  <2>3. /\ s_ATBuffer' \in Buffers /\ Terminated(s_ATBuffer)' /\ s_ATBufferCur' \in Nat
        /\ CursorInv' /\ pc' = "call"
        /\ \A i \in Indices : b[i] = NUL => s_ATBuffer'[i] = NUL
    BY <1>5, <2>1, <2>2, ReturnStays
  <2>4. p_read' \in Indices /\ s_ATBuffer'[p_read'] = NUL
    BY <1>2, <1>5, <1>7, <2>3
  <2> QED BY <1>2, <1>7, <2>3, <2>4 DEF TypeInv, ReadInv
<1> QED BY <1>9, <1>10

\* The invariant holds from the start, and every step of the reader keeps it.
THEOREM Invariant == Spec => []IInv
<1>1. IInv /\ [Next]_vars => IInv'
  <2> SUFFICES ASSUME IInv, [Next]_vars
               PROVE  IInv'
    OBVIOUS
  <2>1. CASE readline
    BY <2>1, ReadlineStep
  <2>2. CASE ReadChunk
    BY <2>2, ReadChunkStep
  <2>3. CASE ReadEOF
    <3>1. /\ s_ATBuffer \in Buffers /\ s_ATBuffer[MAX_AT_RESPONSE] = NUL /\ pc' = "closed"
          /\ UNCHANGED <<stream, strayed>>
      BY <2>3 DEF IInv, Terminated, ReadEOF
    <3>2. CASE Full
      <4>1. /\ s_ATBuffer' = [s_ATBuffer EXCEPT ![0] = NUL] /\ s_ATBufferCur' = 0 /\ p_read' = 0
        BY <2>3, <3>2 DEF ReadEOF
      <4>2. s_ATBuffer' \in Buffers /\ s_ATBuffer'[MAX_AT_RESPONSE] = NUL /\ s_ATBuffer'[0] = NUL
        BY <3>1, <4>1, Ranges DEF Buffers
      <4> QED BY <3>1, <4>1, <4>2, Ranges DEF IInv, TypeInv, Terminated, CursorInv, ReadInv
    <3>3. CASE ~Full
      BY <2>3, <3>1, <3>3 DEF ReadEOF, IInv, TypeInv, Terminated, CursorInv, ReadInv
    <3> QED BY <3>2, <3>3
  <2>4. CASE at_open
    <3>1. stream' \in Seq(Bytes)
      BY <2>4, StreamsAssumption DEF at_open
    <3> QED BY <2>4, <3>1 DEF at_open, IInv, TypeInv, Terminated, CursorInv, ReadInv
  <2>5. CASE UNCHANGED vars
    BY <2>5 DEF vars, IInv, TypeInv, Terminated, CursorInv, ReadInv
  <2> QED BY <2>1, <2>2, <2>3, <2>4, <2>5 DEF Next
<1> QED BY <1>1, InitInv, PTL DEF Spec

---------------------------------------------------------------------------
(* No line is lost or cut.                                                 *)

\* The data in the buffer from c on, up to the terminator at d.
Data(buf, c, d) ==
    /\ c \in Indices /\ d \in Indices /\ c <= d
    /\ buf[d] = NUL /\ \A i \in c..(d - 1) : buf[i] # NUL

\* They are the last bytes of s, with only line ends, and bytes of g that are gone, between
\* them and position last.
Mirrors(buf, c, d, s, g, last) ==
    /\ last + (d - c) <= Len(s)
    /\ \A p \in (last + 1)..(Len(s) - (d - c)) : s[p] = "\n" \/ p \in g
    /\ \A i \in c..(d - 1) : buf[i] = s[Len(s) - (d - i) + 1]

End(es, n) == IF n = 0 THEN 0 ELSE es[n]

\* The lines o end at es in s.
LinesOf(s, g, o, es) ==
    /\ o \in Seq(Seq(Bytes)) /\ es \in Seq(Nat) /\ Len(es) = Len(o)
    /\ \A n \in 1..Len(o) : /\ es[n] <= End(es, Len(es))
                            /\ IsLine(s, g, End(es, n - 1), es[n], o[n])

\* No line end is gone.
Gone(s, g) == \A p \in g : p \in 1..Len(s) /\ s[p] # "\n"

\* What has been read is the lines that were returned, what was ditched and the data in the
\* buffer.
Complete(s, g, o, es, buf, c, d) ==
    /\ s \in Seq(Bytes) /\ LinesOf(s, g, o, es) /\ Gone(s, g)
    /\ Data(buf, c, d) /\ Mirrors(buf, c, d, s, g, End(es, Len(es)))

\* The data end where read() will store, but for the cursor that a prompt leaves behind.
AtEnd(d) == d = p_read \/ /\ d = p_read + 1 /\ s_ATBufferCur = d
                          /\ out # <<>> /\ out[Len(out)] = SmsPrompt

LineInv ==
    ~strayed => \E d \in Indices :
        /\ Complete(seen, ditched, out, ends, s_ATBuffer, s_ATBufferCur, d)
        /\ AtEnd(d)
        /\ pc = "read" => /\ d = p_read
                          /\ \A i \in s_ATBufferCur..(d - 1) : s_ATBuffer[i] # "\n"

LEMMA EndType ==
    ASSUME NEW es \in Seq(Nat), NEW n \in 0..Len(es)
    PROVE  End(es, n) \in Nat
BY DEF End

\* A text of the buffer, as a sequence.
LEMMA TextIs ==
    ASSUME NEW buf \in Buffers, NEW c \in Indices, NEW d \in Indices, c <= d,
           \A i \in c..(d - 1) : buf[i] # NUL
    PROVE  /\ Text(buf, c, d) \in Seq(Bytes) /\ Len(Text(buf, c, d)) = d - c
           /\ \A k \in 1..(d - c) : Text(buf, c, d)[k] = buf[c + k - 1] /\ c + k - 1 \in c..(d - 1)
<1>1. c \in Nat /\ d \in Nat /\ d - c \in Nat
  BY Ranges
<1>2. ASSUME NEW k \in 1..(d - c)
      PROVE  c + k - 1 \in c..(d - 1) /\ c + k - 1 \in Indices
  BY <1>1, <1>2, Ranges DEF Indices
<1>3. \A k \in 1..(d - c) : buf[c + k - 1] \in Bytes
  BY <1>2 DEF Buffers
<1>4. Text(buf, c, d) \in [1..(d - c) -> Bytes]
  BY <1>3 DEF Text
<1>5. Text(buf, c, d) \in Seq(Bytes) /\ Len(Text(buf, c, d)) = d - c
  BY <1>1, <1>4
<1> QED BY <1>2, <1>5 DEF Text

LEMMA EndOfDataIs ==
    ASSUME NEW buf, NEW c, NEW d, Data(buf, c, d)
    PROVE  EndOfData(buf, c) = d
<1>1. c \in Indices /\ d \in c..MAX_AT_RESPONSE /\ buf[d] \in {NUL}
  BY Ranges DEF Data, Indices
<1> DEFINE e == EndOfData(buf, c)
<1>2. e \in c..d /\ buf[e] \in {NUL}
  BY <1>1, ScanStops DEF EndOfData
<1> HIDE DEF e
<1>3. e = d
  BY <1>1, <1>2, Ranges DEF Data, Indices
<1> QED BY <1>3 DEF e

\* A line depends on the bytes up to its end only.
LEMMA IsLineLocal ==
    ASSUME NEW s, NEW t, NEW i \in Nat, NEW e \in Nat, NEW line \in Seq(Bytes),
           NEW g, NEW h, g \subseteq h,
           IsLine(s, g, i, e, line), \A p \in 1..e : t[p] = s[p]
    PROVE  IsLine(t, h, i, e, line) /\ i < e
<1>1. Len(line) \in Nat /\ Len(line) > 0 /\ i + Len(line) <= e - 1
  BY DEF IsLine, Follows
<1>2. \A p \in (i + 1)..(e - 1 - Len(line)) : p \in 1..e
  BY <1>1
<1>3. \A k \in 1..Len(line) : e - 1 - Len(line) + k \in 1..e
  BY <1>1
<1>4. e \in 1..e /\ i < e
  BY <1>1
<1>5. s[e] = "\n" /\ line # <<>> /\ \A k \in 1..Len(line) : line[k] # "\n"
  BY DEF IsLine
<1>6. /\ \A p \in (i + 1)..(e - 1 - Len(line)) : s[p] = "\n" \/ p \in g
      /\ \A k \in 1..Len(line) : s[e - 1 - Len(line) + k] = line[k]
  BY DEF IsLine, Follows
<1>7. \A p \in (i + 1)..(e - 1 - Len(line)) : t[p] = "\n" \/ p \in h
  BY <1>2, <1>6
<1>8. \A k \in 1..Len(line) : t[e - 1 - Len(line) + k] = line[k]
  BY <1>3, <1>6
<1>9. Follows(t, h, i, e - 1, line)
  BY <1>1, <1>7, <1>8 DEF Follows
<1> QED BY <1>4, <1>5, <1>9 DEF IsLine

LEMMA LinesLocal ==
    ASSUME NEW s, NEW t, NEW g, NEW h, g \subseteq h, NEW o, NEW es, LinesOf(s, g, o, es),
           \A p \in 1..End(es, Len(es)) : t[p] = s[p]
    PROVE  LinesOf(t, h, o, es)
<1>1. SUFFICES ASSUME NEW n \in 1..Len(o)
               PROVE  IsLine(t, h, End(es, n - 1), es[n], o[n])
  BY DEF LinesOf
<1>2. o \in Seq(Seq(Bytes)) /\ es \in Seq(Nat) /\ Len(es) = Len(o)
  BY DEF LinesOf
<1>3. n - 1 \in 0..Len(es) /\ n \in 1..Len(es) /\ Len(es) \in 0..Len(es)
  BY <1>2
<1>4. End(es, n - 1) \in Nat /\ es[n] \in Nat /\ End(es, Len(es)) \in Nat /\ o[n] \in Seq(Bytes)
  BY <1>2, <1>3, EndType
<1>5. es[n] <= End(es, Len(es)) /\ IsLine(s, g, End(es, n - 1), es[n], o[n])
  BY DEF LinesOf
<1>6. \A p \in 1..es[n] : t[p] = s[p]
  BY <1>4, <1>5
<1> QED BY <1>4, <1>5, <1>6, IsLineLocal

\* One more line.
LEMMA LinesAppend ==
    ASSUME NEW s, NEW g, NEW o, NEW es, LinesOf(s, g, o, es), NEW e \in Nat, NEW line \in Seq(Bytes),
           IsLine(s, g, End(es, Len(es)), e, line)
    PROVE  LinesOf(s, g, Append(o, line), Append(es, e)) /\ End(Append(es, e), Len(Append(es, e))) = e
<1> DEFINE oo == Append(o, line)
           ee == Append(es, e)
<1>1. o \in Seq(Seq(Bytes)) /\ es \in Seq(Nat) /\ Len(es) = Len(o) /\ Len(es) \in Nat
  BY DEF LinesOf
<1>2. /\ oo \in Seq(Seq(Bytes)) /\ ee \in Seq(Nat)
      /\ Len(oo) = Len(es) + 1 /\ Len(ee) = Len(es) + 1
      /\ oo[Len(es) + 1] = line /\ ee[Len(es) + 1] = e
      /\ \A n \in 1..Len(es) : oo[n] = o[n] /\ ee[n] = es[n]
  BY <1>1
<1> HIDE DEF oo, ee
<1>3. End(ee, Len(ee)) = e
  BY <1>1, <1>2 DEF End
<1>4. \A n \in 0..Len(es) : End(ee, n) = End(es, n)
  BY <1>1, <1>2 DEF End
<1>5. End(es, Len(es)) \in Nat /\ End(es, Len(es)) < e
  <2>1. End(es, Len(es)) \in Nat
    BY <1>1, EndType
  <2>2. End(es, Len(es)) + Len(line) <= e - 1 /\ Len(line) \in Nat
    BY DEF IsLine, Follows
  <2> QED BY <2>1, <2>2
<1>6. ASSUME NEW n \in 1..Len(oo)
      PROVE  ee[n] <= e /\ IsLine(s, g, End(ee, n - 1), ee[n], oo[n])
  <2>1. CASE n = Len(es) + 1
    <3>1. n - 1 = Len(es) /\ Len(es) \in 0..Len(es)
      BY <1>1, <2>1
    <3>2. End(ee, n - 1) = End(es, Len(es))
      BY <1>4, <3>1
    <3> QED BY <1>2, <2>1, <3>2
  <2>2. CASE n # Len(es) + 1
    <3>1. n \in 1..Len(es) /\ n \in 1..Len(o) /\ n - 1 \in 0..Len(es)
      <4>1. n \in 1..(Len(es) + 1)
        BY <1>2
      <4>2. n \in Nat /\ 1 <= n /\ n <= Len(es) + 1 /\ Len(es) \in Nat
        BY <1>1, <4>1
      <4>3. n <= Len(es)
        BY <2>2, <4>2
      <4> QED BY <1>1, <4>2, <4>3
    <3>2. es[n] <= End(es, Len(es)) /\ IsLine(s, g, End(es, n - 1), es[n], o[n]) /\ es[n] \in Nat
      BY <1>1, <3>1 DEF LinesOf
    <3>3. ee[n] = es[n] /\ oo[n] = o[n] /\ End(ee, n - 1) = End(es, n - 1)
      BY <1>2, <1>4, <3>1
    <3> QED BY <1>5, <3>2, <3>3
  <2> QED BY <2>1, <2>2
<1>7. LinesOf(s, g, oo, ee)
  BY <1>1, <1>2, <1>3, <1>6 DEF LinesOf
<1> QED BY <1>3, <1>7 DEF oo, ee

\* Skipping line ends loses nothing.
LEMMA SkipData ==
    ASSUME NEW buf, Terminated(buf), NEW s, NEW g, NEW o, NEW es, NEW c, NEW d,
           Complete(s, g, o, es, buf, c, d)
    PROVE  /\ SkipNewlines(buf, c) \in c..d /\ buf[SkipNewlines(buf, c)] # "\n"
           /\ Complete(s, g, o, es, buf, SkipNewlines(buf, c), d)
<1> DEFINE S == (Bytes \cup {NUL}) \ {"\n"}
           m == SkipNewlines(buf, c)
           last == End(es, Len(es))
<1>1. /\ c \in Indices /\ d \in Indices /\ d \in c..MAX_AT_RESPONSE /\ buf[d] = NUL
      /\ \A i \in c..(d - 1) : buf[i] # NUL
  BY Ranges DEF Complete, Data, Indices
<1>2. NUL \in S
  BY DEF NUL
<1>3. m \in c..d /\ buf[m] \in S /\ \A k \in c..(m - 1) : buf[k] \notin S
  BY <1>1, <1>2, ScanStops DEF SkipNewlines
<1> HIDE DEF m
<1>4. \A k \in c..(m - 1) : buf[k] = "\n"
  <2>1. \A k \in Indices : buf[k] \in Bytes \cup {NUL}
    BY DEF Terminated, Buffers
  <2>2. \A k \in c..(m - 1) : k \in Indices
    BY <1>1, <1>3, Ranges DEF Indices
  <2> QED BY <1>3, <2>1, <2>2
<1>5. c \in Nat /\ d \in Nat /\ m \in Nat /\ c <= m /\ m <= d /\ m \in Indices
  BY <1>1, <1>3, Ranges DEF Indices
<1>6. s \in Seq(Bytes) /\ Len(s) \in Nat /\ last \in Nat
  <2>1. es \in Seq(Nat) /\ s \in Seq(Bytes)
    BY DEF Complete, LinesOf
  <2>2. Len(es) \in 0..Len(es) /\ Len(s) \in Nat
    BY <2>1
  <2> QED BY <2>1, <2>2, EndType
<1> HIDE DEF last
<1>7. /\ last + (d - c) <= Len(s)
      /\ \A p \in (last + 1)..(Len(s) - (d - c)) : s[p] = "\n" \/ p \in g
      /\ \A i \in c..(d - 1) : buf[i] = s[Len(s) - (d - i) + 1]
  BY DEF Complete, Mirrors, last
<1>8. Data(buf, m, d)
  BY <1>1, <1>5 DEF Data
<1>9. ASSUME NEW p \in (last + 1)..(Len(s) - (d - m)) PROVE s[p] = "\n" \/ p \in g
  <2>1. CASE p <= Len(s) - (d - c)
    BY <1>5, <1>6, <1>7, <2>1
  <2>2. CASE p > Len(s) - (d - c)
    <3> DEFINE i == p - 1 - Len(s) + d
    <3>1. i \in c..(d - 1) /\ i \in c..(m - 1) /\ Len(s) - (d - i) + 1 = p
      BY <1>5, <1>6, <2>2
    <3> HIDE DEF i
    <3>2. buf[i] = s[p]
      BY <1>7, <3>1
    <3> QED BY <1>4, <3>1, <3>2
  <2> QED BY <1>5, <1>6, <2>1, <2>2
<1>10. Mirrors(buf, m, d, s, g, last)
  <2>1. last + (d - m) <= Len(s)
    BY <1>5, <1>6, <1>7
  <2>2. \A i \in m..(d - 1) : i \in c..(d - 1)
    BY <1>5
  <2> QED BY <1>7, <1>9, <2>1, <2>2 DEF Mirrors
<1> QED BY <1>3, <1>8, <1>10 DEF Complete, m, last

\* The characters of a prompt.
Prompt(buf, c) == buf[c] = ">" /\ buf[c + 1] = " "

\* A line that is found is not empty, has no line end in it and is part of the data: it ends
\* at a line end, or it is a prompt that ends where the data do.
LEMMA NextLine ==
    ASSUME NEW buf, Terminated(buf), NEW c, NEW d, Data(buf, c, d), buf[c] # "\n",
           NEW eol, eol = findNextEOL(buf, c), eol # None
    PROVE  /\ eol \in (c + 1)..d /\ \A i \in c..(eol - 1) : buf[i] # "\n"
           /\ \/ eol < d /\ buf[eol] = "\n"
              \/ eol = d /\ buf[eol] = NUL /\ eol = c + 2 /\ Prompt(buf, c)
<1>1. /\ c \in Nat /\ d \in Nat /\ c \in Indices /\ d \in c..MAX_AT_RESPONSE /\ buf[d] = NUL
      /\ \A i \in c..(d - 1) : buf[i] # NUL
  BY Ranges DEF Data, Indices
<1>2. CASE buf[c] = ">" /\ buf[c + 1] = " " /\ buf[c + 2] = NUL
  <2>1. eol = c + 2
    BY <1>2 DEF findNextEOL
  <2>2. c # d /\ c + 1 # d
    BY <1>1, <1>2 DEF NUL
  <2>3. c + 2 = d
    <3>1. c + 2 <= d
      BY <1>1, <2>2
    <3>2. ~(c + 2 \in c..(d - 1))
      BY <1>1, <1>2
    <3> QED BY <1>1, <3>1, <3>2
  <2>4. \A i \in c..(eol - 1) : i = c \/ i = c + 1
    BY <1>1, <2>1
  <2>5. eol \in (c + 1)..d /\ eol = d
    BY <1>1, <2>1, <2>3
  <2>6. \A i \in c..(eol - 1) : buf[i] # "\n"
    BY <1>2, <2>4
  <2>7. buf[eol] = NUL /\ Prompt(buf, c)
    BY <1>2, <2>1 DEF Prompt
  <2> QED BY <2>1, <2>5, <2>6, <2>7
<1>3. CASE ~(buf[c] = ">" /\ buf[c + 1] = " " /\ buf[c + 2] = NUL)
  <2> DEFINE e == Scan(buf, c, {"\n", NUL})
  <2>1. e \in c..d /\ buf[e] \in {"\n", NUL} /\ \A k \in c..(e - 1) : buf[k] \notin {"\n", NUL}
    BY <1>1, ScanStops
  <2>2. buf[e] # NUL /\ eol = e
    BY <1>3 DEF findNextEOL
  <2> HIDE DEF e
  <2>3. buf[e] = "\n" /\ e # c /\ e # d
    BY <1>1, <2>1, <2>2
  <2>4. e \in (c + 1)..d /\ e < d
    BY <1>1, <2>1, <2>3
  <2>5. \A i \in c..(e - 1) : buf[i] # "\n"
    BY <2>1
  <2> QED BY <2>2, <2>3, <2>4, <2>5
<1> QED BY <1>2, <1>3

\* When no line is found there is no line end in the data.
LEMMA NoLine ==
    ASSUME NEW buf, Terminated(buf), NEW c, NEW d, Data(buf, c, d), findNextEOL(buf, c) = None
    PROVE  \A i \in c..(d - 1) : buf[i] # "\n"
<1>1. /\ c \in Nat /\ d \in Nat /\ c \in Indices /\ d \in c..MAX_AT_RESPONSE /\ buf[d] = NUL
      /\ \A i \in c..(d - 1) : buf[i] # NUL
  BY Ranges DEF Data, Indices
<1> DEFINE e == Scan(buf, c, {"\n", NUL})
<1>2. e \in c..d /\ buf[e] \in {"\n", NUL} /\ \A k \in c..(e - 1) : buf[k] \notin {"\n", NUL}
  BY <1>1, ScanStops
<1>3. ~(buf[c] = ">" /\ buf[c + 1] = " " /\ buf[c + 2] = NUL)
  <2>1. ASSUME buf[c] = ">" /\ buf[c + 1] = " " /\ buf[c + 2] = NUL PROVE FALSE
    <3>1. c + 2 = None
      BY <2>1 DEF findNextEOL
    <3>2. c # MAX_AT_RESPONSE /\ c + 1 # MAX_AT_RESPONSE
      BY <2>1 DEF Terminated, NUL
    <3> QED BY <1>1, <3>1, <3>2, Ranges DEF None, Indices
  <2> QED BY <2>1
<1>4. e # None
  BY <1>1, <1>2, Ranges DEF None
<1>5. buf[e] = NUL
  BY <1>3, <1>4 DEF findNextEOL
<1> HIDE DEF e
<1>6. e = d
  BY <1>1, <1>2, <1>5
<1> QED BY <1>1, <1>2, <1>6

\* The line in the buffer is the next one of what has been read.
LEMMA LineInData ==
    ASSUME NEW buf, Terminated(buf), NEW s \in Seq(Bytes), NEW g, NEW c, NEW d, NEW last \in Nat,
           Data(buf, c, d), Mirrors(buf, c, d, s, g, last),
           NEW eol \in (c + 1)..d, \A i \in c..(eol - 1) : buf[i] # "\n",
           NEW e, e = Len(s) + 1 - (d - eol),
           NEW t, \A p \in 1..Len(s) : t[p] = s[p], t[e] = "\n"
    PROVE  e \in Nat /\ Text(buf, c, eol) \in Seq(Bytes) /\ IsLine(t, g, last, e, Text(buf, c, eol))
<1>1. /\ c \in Nat /\ d \in Nat /\ eol \in Nat /\ c < eol /\ eol <= d
      /\ c \in Indices /\ eol \in Indices
  BY Ranges DEF Data, Indices
<1>2. /\ last + (d - c) <= Len(s) /\ Len(s) \in Nat
      /\ \A p \in (last + 1)..(Len(s) - (d - c)) : s[p] = "\n" \/ p \in g
      /\ \A i \in c..(d - 1) : buf[i] = s[Len(s) - (d - i) + 1]
  BY DEF Mirrors
<1> DEFINE text == Text(buf, c, eol)
<1>3. \A i \in c..(eol - 1) : buf[i] # NUL
  BY <1>1 DEF Data
<1>4. /\ text \in Seq(Bytes) /\ Len(text) = eol - c
      /\ \A k \in 1..(eol - c) : text[k] = buf[c + k - 1] /\ c + k - 1 \in c..(eol - 1)
  BY <1>1, <1>3, TextIs DEF Terminated
<1> HIDE DEF text
<1>5. e \in Nat /\ last + (eol - c) <= e - 1 /\ e - 1 - (eol - c) = Len(s) - (d - c)
  BY <1>1, <1>2
<1>6. ASSUME NEW p \in (last + 1)..(e - 1 - (eol - c)) PROVE t[p] = "\n" \/ p \in g
  <2>1. p \in (last + 1)..(Len(s) - (d - c)) /\ p \in 1..Len(s)
    BY <1>1, <1>2, <1>5
  <2> QED BY <1>2, <2>1
<1>7. ASSUME NEW k \in 1..(eol - c)
      PROVE  t[e - 1 - (eol - c) + k] = text[k] /\ text[k] # "\n"
  <2> DEFINE i == c + k - 1
  <2>1. /\ i \in c..(eol - 1) /\ i \in c..(d - 1)
        /\ Len(s) - (d - i) + 1 = e - 1 - (eol - c) + k /\ Len(s) - (d - i) + 1 \in 1..Len(s)
    BY <1>1, <1>2, <1>5
  <2>2. text[k] = buf[i]
    BY <1>4
  <2> HIDE DEF i
  <2> QED BY <1>2, <2>1, <2>2
<1>8. text # <<>>
  BY <1>1, <1>4
<1>9. Follows(t, g, last, e - 1, text)
  BY <1>4, <1>5, <1>6, <1>7 DEF Follows
<1> QED BY <1>4, <1>5, <1>7, <1>8, <1>9 DEF IsLine, text

\* Returning a line, unless the cursor strays, keeps what has been read complete.
LEMMA ReturnComplete ==
    ASSUME NEW buf, Terminated(buf), NEW bytes, NEW g, NEW c, NEW d,
           Complete(bytes, g, out, ends, buf, c, d), buf[c] # "\n",
           NEW eol, eol = findNextEOL(buf, c), eol # None,
           ReturnLine(buf, c, eol, bytes), ~strayed'
    PROVE  \E dd \in Indices :
               /\ Complete(seen', g, out', ends', s_ATBuffer', s_ATBufferCur', dd)
               /\ dd = d \/ /\ dd = d + 1 /\ s_ATBufferCur' = dd
                            /\ out' # <<>> /\ out'[Len(out')] = SmsPrompt
<1> DEFINE last == End(ends, Len(ends))
           line == Text(buf, c, eol)
           e    == Len(bytes) + 1 - (d - eol)
<1>1. /\ bytes \in Seq(Bytes) /\ Len(bytes) \in Nat /\ LinesOf(bytes, g, out, ends)
      /\ Gone(bytes, g)
      /\ Data(buf, c, d) /\ Mirrors(buf, c, d, bytes, g, last)
  BY DEF Complete
<1>2. last \in Nat /\ ends \in Seq(Nat)
  <2>1. ends \in Seq(Nat)
    BY <1>1 DEF LinesOf
  <2>2. Len(ends) \in 0..Len(ends)
    BY <2>1
  <2> QED BY <2>1, <2>2, EndType
<1> HIDE DEF last
<1>3. /\ eol \in (c + 1)..d /\ \A i \in c..(eol - 1) : buf[i] # "\n"
      /\ \/ eol < d /\ buf[eol] = "\n"
         \/ eol = d /\ buf[eol] = NUL /\ eol = c + 2 /\ Prompt(buf, c)
  BY <1>1, NextLine
<1>4. /\ c \in Nat /\ d \in Nat /\ eol \in Nat /\ c < eol /\ eol <= d /\ eol \in Indices
      /\ d \in Indices /\ buf[d] = NUL /\ \A i \in c..(d - 1) : buf[i] # NUL
  BY <1>1, <1>3, Ranges DEF Data, Indices
<1>5. EndOfData(buf, eol) = d
  <2>1. Data(buf, eol, d)
    BY <1>4 DEF Data
  <2> QED BY <2>1, EndOfDataIs
<1>6. /\ out' = Append(out, line) /\ s_ATBuffer' = [buf EXCEPT ![eol] = NUL]
      /\ s_ATBufferCur' = eol + 1 /\ ends' = Append(ends, e)
      /\ seen' = IF buf[eol] = NUL THEN Append(bytes, "\n") ELSE bytes
      /\ buf[eol] = NUL => eol # MAX_AT_RESPONSE /\ buf[eol + 1] = NUL
  BY <1>5 DEF ReturnLine
<1>7. /\ last + (d - c) <= Len(bytes)
      /\ \A i \in c..(d - 1) : buf[i] = bytes[Len(bytes) - (d - i) + 1]
  BY <1>1 DEF Mirrors
<1>8. buf \in Buffers
  BY DEF Terminated
<1> HIDE DEF line, e
<1>9. CASE eol < d /\ buf[eol] = "\n"
  <2>1. seen' = bytes /\ buf[eol] # NUL
    BY <1>6, <1>9 DEF NUL
  <2>2. bytes[e] = "\n"
    <3>1. eol \in c..(d - 1) /\ Len(bytes) - (d - eol) + 1 = e
      BY <1>1, <1>4, <1>9 DEF e
    <3> QED BY <1>7, <1>9, <3>1
  <2>3. e \in Nat /\ line \in Seq(Bytes) /\ IsLine(bytes, g, last, e, line)
    BY <1>1, <1>2, <1>3, <2>2, LineInData DEF e, line
  <2>4. LinesOf(bytes, g, out', ends') /\ End(ends', Len(ends')) = e
    BY <1>1, <1>6, <2>3, LinesAppend DEF last
  <2>5. Data(s_ATBuffer', eol + 1, d)
    <3>1. eol + 1 \in Indices /\ eol + 1 <= d
      BY <1>4, <1>9, Ranges DEF Indices
    <3>2. s_ATBuffer'[d] = NUL
      BY <1>4, <1>6, <1>8, <1>9 DEF Buffers
    <3>3. ASSUME NEW i \in (eol + 1)..(d - 1) PROVE s_ATBuffer'[i] # NUL
      <4>1. i \in c..(d - 1) /\ i # eol /\ i \in Indices
        BY <1>4, Ranges DEF Indices
      <4> QED BY <1>4, <1>6, <1>8, <4>1 DEF Buffers
    <3> QED BY <1>4, <3>1, <3>2, <3>3 DEF Data
  <2>6. Mirrors(s_ATBuffer', eol + 1, d, bytes, g, e)
    <3>1. e + (d - (eol + 1)) = Len(bytes)
      BY <1>1, <1>4 DEF e
    <3>2. \A p \in (e + 1)..(Len(bytes) - (d - (eol + 1))) : FALSE
      BY <1>1, <1>4, <2>3, <3>1
    <3>3. ASSUME NEW i \in (eol + 1)..(d - 1)
          PROVE  s_ATBuffer'[i] = bytes[Len(bytes) - (d - i) + 1]
      <4>1. i \in c..(d - 1) /\ i # eol /\ i \in Indices
        BY <1>4, Ranges DEF Indices
      <4>2. s_ATBuffer'[i] = buf[i]
        BY <1>6, <1>8, <4>1 DEF Buffers
      <4> QED BY <1>7, <4>1, <4>2
    <3>4. e + (d - (eol + 1)) <= Len(bytes)
      BY <1>1, <3>1
    <3> QED BY <3>2, <3>3, <3>4 DEF Mirrors
  <2> QED BY <1>1, <1>4, <1>6, <2>1, <2>4, <2>5, <2>6 DEF Complete
<1>10. CASE eol = d /\ buf[eol] = NUL /\ eol = c + 2 /\ Prompt(buf, c)
  <2> DEFINE t == Append(bytes, "\n")
  <2>1. seen' = t /\ d # MAX_AT_RESPONSE /\ buf[d + 1] = NUL
    BY <1>6, <1>10
  <2>2. /\ t \in Seq(Bytes) /\ Len(t) = Len(bytes) + 1 /\ t[Len(bytes) + 1] = "\n"
        /\ \A p \in 1..Len(bytes) : t[p] = bytes[p]
    <3>1. "\n" \in Bytes
      BY DEF Bytes
    <3> QED BY <1>1, <3>1
  <2> HIDE DEF t
  <2>3. e = Len(bytes) + 1 /\ t[e] = "\n"
    BY <1>1, <1>4, <1>10, <2>2 DEF e
  <2>4. e \in Nat /\ line \in Seq(Bytes) /\ IsLine(t, g, last, e, line)
    BY <1>1, <1>2, <1>3, <2>2, <2>3, LineInData DEF e, line
  <2>5. LinesOf(t, g, out, ends)
    <3>1. last <= Len(bytes)
      BY <1>1, <1>2, <1>4, <1>7
    <3>2. \A p \in 1..last : t[p] = bytes[p]
      BY <1>1, <1>2, <2>2, <3>1
    <3> QED BY <1>1, <3>2, LinesLocal DEF last
  <2>6. LinesOf(t, g, out', ends') /\ End(ends', Len(ends')) = e
    BY <1>6, <2>4, <2>5, LinesAppend DEF last
  <2>7. d + 1 \in Indices /\ eol + 1 = d + 1
    BY <1>4, <1>10, <2>1, Ranges DEF Indices
  <2>8. s_ATBuffer'[d + 1] = NUL
    BY <1>4, <1>6, <1>8, <2>1, <2>7 DEF Buffers
  <2>9. Data(s_ATBuffer', d + 1, d + 1)
    BY <1>4, <2>7, <2>8 DEF Data
  <2>10. Mirrors(s_ATBuffer', d + 1, d + 1, t, g, e)
    BY <1>1, <1>4, <2>2, <2>3 DEF Mirrors
  <2>11. Gone(t, g)
    BY <1>1, <2>2 DEF Gone
  <2>12. line = SmsPrompt
    <3>1. c \in Indices /\ c <= eol /\ \A i \in c..(eol - 1) : buf[i] # NUL
      BY <1>1, <1>4 DEF Data
    <3>2. /\ line \in Seq(Bytes) /\ Len(line) = eol - c
          /\ \A k \in 1..(eol - c) : line[k] = buf[c + k - 1]
      BY <1>4, <1>8, <3>1, TextIs DEF line
    <3>3. eol - c = 2 /\ 1 \in 1..2 /\ 2 \in 1..2 /\ c + 1 - 1 = c /\ c + 2 - 1 = c + 1
      BY <1>4, <1>10
    <3>4. Len(line) = 2 /\ line[1] = ">" /\ line[2] = " "
      BY <1>10, <3>2, <3>3 DEF Prompt
    <3>5. /\ SmsPrompt \in Seq(Bytes) /\ Len(SmsPrompt) = 2
          /\ SmsPrompt[1] = ">" /\ SmsPrompt[2] = " "
      BY DEF SmsPrompt, Bytes
    <3>6. line[1] = SmsPrompt[1] /\ line[2] = SmsPrompt[2]
      BY <3>4, <3>5, Zenon
    <3>7. Len(line) = Len(SmsPrompt) /\ \A k \in 1..Len(line) : line[k] = SmsPrompt[k]
      <4>1. Len(line) = 2 /\ Len(SmsPrompt) = 2
        BY <3>4, <3>5, Zenon
      <4> QED BY <3>6, <4>1
    <3>8. SmsPrompt \in Seq(Bytes)
      BY <3>5
    <3> QED BY <3>2, <3>7, <3>8, SeqEqual
  <2>13. out' # <<>> /\ out'[Len(out')] = SmsPrompt
    <3>1. out \in Seq(Seq(Bytes)) /\ Len(out) \in Nat
      BY <1>1 DEF LinesOf
    <3> QED BY <1>6, <2>4, <2>12, <3>1
  <2>14. Complete(seen', g, out', ends', s_ATBuffer', s_ATBufferCur', d + 1)
    BY <1>6, <2>1, <2>2, <2>6, <2>7, <2>9, <2>10, <2>11 DEF Complete
  <2> QED BY <1>6, <2>7, <2>13, <2>14
<1> QED BY <1>3, <1>9, <1>10

\* Where in the buffer there are no data makes no difference.
LEMMA EmptyData ==
    ASSUME NEW s, NEW g, NEW o, NEW es, NEW buf, NEW c, NEW d, Complete(s, g, o, es, buf, c, d), c = d,
           NEW b, NEW i \in Indices, b[i] = NUL
    PROVE  Complete(s, g, o, es, b, i, i)
<1>1. i \in Nat /\ c \in Nat
  BY Ranges DEF Complete, Data
<1>2. Data(b, i, i)
  BY <1>1 DEF Data
<1>3. i - i = 0 /\ d - c = 0 /\ \A k \in i..(i - 1) : FALSE
  BY <1>1
<1>4. Mirrors(b, i, i, s, g, End(es, Len(es)))
  BY <1>3 DEF Complete, Mirrors
<1> QED BY <1>2, <1>4 DEF Complete

LEMMA LineInit == Init => LineInv
<1> SUFFICES ASSUME Init PROVE LineInv
  OBVIOUS
<1>1. /\ s_ATBuffer = [i \in Indices |-> NUL] /\ s_ATBufferCur = 0 /\ p_read = 0 /\ pc = "call"
      /\ out = <<>> /\ seen = <<>> /\ ends = <<>> /\ ditched = {}
  BY DEF Init, Indices
<1>2. Data(s_ATBuffer, 0, 0)
  BY <1>1, Ranges DEF Data
<1>3. LinesOf(seen, ditched, out, ends)
  BY <1>1 DEF LinesOf
<1>4. Mirrors(s_ATBuffer, 0, 0, seen, ditched, End(ends, Len(ends)))
  BY <1>1 DEF Mirrors, End
<1>5. Complete(seen, ditched, out, ends, s_ATBuffer, s_ATBufferCur, 0)
  BY <1>1, <1>2, <1>3, <1>4 DEF Complete, Gone
<1> QED BY <1>1, <1>5, Ranges DEF LineInv, AtEnd

LEMMA ReadlineLines ==
    ASSUME IInv, LineInv, readline
    PROVE  LineInv'
<1> SUFFICES ASSUME ~strayed' PROVE LineInv'
  BY DEF LineInv
<1> DEFINE buf == s_ATBuffer
           cur == s_ATBufferCur
<1>1. ~strayed
  BY DEF readline, KeepPartial, ReturnLine
<1>2. PICK d \in Indices : Complete(seen, ditched, out, ends, buf, cur, d) /\ AtEnd(d)
  BY <1>1 DEF LineInv
<1>2a. ditched' = ditched
  BY DEF readline
<1>3. Terminated(buf) /\ buf \in Buffers
  BY DEF IInv, Terminated
<1>4. CASE buf[cur] = NUL
  <2>1. /\ s_ATBufferCur' = 0 /\ p_read' = 0 /\ s_ATBuffer' = [buf EXCEPT ![0] = NUL]
        /\ UNCHANGED <<out, seen, ends>>
    BY <1>4 DEF readline
  <2>2. cur = d
    <3>1. cur \in Nat /\ d \in Nat /\ cur <= d /\ \A i \in cur..(d - 1) : buf[i] # NUL
      BY <1>2, Ranges DEF Complete, Data
    <3> QED BY <1>4, <3>1
  <2>3. s_ATBuffer'[0] = NUL
    BY <1>3, <2>1, Ranges DEF Buffers
  <2>4. Complete(seen, ditched, out, ends, s_ATBuffer', 0, 0)
    BY <1>2, <2>2, <2>3, Ranges, EmptyData
  <2>5. Complete(seen', ditched', out', ends', s_ATBuffer', s_ATBufferCur', 0)
    BY <1>2a, <2>1, <2>4
  <2>6. \A i \in 0..(0 - 1) : FALSE
    OBVIOUS
  <2> QED BY <2>1, <2>5, <2>6, Ranges DEF LineInv, AtEnd
<1>5. CASE buf[cur] # NUL
  <2> DEFINE c == SkipNewlines(buf, cur)
             eol == findNextEOL(buf, c)
  <2>1. buf[c] # "\n" /\ Complete(seen, ditched, out, ends, buf, c, d)
    BY <1>2, <1>3, SkipData
  <2> HIDE DEF c
  <2>2. CASE eol = None
    <3> DEFINE len == d - c
    <3>1. EndOfData(buf, c) = d
      BY <2>1, EndOfDataIs DEF Complete
    <3>2. KeepPartial(c)
      BY <1>5, <2>2 DEF readline, c
    <3>3. /\ s_ATBuffer' = MovedUp(buf, c, len) /\ s_ATBufferCur' = 0 /\ p_read' = len
          /\ UNCHANGED <<out, seen, ends>>
      BY <3>1, <3>2 DEF KeepPartial
    <3>4. /\ c \in Nat /\ d \in Nat /\ c <= d /\ len \in Nat /\ len \in Indices /\ buf[d] = NUL
          /\ \A i \in c..(d - 1) : buf[i] # NUL
      BY <2>1, Ranges DEF Complete, Data, Indices
    <3>5. ASSUME NEW i \in 0..len PROVE s_ATBuffer'[i] = buf[c + i]
      <4>1. i \in 0..MAX_AT_RESPONSE /\ i <= len
        BY <3>4, Ranges DEF Indices
      <4> QED BY <3>3, <4>1 DEF MovedUp
    <3>6. s_ATBuffer'[len] = NUL /\ c + len = d
      BY <3>4, <3>5
    <3>7. \A i \in 0..(len - 1) : i \in 0..len /\ c + i \in c..(d - 1)
      BY <3>4
    <3>8. Data(s_ATBuffer', 0, len)
      BY <3>4, <3>5, <3>6, <3>7, Ranges DEF Data
    <3>9. Mirrors(s_ATBuffer', 0, len, seen, ditched, End(ends, Len(ends)))
      <4>1. Mirrors(buf, c, d, seen, ditched, End(ends, Len(ends))) /\ len - 0 = d - c
        BY <2>1, <3>4 DEF Complete
      <4>2. ASSUME NEW i \in 0..(len - 1)
            PROVE  s_ATBuffer'[i] = seen[Len(seen) - (len - i) + 1]
        <5>1. d - (c + i) = len - i
          BY <3>4
        <5>2. buf[c + i] = seen[Len(seen) - (d - (c + i)) + 1]
          BY <3>7, <4>1 DEF Mirrors
        <5> QED BY <3>5, <3>7, <5>1, <5>2
      <4> HIDE DEF len
      <4> QED BY <4>1, <4>2 DEF Mirrors
    <3>10. Complete(seen, ditched, out, ends, s_ATBuffer', 0, len)
      BY <2>1, <3>8, <3>9 DEF Complete
    <3>11. \A i \in 0..(len - 1) : s_ATBuffer'[i] # "\n"
      <4>1. \A i \in c..(d - 1) : buf[i] # "\n"
        BY <1>3, <2>1, <2>2, NoLine DEF Complete
      <4> QED BY <3>5, <3>7, <4>1
    <3>12. Complete(seen', ditched', out', ends', s_ATBuffer', s_ATBufferCur', len)
      BY <1>2a, <3>3, <3>10
    <3> HIDE DEF len
    <3> QED BY <3>3, <3>4, <3>11, <3>12 DEF LineInv, AtEnd
  <2>3. CASE eol # None
    <3>1. ReturnLine(buf, c, eol, seen)
      BY <1>5, <2>3 DEF readline, c
    <3>2. d = p_read /\ p_read' = p_read
      <4>1. cur # d
        BY <1>2, <1>5 DEF Complete, Data
      <4> QED BY <1>2, <1>5, <2>3, <4>1 DEF AtEnd, readline, c
    <3>3. \E dd \in Indices :
             /\ Complete(seen', ditched, out', ends', s_ATBuffer', s_ATBufferCur', dd)
             /\ dd = d \/ /\ dd = d + 1 /\ s_ATBufferCur' = dd
                          /\ out' # <<>> /\ out'[Len(out')] = SmsPrompt
      BY <1>3, <2>1, <2>3, <3>1, ReturnComplete
    <3>4. pc' = "call"
      BY <3>1 DEF ReturnLine
    <3> QED BY <1>2a, <3>2, <3>3, <3>4 DEF LineInv, AtEnd
  <2> QED BY <2>2, <2>3
<1> QED BY <1>4, <1>5

\* read() adds bytes to the data.
LEMMA ReadMore ==
    ASSUME NEW old, NEW cur \in Nat, NEW start \in Nat, cur <= start, NEW k \in Nat,
           NEW str \in Seq(Bytes), k <= Len(str), start + k \in Indices,
           NEW s \in Seq(Bytes), NEW g, Gone(s, g), NEW o, NEW es, LinesOf(s, g, o, es),
           Mirrors(old, cur, start, s, g, End(es, Len(es))),
           \A i \in cur..(start - 1) : old[i] # NUL,
           NEW b, b[start + k] = NUL,
           \A i \in cur..(start - 1) : b[i] = old[i],
           \A i \in start..(start + k - 1) : b[i] = str[i - start + 1]
    PROVE  Complete(s \o SubSeq(str, 1, k), g, o, es, b, cur, start + k)
<1> DEFINE t == s \o SubSeq(str, 1, k)
           last == End(es, Len(es))
<1>1. last \in Nat /\ Len(s) \in Nat
  <2>1. es \in Seq(Nat)
    BY DEF LinesOf
  <2>2. Len(es) \in 0..Len(es)
    BY <2>1
  <2> QED BY <2>1, <2>2, EndType
<1>2. /\ t \in Seq(Bytes) /\ Len(t) = Len(s) + k
      /\ \A p \in 1..Len(s) : t[p] = s[p]
      /\ \A j \in 1..k : t[Len(s) + j] = str[j]
  <2> DEFINE new == SubSeq(str, 1, k)
  <2>1. new \in Seq(Bytes) /\ Len(new) = k /\ \A j \in 1..k : new[j] = str[j]
    OBVIOUS
  <2> HIDE DEF new
  <2>2. /\ s \o new \in Seq(Bytes) /\ Len(s \o new) = Len(s) + k
        /\ \A p \in 1..Len(s) : (s \o new)[p] = s[p]
        /\ \A j \in 1..k : (s \o new)[Len(s) + j] = new[j]
    <3>1. /\ s \o new \in Seq(Bytes) /\ Len(s \o new) = Len(s) + Len(new)
          /\ \A p \in 1..(Len(s) + Len(new)) :
                (s \o new)[p] = IF p <= Len(s) THEN s[p] ELSE new[p - Len(s)]
      <4>1. s \in Seq(Bytes) /\ new \in Seq(Bytes)
        BY <2>1
      <4> QED BY <4>1, ConcatProperties
    <3>2. \A j \in 1..k : /\ Len(s) + j \in 1..(Len(s) + k) /\ ~(Len(s) + j <= Len(s))
                          /\ Len(s) + j - Len(s) = j
      BY <1>1
    <3>3. \A p \in 1..Len(s) : p \in 1..(Len(s) + k) /\ p <= Len(s)
      BY <1>1
    <3>4. ASSUME NEW j \in 1..k PROVE (s \o new)[Len(s) + j] = new[j]
      BY <2>1, <3>1, <3>2
    <3> QED BY <2>1, <3>1, <3>3, <3>4
  <2> QED BY <2>1, <2>2 DEF new
<1> HIDE DEF t
<1>3. /\ last + (start - cur) <= Len(s)
      /\ \A p \in (last + 1)..(Len(s) - (start - cur)) : s[p] = "\n" \/ p \in g
      /\ \A i \in cur..(start - 1) : old[i] = s[Len(s) - (start - i) + 1]
  BY DEF Mirrors
<1>4. LinesOf(t, g, o, es)
  <2>1. last <= Len(s)
    BY <1>1, <1>3
  <2>2. \A p \in 1..last : t[p] = s[p]
    BY <1>1, <1>2, <2>1
  <2> QED BY <2>2, LinesLocal
<1> HIDE DEF last
<1>5. ASSUME NEW i \in cur..(start + k - 1)
      PROVE  b[i] # NUL /\ b[i] = t[Len(t) - (start + k - i) + 1]
  <2>1. CASE i < start
    <3>1. /\ i \in cur..(start - 1) /\ Len(t) - (start + k - i) + 1 = Len(s) - (start - i) + 1
          /\ Len(s) - (start - i) + 1 \in 1..Len(s)
      BY <1>1, <1>2, <1>3, <2>1
    <3> QED BY <1>2, <1>3, <3>1
  <2>2. CASE i >= start
    <3> DEFINE j == i - start + 1
    <3>1. /\ i \in start..(start + k - 1) /\ j \in 1..k /\ j \in 1..Len(str)
          /\ Len(t) - (start + k - i) + 1 = Len(s) + j
      BY <1>1, <1>2, <2>2
    <3>2. b[i] = str[j]
      BY <3>1
    <3> HIDE DEF j
    <3>3. str[j] \in Bytes
      BY <3>1
    <3>4. str[j] # NUL
      BY <3>3 DEF Bytes, NUL
    <3> QED BY <1>2, <3>1, <3>2, <3>4
  <2> QED BY <2>1, <2>2
<1>6. Data(b, cur, start + k)
  BY <1>5, Ranges DEF Data, Indices
<1>7. Mirrors(b, cur, start + k, t, g, last)
  <2>1. Len(t) - (start + k - cur) = Len(s) - (start - cur)
    BY <1>1, <1>2
  <2>2. last + (start + k - cur) <= Len(t)
    BY <1>1, <1>2, <1>3
  <2>3. ASSUME NEW p \in (last + 1)..(Len(t) - (start + k - cur)) PROVE t[p] = "\n" \/ p \in g
    <3>1. p \in (last + 1)..(Len(s) - (start - cur)) /\ p \in 1..Len(s)
      BY <1>1, <2>1
    <3> QED BY <1>2, <1>3, <3>1
  <2> QED BY <1>5, <2>2, <2>3 DEF Mirrors
<1>8. Gone(t, g)
  BY <1>1, <1>2 DEF Gone
<1> QED BY <1>2, <1>4, <1>6, <1>7, <1>8 DEF Complete, t, last

\* Ditching a full buffer loses what is in it, no line end and no line that was returned.
LEMMA DitchedData ==
    ASSUME Complete(seen, ditched, out, ends, s_ATBuffer, s_ATBufferCur, p_read), Full, Ditch,
           \A i \in s_ATBufferCur..(p_read - 1) : s_ATBuffer[i] # "\n"
    PROVE  /\ LinesOf(seen, ditched', out, ends) /\ Gone(seen, ditched')
           /\ \A b : Mirrors(b, 0, 0, seen, ditched', End(ends, Len(ends)))
<1> DEFINE last == End(ends, Len(ends))
           n == Len(seen) - (p_read - s_ATBufferCur)
           g == ditched
<1>1. /\ seen \in Seq(Bytes) /\ LinesOf(seen, g, out, ends) /\ Gone(seen, g)
      /\ Mirrors(s_ATBuffer, s_ATBufferCur, p_read, seen, g, last)
  BY DEF Complete
<1>2. s_ATBufferCur \in Nat /\ p_read \in Nat /\ s_ATBufferCur <= p_read
  BY Ranges DEF Complete, Data
<1>3. last \in Nat
  <2>1. ends \in Seq(Nat)
    BY <1>1 DEF LinesOf
  <2>2. Len(ends) \in 0..Len(ends)
    BY <2>1
  <2> QED BY <2>1, <2>2, EndType
<1>4. /\ last + (p_read - s_ATBufferCur) <= Len(seen) /\ Len(seen) \in Nat
      /\ \A p \in (last + 1)..n : seen[p] = "\n" \/ p \in g
      /\ \A i \in s_ATBufferCur..(p_read - 1) : s_ATBuffer[i] = seen[Len(seen) - (p_read - i) + 1]
  BY <1>1 DEF Mirrors
<1> HIDE DEF last
<1>5. ditched' = g \cup ((n + 1)..Len(seen))
  BY DEF Ditch
<1>6. n \in Nat /\ n <= Len(seen) /\ last <= n
  BY <1>2, <1>3, <1>4
<1>7. LinesOf(seen, ditched', out, ends)
  BY <1>1, <1>5, LinesLocal
<1>8. ASSUME NEW p \in (n + 1)..Len(seen) PROVE p \in 1..Len(seen) /\ seen[p] # "\n"
  <2> DEFINE i == p - 1 - Len(seen) + p_read
  <2>1. i \in s_ATBufferCur..(p_read - 1) /\ Len(seen) - (p_read - i) + 1 = p
    BY <1>2, <1>4, <1>6
  <2> HIDE DEF i
  <2>2. s_ATBuffer[i] = seen[p] /\ s_ATBuffer[i] # "\n"
    BY <1>4, <2>1
  <2>3. p \in 1..Len(seen)
    BY <1>4, <1>6
  <2> QED BY <2>2, <2>3
<1> HIDE DEF n
<1>9. Gone(seen, ditched')
  BY <1>1, <1>5, <1>8 DEF Gone
<1>10. \A p \in (last + 1)..Len(seen) : seen[p] = "\n" \/ p \in ditched'
  <2> SUFFICES ASSUME NEW p \in (last + 1)..Len(seen)
               PROVE  seen[p] = "\n" \/ p \in ditched'
    OBVIOUS
  <2>1. p \in (last + 1)..n \/ p \in (n + 1)..Len(seen)
    BY <1>3, <1>4, <1>6
  <2> QED BY <1>4, <1>5, <2>1
<1>11. ASSUME NEW b PROVE Mirrors(b, 0, 0, seen, ditched', last)
  <2>1. Len(seen) - (0 - 0) = Len(seen) /\ last + (0 - 0) <= Len(seen) /\ 0..(0 - 1) = {}
    BY <1>3, <1>4, <1>6
  <2> QED BY <1>10, <2>1 DEF Mirrors
<1> QED BY <1>7, <1>9, <1>11 DEF last

LEMMA ReadChunkLines ==
    ASSUME IInv, LineInv, ReadChunk
    PROVE  LineInv'
<1> SUFFICES ASSUME ~strayed' PROVE LineInv'
  BY DEF LineInv
<1> DEFINE start == IF Full THEN 0 ELSE p_read
           cur   == IF Full THEN 0 ELSE s_ATBufferCur
           buf(k) == Stored(s_ATBuffer, start, stream, k)
<1>1. PICK k \in 1..Len(stream) :
        /\ k <= Room(start)
        /\ LET c     == SkipNewlines(buf(k), cur)
               eol   == findNextEOL(buf(k), c)
               bytes == seen \o SubSeq(stream, 1, k)
           IN  /\ IF eol = None
                  THEN /\ s_ATBuffer' = buf(k) /\ s_ATBufferCur' = c
                       /\ seen' = bytes /\ UNCHANGED <<out, pc, ends, strayed>>
                  ELSE ReturnLine(buf(k), c, eol, bytes)
               /\ p_read' = start + k
               /\ stream' = SubSeq(stream, k + 1, Len(stream))
  BY DEF ReadChunk
<1>2. ~strayed /\ pc = "read"
  BY <1>1 DEF ReadChunk, ReturnLine
<1>3. /\ Complete(seen, ditched, out, ends, s_ATBuffer, s_ATBufferCur, p_read)
      /\ \A i \in s_ATBufferCur..(p_read - 1) : s_ATBuffer[i] # "\n"
  BY <1>2 DEF LineInv
<1>3a. Ditch
  BY DEF ReadChunk
<1>4. /\ start \in Indices /\ cur \in Nat /\ cur <= start /\ k \in Nat /\ k > 0
      /\ start + k \in Indices /\ start \in Nat /\ k <= Len(stream)
  BY <1>1, <1>2, Ranges DEF Full, Room, IInv, ReadInv, TypeInv, Indices
<1>5. stream \in Seq(Bytes) /\ s_ATBuffer \in Buffers /\ s_ATBuffer[MAX_AT_RESPONSE] = NUL
  BY DEF IInv, TypeInv, Terminated
<1> DEFINE last == End(ends, Len(ends))
<1>6. /\ seen \in Seq(Bytes) /\ LinesOf(seen, ditched', out, ends) /\ Gone(seen, ditched')
      /\ Mirrors(s_ATBuffer, cur, start, seen, ditched', last)
      /\ \A i \in cur..(start - 1) : s_ATBuffer[i] # NUL
  <2>0. seen \in Seq(Bytes)
    BY <1>3 DEF Complete
  <2>1. CASE ~Full
    <3>1. ditched' = ditched
      BY <1>3a, <2>1 DEF Ditch
    <3> QED BY <1>3, <2>1, <3>1 DEF Complete, Data
  <2>2. CASE Full
    <3>1. \A i \in cur..(start - 1) : FALSE
      BY <2>2
    <3> QED BY <1>3, <1>3a, <2>0, <2>2, <3>1, DitchedData
  <2> QED BY <2>1, <2>2
<1> HIDE DEF start, cur
<1>7. buf(k) \in Buffers /\ buf(k)[start + k] = NUL /\ buf(k)[MAX_AT_RESPONSE] = NUL
  BY <1>1, <1>4, <1>5, ChunkTerminated DEF Terminated
<1>8. /\ \A i \in cur..(start - 1) : buf(k)[i] = s_ATBuffer[i]
      /\ \A i \in start..(start + k - 1) : buf(k)[i] = stream[i - start + 1]
  <2>1. ASSUME NEW i \in cur..(start - 1)
        PROVE  i \in 0..MAX_AT_RESPONSE /\ i \notin start..(start + k - 1) /\ i # start + k
    BY <1>4, Ranges DEF Indices
  <2>2. ASSUME NEW i \in start..(start + k - 1) PROVE i \in 0..MAX_AT_RESPONSE
    BY <1>4, Ranges DEF Indices
  <2> QED BY <2>1, <2>2 DEF Stored
<1> DEFINE b == buf(k)
           bytes == seen \o SubSeq(stream, 1, k)
           c == SkipNewlines(b, cur)
           eol == findNextEOL(b, c)
<1>9. /\ \/ /\ eol = None /\ s_ATBuffer' = b /\ s_ATBufferCur' = c
            /\ seen' = bytes /\ UNCHANGED <<out, ends>>
         \/ eol # None /\ ReturnLine(b, c, eol, bytes)
      /\ p_read' = start + k
  BY <1>1
<1>10. Terminated(b) /\ Complete(bytes, ditched', out, ends, b, cur, start + k)
  <2>1. Terminated(b) /\ b[start + k] = NUL
    BY <1>7 DEF Terminated
  <2> HIDE DEF b
  <2> QED BY <1>4, <1>5, <1>6, <1>8, <2>1, ReadMore DEF b
<1> HIDE DEF b, bytes
<1>11. b[c] # "\n" /\ Complete(bytes, ditched', out, ends, b, c, start + k)
  BY <1>10, SkipData
<1> HIDE DEF c
<1>12. CASE eol = None
  <2>1. PICK n : n = start + k
    OBVIOUS
  <2>2. /\ Complete(seen', ditched', out', ends', s_ATBuffer', s_ATBufferCur', n)
        /\ s_ATBuffer' = b /\ s_ATBufferCur' = c
    BY <1>9, <1>11, <1>12, <2>1
  <2>3. n \in Indices /\ p_read' = n
    BY <1>4, <1>9, <2>1
  <2>4. Data(b, c, n) /\ Terminated(b) /\ findNextEOL(b, c) = None
    BY <1>10, <1>11, <1>12, <2>1 DEF Complete
  <2>5. \A i \in c..(n - 1) : b[i] # "\n"
    BY <2>4, NoLine
  <2>6. \A i \in s_ATBufferCur'..(n - 1) : s_ATBuffer'[i] # "\n"
    BY <2>2, <2>5
  <2>7. AtEnd(n)'
    BY <2>3 DEF AtEnd
  <2> QED BY <2>2, <2>3, <2>6, <2>7 DEF LineInv
<1>13. CASE eol # None
  <2>1. ReturnLine(b, c, eol, bytes)
    BY <1>9, <1>13
  <2>2. \E dd \in Indices :
           /\ Complete(seen', ditched', out', ends', s_ATBuffer', s_ATBufferCur', dd)
           /\ dd = start + k \/ /\ dd = start + k + 1 /\ s_ATBufferCur' = dd
                                /\ out' # <<>> /\ out'[Len(out')] = SmsPrompt
    BY <1>10, <1>11, <1>13, <2>1, ReturnComplete
  <2>3. pc' = "call"
    BY <2>1 DEF ReturnLine
  <2> QED BY <1>9, <2>2, <2>3 DEF LineInv, AtEnd
<1> QED BY <1>12, <1>13

LEMMA ReadEOFLines ==
    ASSUME IInv, LineInv, ReadEOF
    PROVE  LineInv'
<1> SUFFICES ASSUME ~strayed PROVE LineInv'
  BY DEF LineInv, ReadEOF
<1>1. /\ Complete(seen, ditched, out, ends, s_ATBuffer, s_ATBufferCur, p_read)
      /\ \A i \in s_ATBufferCur..(p_read - 1) : s_ATBuffer[i] # "\n"
      /\ p_read \in Indices /\ s_ATBuffer \in Buffers
      /\ pc' = "closed" /\ Ditch /\ UNCHANGED <<out, seen, ends>>
  BY DEF LineInv, ReadEOF, IInv, TypeInv
<1>2. CASE Full
  <2>1. s_ATBuffer' = [s_ATBuffer EXCEPT ![0] = NUL] /\ s_ATBufferCur' = 0 /\ p_read' = 0
    BY <1>2 DEF ReadEOF
  <2>2. s_ATBuffer'[0] = NUL
    BY <1>1, <2>1, Ranges DEF Buffers
  <2>3. Data(s_ATBuffer', 0, 0)
    BY <2>2, Ranges DEF Data
  <2>4. Complete(seen', ditched', out', ends', s_ATBuffer', 0, 0)
    BY <1>1, <1>2, <2>3, DitchedData DEF Complete
  <2> QED BY <1>1, <2>1, <2>4, Ranges DEF LineInv, AtEnd
<1>3. CASE ~Full
  <2>1. ditched' = ditched
    BY <1>1, <1>3 DEF Ditch
  <2> QED BY <1>1, <1>3, <2>1 DEF ReadEOF, LineInv, AtEnd
<1> QED BY <1>2, <1>3

LEMMA LineInvariant == Spec => []LineInv
<1>1. IInv /\ LineInv /\ [Next]_vars => LineInv'
  <2> SUFFICES ASSUME IInv, LineInv, [Next]_vars
               PROVE  LineInv'
    OBVIOUS
  <2>1. CASE readline
    BY <2>1, ReadlineLines
  <2>2. CASE ReadChunk
    BY <2>2, ReadChunkLines
  <2>3. CASE ReadEOF
    BY <2>3, ReadEOFLines
  <2>4. CASE at_open
    BY <2>4 DEF at_open, LineInv, AtEnd
  <2>5. CASE UNCHANGED vars
    BY <2>5 DEF vars, LineInv, AtEnd
  <2> QED BY <2>1, <2>2, <2>3, <2>4, <2>5 DEF Next
<1> QED BY <1>1, LineInit, Invariant, PTL DEF Spec

\* However read() cuts the stream, readline() returns what stands between the line ends of
\* all that was read, once each and in order, and what has been read beyond that is still in
\* the buffer.  Only bytes ditched with a full buffer are missing, and no line end is among
\* them; what a lost session left unfinished is the head of the next session's first line.
\* Not so after a prompt has left the cursor on an old byte.  For every size of the buffer
\* and every stream.
THEOREM LinesCorrect == Spec => []NoLineLostOrCut
<1>1. IInv /\ LineInv => NoLineLostOrCut
  <2> DEFINE g == ditched
             c == s_ATBufferCur
  <2> SUFFICES ASSUME IInv, LineInv, ~strayed
               PROVE  /\ \A n \in 1..Len(out) : IsLine(seen, g, LineEnd(n - 1), ends[n], out[n])
                      /\ Follows(seen, g, LineEnd(Len(out)), Len(seen), Unconsumed)
                      /\ \A p \in g : seen[p] # "\n"
    BY DEF NoLineLostOrCut
  <2>1. PICK d \in Indices : Complete(seen, g, out, ends, s_ATBuffer, c, d)
    BY DEF LineInv
  <2>2. /\ LinesOf(seen, g, out, ends) /\ Data(s_ATBuffer, c, d) /\ seen \in Seq(Bytes)
        /\ \A p \in g : seen[p] # "\n"
        /\ Mirrors(s_ATBuffer, c, d, seen, g, LineEnd(Len(ends)))
    BY <2>1 DEF Complete, Gone, End, LineEnd
  <2>3. /\ \A n \in 1..Len(out) : IsLine(seen, g, LineEnd(n - 1), ends[n], out[n])
        /\ Len(ends) = Len(out)
    BY <2>2 DEF LinesOf, End, LineEnd
  <2>4. Unconsumed = Text(s_ATBuffer, c, d)
    BY <2>2, EndOfDataIs DEF Unconsumed
  <2>5. c \in Nat /\ d \in Nat /\ c <= d /\ c \in Indices /\ \A i \in c..(d - 1) : s_ATBuffer[i] # NUL
    BY <2>2, Ranges DEF Data
  <2>6. /\ Len(Unconsumed) = d - c
        /\ \A k \in 1..(d - c) : /\ Unconsumed[k] = s_ATBuffer[c + k - 1]
                                  /\ c + k - 1 \in c..(d - 1)
    BY <2>4, <2>5, TextIs DEF IInv, TypeInv
  <2>7. ASSUME NEW k \in 1..(d - c)
        PROVE  seen[Len(seen) - (d - c) + k] = Unconsumed[k]
    <3>1. s_ATBuffer[c + k - 1] = seen[Len(seen) - (d - (c + k - 1)) + 1]
      BY <2>2, <2>6 DEF Mirrors
    <3>2. Len(seen) - (d - (c + k - 1)) + 1 = Len(seen) - (d - c) + k
      BY <2>2, <2>5
    <3> QED BY <2>6, <3>1, <3>2
  <2>8. Follows(seen, g, LineEnd(Len(ends)), Len(seen), Unconsumed)
    BY <2>2, <2>6, <2>7 DEF Follows, Mirrors
  <2> QED BY <2>2, <2>3, <2>8
<1> QED BY <1>1, LineInvariant, Invariant, PTL

\* read() stores inside s_ATBuffer and its data are terminated, whatever the modem sends,
\* however read() cuts it and however often the port is reopened.  The cursor is not past the
\* data but for the byte after a prompt just returned; only after a prompt has left it on an
\* old byte, or on none, may it be one past the buffer, and never more than that.
THEOREM BufferCorrect == Spec => []StaysInBuffer
<1>1. IInv /\ LineInv => StaysInBuffer
  <2> SUFFICES ASSUME IInv, LineInv PROVE StaysInBuffer
    OBVIOUS
  <2>1. /\ p_read \in 0..MAX_AT_RESPONSE /\ s_ATBuffer[p_read] = NUL
        /\ pc = "read" => s_ATBufferCur <= p_read
        /\ s_ATBufferCur \in 0..(MAX_AT_RESPONSE + 1)
    BY Ranges DEF IInv, TypeInv, CursorInv, ReadInv, Indices
  <2>2. ASSUME ~strayed
        PROVE  \/ s_ATBufferCur <= p_read
               \/ /\ s_ATBufferCur = p_read + 1 /\ s_ATBufferCur <= MAX_AT_RESPONSE
                  /\ out # <<>> /\ out[Len(out)] = SmsPrompt
    <3>1. PICK d \in Indices : Data(s_ATBuffer, s_ATBufferCur, d) /\ AtEnd(d)
      BY <2>2 DEF LineInv, Complete
    <3> QED BY <3>1, Ranges DEF Data, AtEnd, Indices
  <2> QED BY <2>1, <2>2 DEF StaysInBuffer
<1> QED BY <1>1, LineInvariant, Invariant, PTL

===========================================================================
