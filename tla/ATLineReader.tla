---------------------------- MODULE ATLineReader ----------------------------
(***************************************************************************)
(* readline() of fwril-100/atchannel.c: how the reader thread cuts the     *)
(* modem's byte stream into lines in the static buffer s_ATBuffer.         *)
(*                                                                         *)
(* The bytes matter here, since what may go wrong depends on where read()  *)
(* happens to split the stream: "\n" stands for CR and LF, ">" and " " are *)
(* the characters of the SMS prompt.                                       *)
(***************************************************************************)
EXTENDS Naturals, Sequences

CONSTANTS
    MAX_AT_RESPONSE,  \* size of s_ATBuffer, less its terminator
    Streams,          \* byte streams a modem session may send
    MaxSessions       \* bound: calls of at_open

NUL == "NUL"
Bytes == {"a", "b", "\n", ">", " "}

ASSUME SizeAssumption == MAX_AT_RESPONSE \in Nat \ {0} /\ MaxSessions \in Nat
ASSUME StreamsAssumption == Streams \subseteq Seq(Bytes)

VARIABLES
    s_ATBuffer,     \* the bytes of the buffer, old ones included
    s_ATBufferCur,  \* index of the first byte not yet consumed
    p_read,         \* index where the next read() stores
    pc,             \* "call": between calls; "read": in the while loop; "closed"
    stream,         \* bytes the modem will still send
    out,            \* lines returned so far
    seen,           \* history: all bytes read, of one session after the other; a prompt
                    \* that was taken for a line has a line end after it
    ditched,        \* history: positions in seen of the bytes ditched with a full buffer
    ends,           \* history: where in seen each line of out ended
    strayed,        \* history: after a prompt the cursor was left on an old byte
    sessions

vars == <<s_ATBuffer, s_ATBufferCur, p_read, pc, stream, out, seen, ditched, ends, strayed,
          sessions>>

Init ==
    /\ s_ATBuffer = [i \in 0..MAX_AT_RESPONSE |-> NUL]
    /\ s_ATBufferCur = 0 /\ p_read = 0
    /\ pc = "call"
    /\ stream \in Streams
    /\ out = <<>> /\ seen = <<>> /\ ditched = {} /\ ends = <<>> /\ strayed = FALSE
    /\ sessions = 1

-----------------------------------------------------------------------------
(* The first index from i on whose byte is in S: every loop of readline     *)
(* scans for one, and the terminator ends it.                               *)
Scan(buf, i, S) == CHOOSE j \in i..MAX_AT_RESPONSE :
                       buf[j] \in S /\ \A k \in i..(j - 1) : buf[k] \notin S

SkipNewlines(buf, i) == Scan(buf, i, (Bytes \cup {NUL}) \ {"\n"})
EndOfData(buf, i)    == Scan(buf, i, {NUL})
Text(buf, i, j)      == [k \in 1..(j - i) |-> buf[i + k - 1]]

None == MAX_AT_RESPONSE + 1

(* Index of the end of the line that starts at cur, None if incomplete.     *)
findNextEOL(buf, cur) ==
    IF buf[cur] = ">" /\ buf[cur + 1] = " " /\ buf[cur + 2] = NUL THEN cur + 2
    ELSE LET e == Scan(buf, cur, {"\n", NUL}) IN IF buf[e] = NUL THEN None ELSE e

(* A complete line buf[c..eol-1]: terminate it, step over it, return it.    *)
(* The end of a prompt is the terminator itself: the cursor is then past    *)
(* the data, where there may be a byte of an earlier chunk, or past the     *)
(* buffer.  bytes is what has been seen of the stream.                      *)
ReturnLine(buf, c, eol, bytes) ==
    /\ out' = Append(out, Text(buf, c, eol))
    /\ s_ATBuffer' = [buf EXCEPT ![eol] = NUL]
    /\ s_ATBufferCur' = eol + 1
    /\ pc' = "call"
    /\ seen' = IF buf[eol] = NUL THEN Append(bytes, "\n") ELSE bytes
    /\ ends' = Append(ends, Len(bytes) + 1 - (EndOfData(buf, eol) - eol))
    /\ strayed' = \/ strayed
                  \/ buf[eol] = NUL /\ (eol = MAX_AT_RESPONSE \/ buf[eol + 1] # NUL)

(* memmove of the partial line to the start of the buffer. *)
MovedUp(buf, c, len) == [i \in 0..MAX_AT_RESPONSE |-> IF i <= len THEN buf[c + i] ELSE buf[i]]

(* Faulty variant: the next read() would keep the terminator. *)
KeepPartialAndNul(c) ==
    LET len == EndOfData(s_ATBuffer, c) - c
    IN  /\ s_ATBuffer' = MovedUp(s_ATBuffer, c, len)
        /\ s_ATBufferCur' = 0 /\ p_read' = len + 1
        /\ pc' = "read" /\ UNCHANGED <<out, seen, ends, strayed>>

(* "a partial line. move it up and prepare to read more" *)
KeepPartial(c) ==
    LET len == EndOfData(s_ATBuffer, c) - c
    IN  /\ s_ATBuffer' = MovedUp(s_ATBuffer, c, len)
        /\ s_ATBufferCur' = 0 /\ p_read' = len
        /\ pc' = "read" /\ UNCHANGED <<out, seen, ends, strayed>>

(* Faulty variant: only the first line of what a read() gave is returned.   *)
readlineFresh ==
    /\ pc = "call" /\ s_ATBufferCur <= MAX_AT_RESPONSE
    /\ s_ATBufferCur' = 0 /\ p_read' = 0
    /\ s_ATBuffer' = [s_ATBuffer EXCEPT ![0] = NUL]
    /\ pc' = "read" /\ UNCHANGED <<stream, out, seen, ditched, ends, strayed, sessions>>

(* Entry of readline: what the last read() left behind.  (Past the buffer   *)
(* there is memory of which nothing is known.)                              *)
readline ==
    /\ pc = "call" /\ s_ATBufferCur <= MAX_AT_RESPONSE
    /\ IF s_ATBuffer[s_ATBufferCur] = NUL
       THEN /\ s_ATBufferCur' = 0 /\ p_read' = 0
            /\ s_ATBuffer' = [s_ATBuffer EXCEPT ![0] = NUL]
            /\ pc' = "read" /\ UNCHANGED <<out, seen, ends, strayed>>
       ELSE LET c   == SkipNewlines(s_ATBuffer, s_ATBufferCur)
                eol == findNextEOL(s_ATBuffer, c)
            IN  IF eol = None THEN KeepPartial(c)
                ELSE ReturnLine(s_ATBuffer, c, eol, seen) /\ UNCHANGED p_read
    /\ UNCHANGED <<stream, ditched, sessions>>

(* How many bytes read() may store. *)
Room(p) == MAX_AT_RESPONSE - p

(* read() stored the first k bytes of str at start: they are terminated.    *)
Stored(buf, start, str, k) ==
    [i \in 0..MAX_AT_RESPONSE |->
        IF i \in start..(start + k - 1) THEN str[i - start + 1]
        ELSE IF i = start + k THEN NUL ELSE buf[i]]

(* A full buffer without a line is ditched.                                 *)
Full  == Room(p_read) = 0
Ditch == ditched' = IF Full
                    THEN ditched \cup ((Len(seen) - (p_read - s_ATBufferCur) + 1)..Len(seen))
                    ELSE ditched

(* One turn of the while loop: a full buffer is ditched, then read()        *)
(* returns some of the bytes that are there.                                *)
ReadChunk ==
    /\ pc = "read" /\ stream # <<>>
    /\ LET start == IF Full THEN 0 ELSE p_read
           cur   == IF Full THEN 0 ELSE s_ATBufferCur
       IN  \E k \in 1..Len(stream) :
           /\ k <= Room(start)
           /\ LET buf == Stored(s_ATBuffer, start, stream, k)
                  c   == SkipNewlines(buf, cur)
                  eol == findNextEOL(buf, c)
                  bytes == seen \o SubSeq(stream, 1, k)
              IN  /\ IF eol = None
                     THEN /\ s_ATBuffer' = buf /\ s_ATBufferCur' = c
                          /\ seen' = bytes /\ UNCHANGED <<out, pc, ends, strayed>>
                     ELSE ReturnLine(buf, c, eol, bytes)
                  /\ p_read' = start + k
                  /\ stream' = SubSeq(stream, k + 1, Len(stream))
    /\ Ditch
    /\ UNCHANGED sessions

(* The same turn at EOF or a read error: readline returns NULL and the      *)
(* reader thread ends.                                                      *)
ReadEOF ==
    /\ pc = "read" /\ stream = <<>>
    /\ pc' = "closed" /\ Ditch
    /\ IF Full THEN /\ s_ATBuffer' = [s_ATBuffer EXCEPT ![0] = NUL]
                    /\ s_ATBufferCur' = 0 /\ p_read' = 0
       ELSE UNCHANGED <<s_ATBuffer, s_ATBufferCur, p_read>>
    /\ UNCHANGED <<stream, out, seen, ends, strayed, sessions>>

(* at_open starts a reader on a new descriptor; it leaves s_ATBuffer alone. *)
at_open ==
    /\ pc = "closed" /\ sessions < MaxSessions
    /\ stream' \in Streams
    /\ pc' = "call" /\ sessions' = sessions + 1
    /\ UNCHANGED <<s_ATBuffer, s_ATBufferCur, p_read, out, seen, ditched, ends, strayed>>

Next == readline \/ ReadChunk \/ ReadEOF \/ at_open

Spec == Init /\ [][Next]_vars

-----------------------------------------------------------------------------
(* Bytes in the buffer that readline has not consumed. *)
Unconsumed ==
    Text(s_ATBuffer, s_ATBufferCur, EndOfData(s_ATBuffer, s_ATBufferCur))

(* The bytes of s from position i to j are line ends, or gone, and then the *)
(* text.                                                                    *)
Follows(s, gone, i, j, text) ==
    /\ i + Len(text) <= j
    /\ \A p \in (i + 1)..(j - Len(text)) : s[p] = "\n" \/ p \in gone
    /\ \A k \in 1..Len(text) : s[j - Len(text) + k] = text[k]

(* Reference: the line is the one in s after position i, and ends at e.     *)
IsLine(s, gone, i, e, line) ==
    /\ Follows(s, gone, i, e - 1, line) /\ s[e] = "\n"
    /\ line # <<>> /\ \A k \in 1..Len(line) : line[k] # "\n"

(* Where in seen the n-th line ended. *)
LineEnd(n) == IF n = 0 THEN 0 ELSE ends[n]

(* However read() cuts the stream, readline returns, once each and in       *)
(* order, what stands between the line ends of all that was read, and the   *)
(* rest is still in the buffer.  Only bytes ditched with a full buffer are  *)
(* missing; they are never a line end, so that a line too long for the      *)
(* buffer loses its head and comes out as its tail.  An unfinished line of  *)
(* a lost session is not ditched: it is the head of the first line of the   *)
(* next one, since at_open leaves the buffer alone.  A prompt at the end of *)
(* what has been read is a line too.  A cursor that it left on an old byte  *)
(* ends all this: the old byte is then read again.                          *)
NoLineLostOrCut ==
    ~strayed =>
        /\ \A n \in 1..Len(out) : IsLine(seen, ditched, LineEnd(n - 1), ends[n], out[n])
        /\ Follows(seen, ditched, LineEnd(Len(out)), Len(seen), Unconsumed)
        /\ \A p \in ditched : seen[p] # "\n"

SmsPrompt == <<">", " ">>

(* read() stores inside s_ATBuffer and its data are terminated; the cursor  *)
(* is inside the buffer and not past the data, but for the byte after a     *)
(* prompt just returned (not "always <= p_read", as readline says); and it  *)
(* is at most one past the buffer when a prompt left it on an old byte, or  *)
(* on none, and readline went on from there.                                *)
StaysInBuffer ==
    /\ p_read \in 0..MAX_AT_RESPONSE /\ s_ATBuffer[p_read] = NUL
    /\ s_ATBufferCur \in 0..(MAX_AT_RESPONSE + 1)
    /\ pc = "read" => s_ATBufferCur <= p_read
    /\ \/ strayed \/ s_ATBufferCur <= p_read
       \/ /\ s_ATBufferCur = p_read + 1 /\ s_ATBufferCur <= MAX_AT_RESPONSE
          /\ out # <<>> /\ out[Len(out)] = SmsPrompt

=============================================================================
