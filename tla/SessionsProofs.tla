----------------------------- MODULE SessionsProofs -----------------------------
(***************************************************************************)
(* The lines that Rio_readlineb returns are those of the connection, no    *)
(* thread of the friend server uses a descriptor that is not its own, and  *)
(* an introduction adds what the other server reported: for all clients,   *)
(* requests, answers and sizes of the buffers.                             *)
(***************************************************************************)
EXTENDS Sessions, SequenceTheorems, WellFoundedInduction, FiniteSetTheorems, TLAPS

(* Sequences. *)

\* What is taken, buffered and coming is what read() had when it moves on.
LEMMA Lengths == \A a \in Seq(Byte) : Len(a) \in Nat
BY LenProperties

\* Two sequences of bytes one after the other.
LEMMA Concat == \A a, b \in Seq(Byte) : /\ a \o b \in Seq(Byte) /\ Len(a \o b) = Len(a) + Len(b)
                                      /\ \A n \in 1 .. Len(a) : (a \o b)[n] = a[n]
BY ConcatProperties, LenProperties

\* Bytes taken, buffered and coming may be joined in either order.
LEMMA Associative == \A a, b, c \in Seq(Byte) : (a \o b) \o c = a \o (b \o c)
BY ConcatAssociative

\* What is moved from one place to the next leaves the whole as it is.
LEMMA Split == ASSUME NEW s \in Seq(Byte), NEW n \in 1 .. Len(s)
    PROVE /\ SubSeq(s, 1, n) \in Seq(Byte) /\ SubSeq(s, n + 1, Len(s)) \in Seq(Byte)
          /\ \A a \in Seq(Byte) : a \o SubSeq(s, 1, n) \o SubSeq(s, n + 1, Len(s)) = a \o s
<1>1. Len(s) \in Nat
    BY LenProperties
<1>2. SubSeq(s, 1, n) \in Seq(Byte) /\ SubSeq(s, n + 1, Len(s)) \in Seq(Byte)
    BY <1>1, SubSeqProperties
<1>3. SubSeq(s, 1, n) \o SubSeq(s, n + 1, Len(s)) = s
    BY <1>1, ConcatAdjacentSubSeq, SubSeqFull
<1>4. ASSUME NEW a \in Seq(Byte)
      PROVE  a \o SubSeq(s, 1, n) \o SubSeq(s, n + 1, Len(s)) = a \o s
    <2> DEFINE p == SubSeq(s, 1, n)
               q == SubSeq(s, n + 1, Len(s))
    <2>1. p \in Seq(Byte) /\ q \in Seq(Byte) /\ p \o q = s
        BY <1>2, <1>3
    <2>2. (a \o p) \o q = a \o s
        <3> HIDE DEF p, q
        <3> QED BY <2>1, Associative
    <2> QED
        BY <2>2
<1> QED
    BY <1>2, <1>4

\* The beginning of a sequence of bytes is one.
LEMMA Prefix == \A s \in Seq(Byte) : \A n \in 0 .. Len(s) : SubSeq(s, 1, n) \in Seq(Byte)
<1> SUFFICES ASSUME NEW s \in Seq(Byte), NEW n \in 0 .. Len(s) PROVE SubSeq(s, 1, n) \in Seq(Byte)
    OBVIOUS
<1>1. Len(s) \in Nat /\ \A i \in 1 .. n : s[i] \in Byte
    BY LenProperties, ElementOfSeq
<1> QED
    BY <1>1, SubSeqProperties

\* The bytes of three sequences one after the other.
LEMMA ConcatOfThree == ASSUME NEW a \in Seq(Byte), NEW b \in Seq(Byte), NEW c \in Seq(Byte)
    PROVE /\ a \o b \o c \in Seq(Byte)
          /\ Len(a \o b \o c) = Len(a) + Len(b) + Len(c)
          /\ \A n \in 1 .. Len(a) : (a \o b \o c)[n] = a[n]
<1>1. Len(a) \in Nat /\ Len(b) \in Nat /\ Len(c) \in Nat
    BY LenProperties
<1>2. /\ a \o b \in Seq(Byte) /\ Len(a \o b) = Len(a) + Len(b)
      /\ \A n \in 1 .. Len(a) : (a \o b)[n] = a[n]
    BY <1>1, ConcatProperties
<1>3. /\ (a \o b) \o c \in Seq(Byte) /\ Len((a \o b) \o c) = Len(a \o b) + Len(c)
      /\ \A n \in 1 .. Len(a \o b) : ((a \o b) \o c)[n] = (a \o b)[n]
    BY <1>1, <1>2, ConcatProperties
<1> QED
    BY <1>1, <1>2, <1>3

\* The parts that a sequence was put together from.
LEMMA SplitAt == ASSUME NEW a \in Seq(Byte), NEW b \in Seq(Byte), NEW c \in Seq(Byte), Len(a) >= 1
    PROVE /\ SubSeq(a \o b \o c, 1, Len(a)) = a
          /\ SubSeq(a \o b \o c, Len(a) + 1, Len(a \o b \o c)) = b \o c
<1>1. PICK d, s : d = b \o c /\ s = a \o b \o c
    OBVIOUS
<1>2. d \in Seq(Byte) /\ s = a \o d
    BY <1>1, Concat, Associative
<1>3. /\ Len(a) \in Nat /\ Len(d) \in Nat /\ Len(s) = Len(a) + Len(d)
      /\ s \in Seq(Byte)
      /\ \A i \in 1 .. Len(a) : s[i] = a[i]
      /\ \A i \in Len(a) + 1 .. Len(s) : s[i] = d[i - Len(a)]
    BY <1>2, LenProperties, ConcatProperties
<1>4. SubSeq(s, 1, Len(a)) = a
    <2>1. /\ SubSeq(s, 1, Len(a)) \in Seq(Byte) /\ Len(SubSeq(s, 1, Len(a))) = Len(a)
          /\ \A i \in 1 .. Len(a) : SubSeq(s, 1, Len(a))[i] = s[i]
        BY <1>3
    <2> QED
        BY <1>3, <2>1, SeqEqual
<1>5. SubSeq(s, Len(a) + 1, Len(s)) = d
    <2>1. /\ SubSeq(s, Len(a) + 1, Len(s)) \in Seq(Byte)
          /\ Len(SubSeq(s, Len(a) + 1, Len(s))) = Len(d)
          /\ \A i \in 1 .. Len(d) : SubSeq(s, Len(a) + 1, Len(s))[i] = s[Len(a) + i]
        BY <1>3
    <2>2. ASSUME NEW i \in 1 .. Len(d) PROVE s[Len(a) + i] = d[i]
        <3>1. Len(a) + i \in Len(a) + 1 .. Len(s) /\ (Len(a) + i) - Len(a) = i
            BY <1>3
        <3> QED BY <1>3, <3>1
    <2> QED
        BY <1>2, <2>1, <2>2, SeqEqual
<1> QED
    BY <1>1, <1>4, <1>5

\* A byte that moves from one sequence to the one before it.
LEMMA MoveByte == ASSUME NEW a \in Seq(Byte), NEW b \in Seq(Byte), NEW c \in Seq(Byte), b # <<>>,
                        NEW line, line = Append(a, Head(b))
    PROVE /\ line \in Seq(Byte) /\ Tail(b) \in Seq(Byte)
          /\ Len(line) = Len(a) + 1
          /\ line \o Tail(b) \o c = a \o b \o c
          /\ \A n \in 1 .. Len(a) : line[n] = a[n]
          /\ line[Len(line)] = Head(b)
<1>1. Head(b) \in Byte /\ Tail(b) \in Seq(Byte) /\ <<Head(b)>> \o Tail(b) = b
    BY HeadTailProperties, ConcatSimplifications
<1>2. line = a \o <<Head(b)>>
    BY <1>1, AppendIsConcat
<1>3. /\ line \in Seq(Byte) /\ Len(line) = Len(a) + 1
      /\ \A n \in 1 .. Len(a) : line[n] = a[n]
      /\ line[Len(line)] = Head(b)
    BY <1>1, AppendProperties
<1>4. (a \o <<Head(b)>>) \o Tail(b) = a \o (<<Head(b)>> \o Tail(b))
    BY <1>1, ConcatAssociative
<1> QED
    BY <1>1, <1>2, <1>3, <1>4

\* A line ends at its first newline, or where the buffer is full.
LEMMA LineLengthIs == ASSUME NEW s \in Seq(Byte), NEW n \in 1 .. MAXLINE - 1, n <= Len(s),
                            n = MAXLINE - 1 \/ s[n] = NL,
                            \A m \in 1 .. n - 1 : s[m] # NL
    PROVE Lines!LineLength(s) = n /\ Lines!HasLine(s)
<1> DEFINE ends == {m \in 1 .. Len(s) : s[m] = NL} \cup {MAXLINE - 1}
<1>1. MAXLINE \in Nat /\ Len(s) \in Nat
    BY RioAssumption, LenProperties
<1>2. n \in ends /\ ends \subseteq Int
    BY <1>1
<1>3. ASSUME NEW m \in ends PROVE n <= m
    BY <1>1
<1>4. \A k \in ends : (\A m \in ends : k <= m) => k = n
    BY <1>2, <1>3
<1>5. Lines!LineLength(s) = CHOOSE k \in ends : \A m \in ends : k <= m
    BY DEF Lines!LineLength
<1>6. Lines!LineLength(s) = n
    <2> HIDE DEF ends
    <2> QED BY <1>2, <1>3, <1>4, <1>5
<1> QED
    BY <1>1, <1>6 DEF Lines!HasLine

\* Without a newline, and shorter than the buffer, it is no line yet.
LEMMA NoLineYet == ASSUME NEW s \in Seq(Byte), Len(s) < MAXLINE - 1, \A m \in 1 .. Len(s) : s[m] # NL
    PROVE ~Lines!HasLine(s)
<1>1. MAXLINE \in Nat /\ Len(s) \in Nat
    BY RioAssumption, LenProperties
<1>2. {m \in 1 .. Len(s) : s[m] = NL} \cup {MAXLINE - 1} = {MAXLINE - 1}
    OBVIOUS
<1>3. Lines!LineLength(s) = MAXLINE - 1
    BY <1>1, <1>2 DEF Lines!LineLength
<1> QED
    BY <1>1, <1>3 DEF Lines!HasLine

-----------------------------------------------------------------------------
(* Rio_readlineb.                                                          *)

RioTypeOK ==
    /\ coming \in [Reader -> Seq(Byte)]
    /\ ending \in [Reader -> {"waits", "closed", "reset", "unconnected"}]
    /\ rio_buf \in [Reader -> Seq(Byte)]
    /\ calling \in [Reader -> BOOLEAN]
    /\ taken \in [Reader -> Seq(Byte)]
    /\ usrbuf = [r \in Reader |-> usrbuf[r]]
    /\ rc = [r \in Reader |-> rc[r]]

\* A part of a line: neither its end nor all that the buffer can hold.
Partial(a) == Len(a) < MAXLINE - 1 /\ \A n \in 1 .. Len(a) : a[n] # NL

\* What has been taken of a line is not all of it, and nothing is between calls.
Unfinished == \A r \in Reader : (calling[r] \/ taken[r] = <<>>) /\ Partial(taken[r])

RioInv == RioTypeOK /\ Unfinished

\* What a reader has not handed out: the stream of the abstract specification.
Left(r) == taken[r] \o rio_buf[r] \o coming[r]

\* A call that begins has taken nothing.
LEMMA EmptyTaken == /\ <<>> \in Seq(Byte) /\ Len(<<>>) = 0 /\ Partial(<<>>)
                    /\ \A s \in Seq(Byte) : s \o <<>> = s /\ <<>> \o s = s
BY RioAssumption, EmptySeq, ConcatEmptySeq DEF Partial

\* What the others have left is as it was if the variables of a reader change.
LEMMA OpenFacts == ASSUME RioInv, NEW r \in Reader, NEW bytes \in Seq(Byte),
                          NEW end \in {"waits", "closed", "reset", "unconnected"}, NEW old,
                          Rio_readinitb(r, bytes, end, old)
    PROVE RioInv' /\ Lines!Open(r)
<1>1. RioTypeOK'
    BY EmptyTaken DEF Rio_readinitb, RioInv, RioTypeOK
<1>2. Unfinished'
    BY EmptyTaken DEF Rio_readinitb, RioInv, RioTypeOK, Unfinished
<1>3. Lines!Open(r)
    BY DEF Rio_readinitb, RioInv, RioTypeOK, Lines!Open, NoCall, Lines!NoCall
<1> QED
    BY <1>1, <1>2, <1>3 DEF RioInv

\* What a connection that is gone leaves of its reader.
LEMMA GoneFacts == ASSUME RioInv, NEW r \in Reader, Rio_gone(r)
    PROVE RioInv' /\ Lines!Open(r)
<1>1. RioTypeOK'
    BY EmptyTaken DEF Rio_gone, RioInv, RioTypeOK
<1>2. Unfinished'
    BY DEF Rio_gone, RioInv, Unfinished
<1>3. Lines!Open(r)
    BY DEF Rio_gone, RioInv, RioTypeOK, Lines!Open, NoCall, Lines!NoCall
<1> QED
    BY <1>1, <1>2, <1>3 DEF RioInv

\* A new call finds nothing taken, so the stream is what it was.
LEMMA CallFacts == ASSUME RioInv, NEW r \in Reader, ~calling[r], NEW buf, Rio_readlineb(r, buf)
    PROVE RioInv' /\ Lines!Use(r)
<1>1. RioTypeOK'
    BY EmptyTaken DEF Rio_readlineb, RioInv, RioTypeOK
<1>2. Unfinished'
    BY EmptyTaken DEF Rio_readlineb, RioInv, RioTypeOK, Unfinished
<1>3. taken' = taken
    BY DEF Rio_readlineb, RioInv, RioTypeOK, Unfinished
<1>4. Lines!Use(r)
    BY <1>3 DEF Rio_readlineb, RioInv, RioTypeOK, Lines!Use
<1> QED
    BY <1>1, <1>2, <1>4 DEF RioInv

\* read() only moves bytes from the connection into rio_buf.
LEMMA RefillFacts == ASSUME RioInv, NEW r \in Reader, Refill(r)
    PROVE RioInv' /\ UNCHANGED Lines!stream_vars
<1>1. PICK n \in 1 .. RIO_BUFSIZE :
          /\ n <= Len(coming[r])
          /\ rio_buf' = [rio_buf EXCEPT ![r] = SubSeq(coming[r], 1, n)]
          /\ coming' = [coming EXCEPT ![r] = SubSeq(@, n + 1, Len(@))]
    BY DEF Refill
<1>2. coming[r] \in Seq(Byte) /\ n \in 1 .. Len(coming[r]) /\ rio_buf[r] = <<>>
    BY <1>1, RioAssumption, LenProperties DEF Refill, RioInv, RioTypeOK
<1>3. /\ SubSeq(coming[r], 1, n) \in Seq(Byte) /\ SubSeq(coming[r], n + 1, Len(coming[r])) \in Seq(Byte)
      /\ taken[r] \o SubSeq(coming[r], 1, n) \o SubSeq(coming[r], n + 1, Len(coming[r]))
             = taken[r] \o coming[r]
    BY <1>2, Split DEF RioInv, RioTypeOK
<1>4. UNCHANGED <<ending, calling, taken, usrbuf, rc>>
    BY DEF Refill
<1>5. RioTypeOK'
    BY <1>1, <1>3, <1>4 DEF RioInv, RioTypeOK
<1>6. Unfinished'
    BY <1>4 DEF RioInv, Unfinished
<1>7. taken[r] \o rio_buf'[r] \o coming'[r] = taken[r] \o rio_buf[r] \o coming[r]
    <2>1. taken[r] \in Seq(Byte)
        BY DEF RioInv, RioTypeOK
    <2>2. rio_buf'[r] = SubSeq(coming[r], 1, n) /\ coming'[r] = SubSeq(coming[r], n + 1, Len(coming[r]))
        BY <1>1 DEF RioInv, RioTypeOK
    <2>3. taken[r] \o rio_buf[r] = taken[r]
        BY <1>2, <2>1, EmptyTaken
    <2> QED
        BY <1>3, <2>2, <2>3
<1>8. \A q \in Reader \ {r} : rio_buf'[q] = rio_buf[q] /\ coming'[q] = coming[q]
    BY <1>1 DEF RioInv, RioTypeOK
<1>9. \A q \in Reader : taken'[q] \o rio_buf'[q] \o coming'[q] = taken[q] \o rio_buf[q] \o coming[q]
    BY <1>4, <1>7, <1>8
<1> QED
    BY <1>4, <1>5, <1>6, <1>9 DEF RioInv, Lines!stream_vars

\* With nothing buffered and nothing coming, what is left is what was taken.
LEMMA NothingMore == ASSUME RioInv, NEW r \in Reader, rio_buf[r] = <<>>, coming[r] = <<>>
    PROVE Left(r) = taken[r] /\ ~Lines!HasLine(Left(r))
<1>1. taken[r] \in Seq(Byte)
    BY DEF RioInv, RioTypeOK
<1>2. Left(r) = taken[r]
    BY <1>1, EmptyTaken DEF Left
<1> QED
    BY <1>1, <1>2, NoLineYet DEF RioInv, Unfinished, Partial

\* The end of the file ends the call with what was taken.
LEMMA EndFacts == ASSUME RioInv, NEW r \in Reader, EndOfFile(r)
    PROVE RioInv' /\ Lines!ReadEnd(r)
<1>1. Left(r) = taken[r] /\ ~Lines!HasLine(Left(r))
    BY NothingMore DEF EndOfFile
<1>2. RioInv'
    <2>1. RioTypeOK'
        BY EmptyTaken DEF EndOfFile, Return, RioInv, RioTypeOK
    <2>2. Unfinished'
        BY EmptyTaken DEF EndOfFile, Return, RioInv, RioTypeOK, Unfinished
    <2> QED BY <2>1, <2>2 DEF RioInv
<1>3. taken' = [taken EXCEPT ![r] = <<>>] /\ rio_buf' = rio_buf /\ coming' = coming
    BY DEF EndOfFile, Return
<1>4. Left(r)' = <<>>
    BY <1>3, EmptyTaken DEF EndOfFile, Left, RioInv, RioTypeOK
<1>5. [q \in Reader |-> Left(q)]' = [[q \in Reader |-> Left(q)] EXCEPT ![r] = <<>>]
    BY <1>3, <1>4 DEF Left, RioInv, RioTypeOK
<1>6. usrbuf' = IF taken[r] = <<>> THEN usrbuf
                ELSE [usrbuf EXCEPT ![r] = Lines!Line(taken[r], usrbuf[r])]
    BY DEF EndOfFile, Return, RioInv, RioTypeOK, Copied, Lines!Line, Lines!Overwritten
<1> QED
    BY <1>1, <1>2, <1>5, <1>6 DEF EndOfFile, Return, Left, Lines!ReadEnd

\* An error ends the call with -1.
LEMMA ErrorFacts == ASSUME RioInv, NEW r \in Reader, Error(r)
    PROVE RioInv' /\ Lines!ReadError(r)
<1>1. Left(r) = taken[r] /\ ~Lines!HasLine(Left(r))
    BY NothingMore DEF Error
<1>0. /\ calling' = [calling EXCEPT ![r] = FALSE] /\ rc' = [rc EXCEPT ![r] = -1]
      /\ usrbuf' = [usrbuf EXCEPT ![r] = Copied(taken[r], usrbuf[r])]
    BY DEF Error, Return
<1>3. taken' = [taken EXCEPT ![r] = <<>>] /\ rio_buf' = rio_buf /\ coming' = coming
    BY DEF Error, Return
<1>2. RioInv'
    <2>1. RioTypeOK'
        <3>1. ending' \in [Reader -> {"waits", "closed", "reset", "unconnected"}]
            BY DEF Error, RioInv, RioTypeOK
        <3>2. calling' \in [Reader -> BOOLEAN] /\ taken' \in [Reader -> Seq(Byte)]
            BY EmptyTaken, <1>0, <1>3 DEF RioInv, RioTypeOK
        <3>3. usrbuf' = [q \in Reader |-> usrbuf'[q]] /\ rc' = [q \in Reader |-> rc'[q]]
            BY <1>0 DEF RioInv, RioTypeOK
        <3> QED
            BY <3>1, <3>2, <3>3, <1>3 DEF RioInv, RioTypeOK
    <2>2. Unfinished'
        BY EmptyTaken DEF Error, Return, RioInv, RioTypeOK, Unfinished
    <2> QED BY <2>1, <2>2 DEF RioInv
<1>4. Left(r)' = <<>>
    BY <1>3, EmptyTaken DEF Error, Left, RioInv, RioTypeOK
<1>5. [q \in Reader |-> Left(q)]' = [[q \in Reader |-> Left(q)] EXCEPT ![r] = <<>>]
    BY <1>3, <1>4 DEF Left, RioInv, RioTypeOK
<1>6. usrbuf' = [usrbuf EXCEPT ![r] = Lines!Overwritten(taken[r], usrbuf[r])]
    BY DEF Error, Return, Copied, Lines!Overwritten
<1> QED
    BY <1>1, <1>2, <1>5, <1>6 DEF Error, Return, Left, Lines!ReadError

\* A byte that ends no line only moves; one that does hands out the line.
\* Whether a line ends with the first byte of the buffer.
Ends(buf, line) == Head(buf) = NL \/ Len(line) = MAXLINE - 1

\* A line that LineStream would hand out next.
FirstLine(s, line) == Lines!HasLine(s) /\ Lines!LineLength(s) = Len(line)

\* What the next byte does to a line that is not finished: it ends it, and then
\* the line is the first one of the stream, or it does not.
LEMMA NextByte == ASSUME NEW a \in Seq(Byte), NEW b \in Seq(Byte), NEW c \in Seq(Byte), b # <<>>, Partial(a),
                        NEW line \in Seq(Byte), line = Append(a, Head(b)),
                        NEW rest \in Seq(Byte), rest = Tail(b),
                        NEW s \in Seq(Byte), s = a \o b \o c
    PROVE /\ line \in Seq(Byte) /\ rest \in Seq(Byte) /\ line \o rest \o c = s
          /\ Ends(b, line) => /\ FirstLine(s, line)
                               /\ SubSeq(s, 1, Len(line)) = line
                               /\ SubSeq(s, Len(line) + 1, Len(s)) = rest \o c
          /\ ~Ends(b, line) => Partial(line)
<1>1. /\ line \in Seq(Byte) /\ rest \in Seq(Byte) /\ Len(line) = Len(a) + 1
      /\ line \o rest \o c = s
      /\ \A n \in 1 .. Len(a) : line[n] = a[n]
      /\ line[Len(line)] = Head(b)
    BY MoveByte, SMTT(60)
<1>2. /\ Len(a) \in Nat /\ Len(line) \in Nat /\ Len(rest) \in Nat /\ Len(c) \in Nat /\ MAXLINE \in Nat
      /\ s \in Seq(Byte) /\ Len(s) = Len(line) + Len(rest) + Len(c)
      /\ \A n \in 1 .. Len(line) : s[n] = line[n]
    BY <1>1, Lengths, ConcatOfThree, RioAssumption
<1>3. Len(line) \in 1 .. MAXLINE - 1 /\ Len(line) <= Len(s)
    BY <1>1, <1>2 DEF Partial
<1>4. ASSUME Ends(b, line) PROVE FirstLine(s, line)
    <2>1. \A m \in 1 .. Len(line) - 1 : s[m] # NL
        BY <1>1, <1>2 DEF Partial
    <2>2. Len(line) = MAXLINE - 1 \/ s[Len(line)] = NL
        BY <1>1, <1>2, <1>3, <1>4 DEF Ends, Partial
    <2> QED
        BY <1>2, <1>3, <2>1, <2>2, LineLengthIs DEF FirstLine
<1>5. SubSeq(s, 1, Len(line)) = line /\ SubSeq(s, Len(line) + 1, Len(s)) = rest \o c
    <2>1. Len(line) >= 1
        BY <1>3
    <2>2. /\ SubSeq(line \o rest \o c, 1, Len(line)) = line
          /\ SubSeq(line \o rest \o c, Len(line) + 1, Len(line \o rest \o c)) = rest \o c
        BY <2>1, SplitAt, Z3T(60)
    <2> QED
        BY <1>1, <2>2
<1>6. ASSUME ~Ends(b, line) PROVE Partial(line)
    BY <1>1, <1>2, <1>6 DEF Ends, Partial
<1> QED
    BY <1>1, <1>4, <1>5, <1>6

\* A byte taken out of rio_buf goes on with the line or ends it.
LEMMA TakeFacts == ASSUME RioInv, NEW r \in Reader, Take(r)
    PROVE /\ RioInv'
          /\ \/ Lines!ReadLine(r) /\ calling' = [calling EXCEPT ![r] = FALSE]
             \/ UNCHANGED <<Lines!stream_vars, calling>>
<1>1. PICK line \in Seq(Byte), rest \in Seq(Byte) :
          line = Append(taken[r], Head(rio_buf[r])) /\ rest = Tail(rio_buf[r])
    <2>1. taken[r] \in Seq(Byte) /\ rio_buf[r] \in Seq(Byte) /\ rio_buf[r] # <<>>
        BY DEF Take, RioInv, RioTypeOK
    <2>2. Head(rio_buf[r]) \in Byte /\ Tail(rio_buf[r]) \in Seq(Byte)
        BY <2>1, HeadTailProperties
    <2>3. Append(taken[r], Head(rio_buf[r])) \in Seq(Byte)
        BY <2>1, <2>2, AppendProperties
    <2> QED
        BY <2>2, <2>3
<1>2. /\ taken[r] \in Seq(Byte) /\ rio_buf[r] \in Seq(Byte) /\ coming[r] \in Seq(Byte)
      /\ rio_buf[r] # <<>> /\ Partial(taken[r])
    BY DEF Take, RioInv, RioTypeOK, Unfinished
<1>3. /\ line \in Seq(Byte) /\ rest \in Seq(Byte) /\ line \o rest \o coming[r] = Left(r)
      /\ Ends(rio_buf[r], line) => /\ FirstLine(Left(r), line)
                 /\ SubSeq(Left(r), 1, Len(line)) = line
                 /\ SubSeq(Left(r), Len(line) + 1, Len(Left(r))) = rest \o coming[r]
      /\ ~Ends(rio_buf[r], line) => Partial(line)
    <2>1. PICK a \in Seq(Byte), b \in Seq(Byte), c \in Seq(Byte), s \in Seq(Byte) :
              a = taken[r] /\ b = rio_buf[r] /\ c = coming[r] /\ s = Left(r)
        BY <1>2, Concat DEF Left
    <2>2. /\ b # <<>> /\ Partial(a)
          /\ line = Append(a, Head(b)) /\ rest = Tail(b) /\ s = a \o b \o c
        BY <1>1, <1>2, <2>1 DEF Left
    <2>3. /\ line \o rest \o c = s
          /\ Ends(b, line) => /\ FirstLine(s, line)
                               /\ SubSeq(s, 1, Len(line)) = line
                               /\ SubSeq(s, Len(line) + 1, Len(s)) = rest \o c
          /\ ~Ends(b, line) => Partial(line)
        <3>1. line \o rest \o c = s
            BY <2>2, NextByte, SMTT(30)
        <3>2. Ends(b, line) => SubSeq(s, 1, Len(line)) = line
            BY <2>2, NextByte, SMTT(30)
        <3>3. Ends(b, line) => SubSeq(s, Len(line) + 1, Len(s)) = rest \o c
            BY <2>2, NextByte, SMTT(30)
        <3>4. /\ Ends(b, line) => FirstLine(s, line)
              /\ ~Ends(b, line) => Partial(line)
            BY <2>2, NextByte, Zenon
        <3> QED
            BY <3>1, <3>2, <3>3, <3>4
    <2> QED
        BY <2>1, <2>3
<1>4. /\ rio_buf' = [rio_buf EXCEPT ![r] = rest] /\ calling[r]
      /\ coming' = coming /\ ending' = ending
    BY <1>1 DEF Take
<1>5. CASE Ends(rio_buf[r], line)
    <2>1. Return(r, Copied(Append(line, NUL), usrbuf[r]), Len(line))
        BY <1>1, <1>5 DEF Take, Ends
    <2>2. RioTypeOK'
        BY <1>3, <1>4, <2>1, EmptyTaken DEF Return, RioInv, RioTypeOK
    <2>3. Unfinished'
        BY <2>1, EmptyTaken DEF Return, RioInv, RioTypeOK, Unfinished
    <2>4. Left(r)' = rest \o coming[r]
        BY <1>3, <1>4, <2>1, EmptyTaken DEF Return, Left, RioInv, RioTypeOK
    <2>5. [q \in Reader |-> Left(q)]' =
              [[q \in Reader |-> Left(q)] EXCEPT ![r] = SubSeq(@, Len(line) + 1, Len(@))]
        BY <1>3, <1>4, <1>5, <2>1, <2>4 DEF Return, Left, RioInv, RioTypeOK
    <2>6. usrbuf' = [usrbuf EXCEPT ![r] = Lines!Line(line, usrbuf[r])]
        BY <2>1 DEF Return, Copied, Lines!Line, Lines!Overwritten
    <2>7. Lines!ReadLine(r)
        BY <1>3, <1>4, <1>5, <2>1, <2>5, <2>6 DEF Return, Left, FirstLine, Lines!ReadLine
    <2> QED
        BY <2>1, <2>2, <2>3, <2>7 DEF RioInv, Return
<1>6. CASE ~Ends(rio_buf[r], line)
    <2>1. taken' = [taken EXCEPT ![r] = line] /\ UNCHANGED <<calling, usrbuf, rc>>
        BY <1>1, <1>6 DEF Take, Ends
    <2>2. RioTypeOK'
        BY <1>3, <1>4, <2>1 DEF RioInv, RioTypeOK
    <2>3. Unfinished'
        BY <1>3, <1>4, <1>6, <2>1 DEF RioInv, RioTypeOK, Unfinished
    <2>4. \A q \in Reader : Left(q)' = Left(q)
        BY <1>3, <1>4, <2>1 DEF Left, RioInv, RioTypeOK
    <2>5. UNCHANGED Lines!stream_vars
        BY <1>4, <2>1, <2>4 DEF Left, Lines!stream_vars
    <2> QED
        BY <2>1, <2>2, <2>3, <2>5 DEF RioInv
<1> QED
    BY <1>5, <1>6

\* A step of Rio_readlineb hands out a line, or what stands for one, or nothing.
LEMMA ReadFacts == ASSUME RioInv, NEW r \in Reader, rio_readlineb(r)
    PROVE RioInv' /\ [Lines!Next]_(Lines!stream_vars)
BY RefillFacts, EndFacts, ErrorFacts, TakeFacts DEF rio_readlineb, Lines!Next

\* No reader has anything at the start.
LEMMA InitFacts == Init => RioInv /\ Lines!Init
<1> SUFFICES ASSUME Init PROVE RioInv /\ Lines!Init
    OBVIOUS
<1>1. RioTypeOK
    BY EmptyTaken DEF Init, RioInit, RioTypeOK
<1>2. Unfinished
    BY EmptyTaken DEF Init, RioInit, Unfinished
<1>3. [r \in Reader |-> taken[r] \o rio_buf[r] \o coming[r]] = [r \in Reader |-> <<>>]
    BY EmptyTaken DEF Init, RioInit
<1> QED
    BY <1>1, <1>2, <1>3 DEF RioInv, Init, RioInit, Uninitialised, NoCall, Lines!Init, Lines!NoCall

\* An answer is a sequence of bytes.
LEMMA AnswersAreBytes == \A a \in Answers : a.bytes \in Seq(Byte)
<1> SUFFICES ASSUME NEW a \in Answers PROVE a.bytes \in Seq(Byte)
    OBVIOUS
<1>1. a.bytes \in Seq(Byte \ {NUL})
    BY SessionsAssumption DEF Answer
<1> QED
    BY <1>1

\* Every thread has its two readers.
LEMMA ReadersOfClients == \A c \in Client : Own(c) \in Reader /\ Other(c) \in Reader
BY SessionsAssumption DEF Own, Other

\* What a thread does to its two readers, one step at a time.
LEMMA StepFacts == ASSUME RioInv, [Next]_vars PROVE RioInv' /\ [Lines!Next]_(Lines!stream_vars)
<1> USE ReadersOfClients
<1>1. ASSUME NEW c \in Client, Accept(c) PROVE RioInv' /\ Lines!Next
    <2>1. PICK bytes \in Requests[c] : \E n \in 0 .. Len(bytes), end \in {"waits", "closed", "reset"} :
              Rio_readinitb(Own(c), SubSeq(bytes, 1, n), end, Uninitialised)
        BY <1>1 DEF Accept
    <2>2. PICK n \in 0 .. Len(bytes), end \in {"waits", "closed", "reset"} :
              Rio_readinitb(Own(c), SubSeq(bytes, 1, n), end, Uninitialised)
        BY <2>1
    <2>3. SubSeq(bytes, 1, n) \in Seq(Byte)
        BY SessionsAssumption, Prefix
    <2> QED
        BY <2>2, <2>3, OpenFacts DEF Lines!Next
<1>2. ASSUME NEW c \in Client, Connect(c) PROVE RioInv' /\ Lines!Next
    <2>1. PICK a \in Answers, old \in Stale :
              \E n \in 0 .. Len(a.bytes), end \in {"closed", "reset"} :
                  Rio_readinitb(Other(c), SubSeq(a.bytes, 1, n), end, old)
        BY <1>2 DEF Connect
    <2>2. PICK n \in 0 .. Len(a.bytes), end \in {"closed", "reset"} :
              Rio_readinitb(Other(c), SubSeq(a.bytes, 1, n), end, old)
        BY <2>1
    <2>3. SubSeq(a.bytes, 1, n) \in Seq(Byte)
        BY AnswersAreBytes, Prefix
    <2> QED
        BY <2>2, <2>3, OpenFacts DEF Lines!Next
<1>3. ASSUME NEW c \in Client, ConnectFails(c) PROVE RioInv' /\ Lines!Next
    <2>1. PICK old \in Stale : Rio_readinitb(Other(c), <<>>, "unconnected", old)
        BY <1>3 DEF ConnectFails
    <2> QED
        BY <2>1, EmptyTaken, OpenFacts DEF Lines!Next
<1>4. ASSUME NEW c \in Client, NEW r \in {Own(c), Other(c)}, Rio_gone(r) PROVE RioInv' /\ Lines!Next
    BY <1>4, GoneFacts DEF Lines!Next
<1>5. ASSUME NEW c \in Client, NEW r \in {Own(c), Other(c)}, ~calling[r],
             NEW buf, Rio_readlineb(r, buf)
      PROVE  RioInv' /\ Lines!Next
    BY <1>5, CallFacts DEF Lines!Next
<1>6. ASSUME NEW c \in Client, NEW r \in {Own(c), Other(c)}, Read(r)
      PROVE  RioInv' /\ [Lines!Next]_(Lines!stream_vars)
    BY <1>6, ReadFacts DEF Read
<1>7. ASSUME UNCHANGED rio_vars PROVE RioInv' /\ UNCHANGED Lines!stream_vars
    BY <1>7 DEF rio_vars, RioInv, RioTypeOK, Unfinished, Lines!stream_vars
<1>8. ASSUME NEW c \in Client, Hangup(c) \/ NotOK(c) \/ Introduced(c) \/ Close(c)
      PROVE  \E r \in {Own(c), Other(c)} : Rio_gone(r)
    BY <1>8 DEF Hangup, NotOK, Introduced, Close
<1>9. ASSUME NEW c \in Client, RequestLine(c) \/ Headers(c) \/ Rest(c) \/ Befriend(c)
      PROVE  \/ UNCHANGED rio_vars
             \/ \E r \in {Own(c), Other(c)} : ~calling[r] /\ \E buf : Rio_readlineb(r, buf)
    BY <1>9 DEF RequestLine, Headers, Rest, Befriend
<1>10. ASSUME NEW c \in Client, P(c) \/ StatusOK(c) \/ NoStatus(c) \/ V(c)
       PROVE  UNCHANGED rio_vars
    BY <1>10 DEF P, StatusOK, NoStatus, V
<1>11. CASE UNCHANGED vars
    BY <1>7, <1>11 DEF vars
<1> QED
    BY <1>1, <1>2, <1>3, <1>4, <1>5, <1>6, <1>7, <1>8, <1>9, <1>10, <1>11 DEF Next, Step

\* Rio_readlineb implements LineStream in the friend server: the lines of a
\* connection come out whole and in order, however read() cuts them up.
THEOREM ReadsLinesCorrect == Spec => ReadsLines
<1>1. Spec => []RioInv
    <2>1. Init => RioInv
        BY InitFacts
    <2>2. RioInv /\ [Next]_vars => RioInv'
        BY StepFacts
    <2> QED
        BY <2>1, <2>2, PTL DEF Spec
<1>2. Init => Lines!Init
    BY InitFacts
<1>3. RioInv /\ [Next]_vars => [Lines!Next]_(Lines!stream_vars)
    BY StepFacts
<1> QED
    BY <1>1, <1>2, <1>3, PTL DEF Spec, ReadsLines, Lines!Spec

-----------------------------------------------------------------------------
(* Descriptors.                                                            *)

\* Where a thread may have a connection to the other server.
Connected == {"status", "rest", "names"}

DescriptorTypeOK ==
    /\ pc = [c \in Client |-> pc[c]]
    /\ fd \in [Client -> Descriptor \cup {None}]
    /\ server_fd \in [Client -> Descriptor \cup {None}]
    /\ open \subseteq Descriptor

\* The descriptors of a thread are open while it needs them, and forgotten
\* otherwise; those of two threads differ.
Owned ==
    /\ listenfd \in open
    /\ \A c \in Client :
        /\ IF pc[c] = "idle" THEN fd[c] = None ELSE fd[c] \in open \ {listenfd}
        /\ server_fd[c] # None => pc[c] \in Connected /\ server_fd[c] \in open \ {listenfd, fd[c]}

Apart == \A b, c \in Client : b # c =>
    /\ fd[b] # None => fd[b] # fd[c] /\ fd[b] # server_fd[c]
    /\ server_fd[b] # None => server_fd[b] # fd[c] /\ server_fd[b] # server_fd[c]

DInv == DescriptorTypeOK /\ Owned /\ Apart

\* None is no descriptor; listenfd is one.
LEMMA DescriptorFacts == None \notin Descriptor /\ listenfd \in Descriptor /\ listenfd # None
BY SessionsAssumption DEF None, listenfd

\* A new descriptor is one that is free.
LEMMA LowestIsFree == \A d \in Lowest : d \in Descriptor \ open
BY DEF Lowest

\* At the start there is no thread.
LEMMA InitDInv == Init => DInv
BY DescriptorFacts DEF Init, DInv, DescriptorTypeOK, Owned, Apart

\* A new descriptor is nobody's, and a thread closes only its own.
LEMMA DInvStep == ASSUME DInv, [Next]_vars PROVE DInv'
<1> USE DescriptorFacts DEF DInv, Connected
<1>1. ASSUME NEW c \in Client, Accept(c) PROVE DInv'
    <2>1. PICK d \in Descriptor \ open : fd' = [fd EXCEPT ![c] = d] /\ open' = open \cup {d}
        BY <1>1, LowestIsFree DEF Accept
    <2>2. pc' = [pc EXCEPT ![c] = "request"] /\ server_fd' = server_fd /\ pc[c] = "idle"
        BY <1>1 DEF Accept, Goto
    <2>3. DescriptorTypeOK'
        BY <2>1, <2>2 DEF DescriptorTypeOK
    <2>4. Owned'
        BY <2>1, <2>2 DEF DescriptorTypeOK, Owned
    <2>5. Apart'
        BY <2>1, <2>2 DEF DescriptorTypeOK, Owned, Apart
    <2> QED
        BY <2>3, <2>4, <2>5
<1>2. ASSUME NEW c \in Client, Connect(c) PROVE DInv'
    <2>1. PICK d \in Descriptor \ open : server_fd' = [server_fd EXCEPT ![c] = d] /\ open' = open \cup {d}
        BY <1>2, LowestIsFree DEF Connect
    <2>2. pc' = [pc EXCEPT ![c] = "status"] /\ fd' = fd /\ pc[c] = "connect"
        BY <1>2 DEF Connect, Goto
    <2>3. DescriptorTypeOK'
        BY <2>1, <2>2 DEF DescriptorTypeOK
    <2>4. Owned'
        BY <2>1, <2>2 DEF DescriptorTypeOK, Owned
    <2>5. Apart'
        BY <2>1, <2>2 DEF DescriptorTypeOK, Owned, Apart
    <2> QED
        BY <2>3, <2>4, <2>5
<1>3. ASSUME NEW c \in Client, Hangup(c) PROVE DInv'
    BY <1>3 DEF Hangup, Goto, DescriptorTypeOK, Owned, Apart
<1>4. ASSUME NEW c \in Client, NotOK(c) PROVE DInv'
    BY <1>4 DEF NotOK, Goto, DescriptorTypeOK, Owned, Apart
<1>5. ASSUME NEW c \in Client, Introduced(c) PROVE DInv'
    BY <1>5 DEF Introduced, Goto, DescriptorTypeOK, Owned, Apart
<1>6. ASSUME NEW c \in Client, Close(c) PROVE DInv'
    BY <1>6 DEF Close, Goto, DescriptorTypeOK, Owned, Apart
<1>7. ASSUME NEW c \in Client, RequestLine(c) \/ Headers(c) \/ P(c) \/ ConnectFails(c) \/ StatusOK(c)
                              \/ NoStatus(c) \/ Rest(c) \/ Befriend(c) \/ V(c)
      PROVE DInv'
    <2>1. UNCHANGED <<fd, server_fd, open>>
        BY <1>7 DEF RequestLine, Headers, P, ConnectFails, StatusOK, NoStatus, Rest, Befriend, V
    <2>2. pc' = [b \in Client |-> pc'[b]]
        BY <1>7 DEF RequestLine, Headers, P, ConnectFails, StatusOK, NoStatus, Rest, Befriend, V, Goto,
                    DescriptorTypeOK
    <2>3. DescriptorTypeOK' /\ Apart'
        BY <2>1, <2>2 DEF DescriptorTypeOK, Apart
    <2>4. ASSUME NEW b \in Client
          PROVE  /\ pc'[b] = "idle" <=> pc[b] = "idle"
                 /\ pc[b] \in Connected => pc'[b] \in Connected
        BY <1>7 DEF RequestLine, Headers, P, ConnectFails, StatusOK, NoStatus, Rest, Befriend, V, Goto,
                    DescriptorTypeOK
    <2>5. Owned'
        BY <2>1, <2>4 DEF Owned
    <2> QED
        BY <2>3, <2>5
<1>8. CASE UNCHANGED session_vars
    BY <1>8 DEF session_vars, DescriptorTypeOK, Owned, Apart
<1> QED
    BY <1>1, <1>2, <1>3, <1>4, <1>5, <1>6, <1>7, <1>8 DEF Next, Step, Read, vars

\* No thread of the server uses a descriptor that is closed, or another's.
THEOREM DescriptorsCorrect == Spec => []DescriptorsOwned
<1>1. DInv => DescriptorsOwned
    BY DescriptorFacts DEF DInv, Owned, Apart, DescriptorsOwned
<1> QED
    BY <1>1, InitDInv, DInvStep, PTL DEF Spec

-----------------------------------------------------------------------------
(* The lines of an answer.                                                 *)

\* A set of numbers has a least one.
LEMMA Least ==
    ASSUME NEW S \in SUBSET Nat, S # {}
    PROVE  \E n \in S : \A m \in S : n <= m
<1>0. OpToRel(<, Nat) = {ss \in Nat \X Nat : ss[1] < ss[2]}
    BY Zenon DEF OpToRel
<1> DEFINE R == OpToRel(<, Nat)
<1>1. \E x \in S : \A y \in S : ~ (<<y, x>> \in R)
    BY NatLessThanWellFounded, WFMin
<1>2. R = {ss \in Nat \X Nat : ss[1] < ss[2]}
    BY <1>0
<1> HIDE DEF R
<1>3. PICK x \in S : \A y \in S : ~ (<<y, x>> \in R)
    BY <1>1
<1>4. ASSUME NEW y \in S, y < x PROVE FALSE
    <2>1. <<y, x>> \in Nat \X Nat /\ <<y, x>>[1] < <<y, x>>[2]
        BY <1>4
    <2>2. <<y, x>> \in R
        BY <2>1, <1>2
    <2> QED
        BY <2>2, <1>3
<1> QED
    BY <1>4, <1>3

\* An answer is bytes and ends with a newline.
LEMMA AnswerIs ==
    ASSUME NEW a \in Answers
    PROVE  /\ a.bytes \in Seq(Byte) /\ Len(a.bytes) \in Nat \ {0}
           /\ a.bytes[Len(a.bytes)] = NL
           /\ \A k \in 1 .. Len(a.bytes) : a.bytes[k] # NUL
           /\ \A from, to \in 0 .. Len(a.bytes) : IsLine(a.bytes, from, to) => to - from < MAXLINE
<1> DEFINE s == a.bytes
<1>1. /\ s \in Seq(Byte \ {NUL}) /\ s # <<>> /\ s[Len(s)] = NL
      /\ \A from, to \in 0 .. Len(s) : IsLine(s, from, to) => to - from < MAXLINE
    BY SessionsAssumption, Zenon DEF Answer
<1> HIDE DEF s
<1>2. s \in Seq(Byte) /\ Len(s) \in Nat \ {0} /\ \A k \in 1 .. Len(s) : s[k] # NUL
    BY <1>1
<1> QED
    BY <1>1, <1>2 DEF s

\* A place behind a newline, or the beginning.
Starts(s, q) == q = 0 \/ s[q] = NL

\* Every line has its end.
LEMMA NextLine ==
    ASSUME NEW a \in Answers, NEW q \in Nat, q < Len(a.bytes), Starts(a.bytes, q)
    PROVE  \E e \in q + 1 .. Len(a.bytes) : IsLine(a.bytes, q, e)
<1> DEFINE s == a.bytes
           S == {e \in q + 1 .. Len(s) : s[e] = NL}
<1>1. Len(s) \in Nat /\ s[Len(s)] = NL
    BY AnswerIs
<1>2. S \in SUBSET Nat /\ Len(s) \in S
    BY <1>1
<1>3. PICK e \in S : \A m \in S : e <= m
    BY <1>2, Least
<1>4. \A m \in q + 1 .. e - 1 : s[m] # NL
    BY <1>1, <1>3
<1> QED
    BY <1>1, <1>3, <1>4 DEF IsLine, Starts

\* And only one.
LEMMA LineUnique ==
    ASSUME NEW s \in Seq(Byte), NEW q \in Nat, NEW e, NEW f, IsLine(s, q, e), IsLine(s, q, f)
    PROVE  e = f
<1>1. Len(s) \in Nat /\ e \in 1 .. Len(s) /\ f \in 1 .. Len(s) /\ q < e /\ q < f
    BY DEF IsLine
<1>2. ~(e < f) /\ ~(f < e)
    BY <1>1 DEF IsLine
<1> QED
    BY <1>1, <1>2

\* What is left of an answer between two places.
LEMMA Piece ==
    ASSUME NEW s \in Seq(Byte), NEW n \in 0 .. Len(s), NEW q \in 0 .. n
    PROVE  /\ SubSeq(s, q + 1, n) \in Seq(Byte)
           /\ Len(SubSeq(s, q + 1, n)) = n - q
           /\ \A k \in 1 .. n - q : SubSeq(s, q + 1, n)[k] = s[q + k]
<1>1. Len(s) \in Nat /\ n \in Int /\ q + 1 \in Int /\ n - (q + 1) + 1 = n - q
    OBVIOUS
<1>2. \A k \in q + 1 .. n : s[k] \in Byte
    BY <1>1
<1>3. /\ SubSeq(s, q + 1, n) \in Seq(Byte)
      /\ Len(SubSeq(s, q + 1, n)) = IF q + 1 <= n THEN n - (q + 1) + 1 ELSE 0
      /\ \A k \in 1 .. n - (q + 1) + 1 : SubSeq(s, q + 1, n)[k] = s[q + 1 + k - 1]
    BY <1>1, <1>2, SubSeqProperties
<1>4. \A k \in 1 .. n - q : q + 1 + k - 1 = q + k
    OBVIOUS
<1> QED
    BY <1>1, <1>3, <1>4

\* The reader has a line just if all of it has come.
LEMMA LineHasCome ==
    ASSUME NEW a \in Answers, NEW n \in 0 .. Len(a.bytes), NEW q \in 0 .. n, NEW e \in Nat,
           IsLine(a.bytes, q, e), NEW left, left = SubSeq(a.bytes, q + 1, n)
    PROVE  /\ e <= n => Lines!HasLine(left) /\ Lines!LineLength(left) = e - q
           /\ e > n => ~Lines!HasLine(left)
<1> DEFINE s == a.bytes
           m == e - q
<1>1. s \in Seq(Byte) /\ Len(s) \in Nat
    BY AnswerIs
<1>2. /\ left \in Seq(Byte) /\ Len(left) = n - q
      /\ \A k \in 1 .. n - q : left[k] = s[q + k]
    BY <1>1, Piece
<1>3. q \in 0 .. e - 1 /\ e \in 1 .. Len(s) /\ s[e] = NL /\ \A k \in q + 1 .. e - 1 : s[k] # NL
    BY DEF IsLine
<1>4. m < MAXLINE
    BY <1>1, <1>3, AnswerIs
<1>5. m \in Nat \ {0} /\ MAXLINE \in Nat
    BY <1>3, RioAssumption
<1>6. ASSUME e <= n PROVE Lines!HasLine(left) /\ Lines!LineLength(left) = m
    <2>1. m \in 1 .. MAXLINE - 1 /\ m <= Len(left)
        BY <1>2, <1>4, <1>5, <1>6
    <2>2. left[m] = NL
        <3>1. m \in 1 .. n - q /\ q + m = e
            BY <1>3, <1>6
        <3> QED
            BY <1>2, <1>3, <3>1
    <2>3. \A k \in 1 .. m - 1 : left[k] # NL
        <3> SUFFICES ASSUME NEW k \in 1 .. m - 1 PROVE left[k] # NL
            OBVIOUS
        <3>1. k \in 1 .. n - q /\ q + k \in q + 1 .. e - 1
            BY <1>3, <1>6
        <3> QED
            BY <1>2, <1>3, <3>1
    <2> HIDE DEF m
    <2> QED
        BY <1>2, <2>1, <2>2, <2>3, LineLengthIs
<1>7. ASSUME e > n PROVE ~Lines!HasLine(left)
    <2>1. Len(left) < MAXLINE - 1
        BY <1>2, <1>3, <1>4, <1>5, <1>7
    <2>2. \A k \in 1 .. Len(left) : left[k] # NL
        <3> SUFFICES ASSUME NEW k \in 1 .. n - q PROVE left[k] # NL
            BY <1>2
        <3>1. q + k \in q + 1 .. e - 1
            BY <1>3, <1>7
        <3> QED
            BY <1>2, <1>3, <3>1
    <2> QED
        BY <1>2, <2>1, <2>2, NoLineYet
<1> QED
    BY <1>6, <1>7

\* Which lines are between two places.
LEMMA InLines ==
    ASSUME NEW s, NEW start, NEW to, NEW p \in start .. to, NEW e \in start .. to, IsLine(s, p, e)
    PROVE  SubSeq(s, p + 1, e - 1) \in LinesIn(s, start, to)
<1> DEFINE W == {w \in (start .. to) \X (start .. to) : IsLine(s, w[1], w[2])}
           w0 == <<p, e>>
<1>1. w0 \in (start .. to) \X (start .. to) /\ w0[1] = p /\ w0[2] = e
    OBVIOUS
<1>2. w0 \in W
    BY <1>1
<1>3. LinesIn(s, start, to) = {SubSeq(s, w[1] + 1, w[2] - 1) : w \in W}
    BY DEF LinesIn
<1> HIDE DEF w0, W
<1> QED
    BY <1>1, <1>2, <1>3

\* The lines up to the end of one more.
LEMMA OneLineMore ==
    ASSUME NEW s \in Seq(Byte), NEW start \in Nat, NEW from \in Nat, NEW to \in Nat, start <= from,
           IsLine(s, from, to)
    PROVE  LinesIn(s, start, to) = LinesIn(s, start, from) \cup {SubSeq(s, from + 1, to - 1)}
<1>1. Len(s) \in Nat /\ to \in 1 .. Len(s) /\ from \in Nat /\ from < to
    BY DEF IsLine
<1>2. ASSUME NEW p \in start .. to, NEW e \in start .. to, IsLine(s, p, e), e > from
      PROVE  p = from /\ e = to
    <2>1. p \in 0 .. e - 1 /\ e \in 1 .. Len(s) /\ Starts(s, p) /\ s[e] = NL
          /\ \A m \in p + 1 .. e - 1 : s[m] # NL
        BY <1>2 DEF IsLine, Starts
    <2>2. s[to] = NL /\ (\A m \in from + 1 .. to - 1 : s[m] # NL) /\ Starts(s, from)
        BY DEF IsLine, Starts
    <2>3. e = to
        <3>1. CASE e \in from + 1 .. to - 1
            BY <3>1, <2>1, <2>2
        <3> QED
            BY <3>1, <1>1, <1>2, <2>1
    <2>4. ~(p < from)
        <3> SUFFICES ASSUME p < from PROVE FALSE
            OBVIOUS
        <3>1. from \in p + 1 .. e - 1 /\ from # 0
            BY <1>1, <1>2, <2>1, <2>3
        <3> QED
            BY <3>1, <2>1, <2>2 DEF Starts
    <2>5. ~(p > from)
        <3> SUFFICES ASSUME p > from PROVE FALSE
            OBVIOUS
        <3>1. p \in from + 1 .. to - 1 /\ p # 0
            BY <1>1, <1>2, <2>1, <2>3
        <3> QED
            BY <3>1, <2>1, <2>2 DEF Starts
    <2> QED
        BY <1>1, <2>1, <2>3, <2>4, <2>5
<1>3. ASSUME NEW x \in LinesIn(s, start, to)
      PROVE  x \in LinesIn(s, start, from) \/ x = SubSeq(s, from + 1, to - 1)
    <2>1. PICK p \in start .. to, e \in start .. to : IsLine(s, p, e) /\ x = SubSeq(s, p + 1, e - 1)
        BY <1>3, Zenon DEF LinesIn
    <2>2. CASE e > from
        BY <1>2, <2>1, <2>2
    <2>3. CASE ~(e > from)
        <3>1. p \in start .. from /\ e \in start .. from
            BY <1>1, <2>1, <2>3 DEF IsLine
        <3> QED
            BY <2>1, <3>1, InLines
    <2> QED
        BY <2>2, <2>3
<1>4. ASSUME NEW x \in LinesIn(s, start, from) PROVE x \in LinesIn(s, start, to)
    <2>1. PICK p \in start .. from, e \in start .. from : IsLine(s, p, e) /\ x = SubSeq(s, p + 1, e - 1)
        BY <1>4 DEF LinesIn
    <2>2. p \in start .. to /\ e \in start .. to
        BY <1>1
    <2> QED
        BY <2>1, <2>2, InLines
<1>5. SubSeq(s, from + 1, to - 1) \in LinesIn(s, start, to)
    <2>1. from \in start .. to /\ to \in start .. to
        BY <1>1
    <2> QED
        BY <2>1, InLines
<1> QED
    BY <1>3, <1>4, <1>5

\* Where the body starts none of its lines is behind.
LEMMA NoLinesYet == ASSUME NEW s \in Seq(Byte), NEW start \in Nat PROVE LinesIn(s, start, start) = {}
BY DEF LinesIn, IsLine

\* The lines behind are lines of the answer.
LEMMA MoreLines ==
    ASSUME NEW s \in Seq(Byte), NEW start \in Nat, NEW q \in Nat, q <= Len(s)
    PROVE  LinesIn(s, start, q) \subseteq LinesIn(s, start, Len(s))
<1> SUFFICES ASSUME NEW x \in LinesIn(s, start, q) PROVE x \in LinesIn(s, start, Len(s))
    OBVIOUS
<1>1. PICK p \in start .. q, e \in start .. q : IsLine(s, p, e) /\ x = SubSeq(s, p + 1, e - 1)
    BY DEF LinesIn
<1>2. p \in start .. Len(s) /\ e \in start .. Len(s)
    OBVIOUS
<1> QED
    BY <1>1, <1>2, InLines

-----------------------------------------------------------------------------
(* Buffers.                                                                *)

\* A buffer with a line of s in it.
Holds(buf, s, from, to) == /\ \A n \in 1 .. to - from : buf[n] = s[from + n]
                           /\ buf[to - from + 1] = NUL

\* The string in a buffer ends where its first NUL is.
LEMMA StringIs ==
    ASSUME NEW buf, NEW k \in 1 .. MAXLINE, buf[k] = NUL, \A n \in 1 .. k - 1 : buf[n] # NUL
    PROVE  String(buf) = SubSeq(buf, 1, k - 1)
<1> DEFINE ends == {n \in 1 .. MAXLINE : buf[n] = NUL}
           first == CHOOSE n \in ends : \A m \in ends : n <= m
<1>1. k \in ends /\ ends \subseteq Nat
    BY RioAssumption
<1>2. \A m \in ends : k <= m
    BY RioAssumption
<1>3. \A n \in ends : (\A m \in ends : n <= m) => n = k
    BY <1>1, <1>2
<1>4. String(buf) = SubSeq(buf, 1, first - 1)
    BY Zenon DEF String
<1>5. first = k
    <2> HIDE DEF ends
    <2> QED BY <1>1, <1>2, <1>3
<1> QED
    BY <1>4, <1>5

\* The first bytes of a buffer, which hold those of a line.
LEMMA FirstBytes ==
    ASSUME NEW a \in Answers, NEW from \in Nat, NEW to \in Nat, from < to, to <= Len(a.bytes),
           NEW buf, Holds(buf, a.bytes, from, to), NEW k \in 0 .. to - from
    PROVE  SubSeq(buf, 1, k) = SubSeq(a.bytes, from + 1, from + k)
<1> DEFINE s == a.bytes
           t == from + k
<1>1. s \in Seq(Byte) /\ Len(s) \in Nat
    BY AnswerIs
<1>2. t \in 0 .. Len(s) /\ from \in 0 .. t /\ t - from = k
    BY <1>1
<1>3. /\ SubSeq(s, from + 1, t) \in Seq(Byte) /\ Len(SubSeq(s, from + 1, t)) = k
      /\ \A n \in 1 .. k : SubSeq(s, from + 1, t)[n] = s[from + n]
    <2> HIDE DEF t
    <2> QED BY <1>1, <1>2, Piece
<1>4. \A n \in 1 .. k : buf[n] = s[from + n] /\ buf[n] \in Byte
    <2> SUFFICES ASSUME NEW n \in 1 .. k PROVE buf[n] = s[from + n] /\ buf[n] \in Byte
        OBVIOUS
    <2>1. n \in 1 .. to - from /\ from + n \in 1 .. Len(s)
        BY <1>1
    <2> QED
        BY <1>1, <2>1 DEF Holds
<1>5. 1 \in Int /\ k \in Int /\ k - 1 + 1 = k
    OBVIOUS
<1>6. /\ SubSeq(buf, 1, k) \in Seq(Byte) /\ Len(SubSeq(buf, 1, k)) = IF 1 <= k THEN k - 1 + 1 ELSE 0
      /\ \A n \in 1 .. k - 1 + 1 : SubSeq(buf, 1, k)[n] = buf[1 + n - 1]
    BY <1>4, <1>5, SubSeqProperties
<1>7. Len(SubSeq(buf, 1, k)) = k /\ \A n \in 1 .. k : SubSeq(buf, 1, k)[n] = buf[n]
    <2>1. \A n \in 1 .. k : 1 + n - 1 = n
        OBVIOUS
    <2> QED
        BY <1>5, <1>6, <2>1
<1>8. \A n \in 1 .. k : SubSeq(buf, 1, k)[n] = SubSeq(s, from + 1, t)[n]
    BY <1>3, <1>4, <1>7
<1> HIDE DEF s, t
<1>9. SubSeq(buf, 1, k) = SubSeq(s, from + 1, t)
    BY <1>3, <1>6, <1>7, <1>8, SeqEqual
<1> QED
    BY <1>9 DEF s, t

\* The string in the buffer is the line.
LEMMA StringOfLine ==
    ASSUME NEW a \in Answers, NEW from, NEW to, IsLine(a.bytes, from, to),
           NEW buf, Holds(buf, a.bytes, from, to)
    PROVE  String(buf) = SubSeq(a.bytes, from + 1, to)
<1> DEFINE s == a.bytes
           k == to - from
<1>1. s \in Seq(Byte) /\ Len(s) \in Nat /\ \A n \in 1 .. Len(s) : s[n] # NUL
    BY AnswerIs
<1>2. from \in Nat /\ to \in Nat /\ from < to /\ to <= Len(s) /\ from \in 0 .. Len(s) /\ to \in 0 .. Len(s)
    BY <1>1 DEF IsLine
<1>3. k < MAXLINE
    BY <1>2, AnswerIs
<1>4. k + 1 \in 1 .. MAXLINE /\ k + 1 - 1 = k /\ k \in 0 .. to - from
    BY <1>2, <1>3, RioAssumption
<1>5. buf[k + 1] = NUL
    BY DEF Holds
<1>6. \A n \in 1 .. k : buf[n] # NUL
    <2> SUFFICES ASSUME NEW n \in 1 .. k PROVE buf[n] # NUL
        OBVIOUS
    <2>1. from + n \in 1 .. Len(s) /\ buf[n] = s[from + n]
        BY <1>1, <1>2 DEF Holds
    <2> QED
        BY <1>1, <2>1
<1>7. String(buf) = SubSeq(buf, 1, k)
    <2> HIDE DEF k
    <2> QED BY <1>4, <1>5, <1>6, StringIs
<1>8. SubSeq(buf, 1, k) = SubSeq(s, from + 1, from + k) /\ from + k = to
    <2>1. from + k = to
        BY <1>2
    <2> QED BY <1>2, <1>4, <2>1, FirstBytes
<1> QED
    BY <1>7, <1>8

\* What is befriended is the line less its newline.
LEMMA TrimmedLine ==
    ASSUME NEW a \in Answers, NEW from, NEW to, IsLine(a.bytes, from, to),
           NEW buf, Holds(buf, a.bytes, from, to)
    PROVE  SubSeq(buf, 1, Len(String(buf)) - 1) = SubSeq(a.bytes, from + 1, to - 1)
<1> DEFINE s == a.bytes
           j == to - from - 1
<1>1. s \in Seq(Byte) /\ Len(s) \in Nat
    BY AnswerIs
<1>2. from \in Nat /\ to \in Nat /\ from < to /\ to <= Len(s) /\ to \in 0 .. Len(s) /\ from \in 0 .. to
      /\ j \in 0 .. to - from /\ from + j = to - 1
    BY <1>1 DEF IsLine
<1>3. Len(SubSeq(s, from + 1, to)) = to - from
    BY <1>1, <1>2, Piece
<1>4. String(buf) = SubSeq(s, from + 1, to)
    BY StringOfLine, Zenon
<1>5. SubSeq(buf, 1, j) = SubSeq(s, from + 1, from + j)
    <2> HIDE DEF j
    <2> QED BY <1>2, FirstBytes
<1> QED
    BY <1>2, <1>3, <1>4, <1>5

\* An empty line is one of CR and newline.
LEMMA BlankLine ==
    ASSUME NEW a \in Answers, NEW from, NEW to, IsLine(a.bytes, from, to),
           NEW buf, Holds(buf, a.bytes, from, to)
    PROVE  Blank(buf) <=> to = from + 2 /\ EmptyLine(a.bytes, from)
<1> DEFINE s == a.bytes
           line == SubSeq(s, from + 1, to)
<1>1. s \in Seq(Byte) /\ Len(s) \in Nat
    BY AnswerIs
<1>2. from \in Nat /\ to \in Nat /\ from < to /\ to <= Len(s) /\ to \in 0 .. Len(s) /\ from \in 0 .. to
      /\ s[to] = NL
    BY <1>1 DEF IsLine
<1>3. /\ line \in Seq(Byte) /\ Len(line) = to - from
      /\ \A n \in 1 .. to - from : line[n] = s[from + n]
    BY <1>1, <1>2, Piece
<1>4. Blank(buf) <=> line = <<CR, NL>>
    <2>1. String(buf) = SubSeq(s, from + 1, to)
        BY StringOfLine, Zenon
    <2> QED
        BY <2>1 DEF Blank
<1> HIDE DEF line
<1>5. ASSUME line = <<CR, NL>> PROVE to = from + 2 /\ s[from + 1] = CR
    <2>1. Len(line) = 2 /\ line[1] = CR
        BY <1>5
    <2>2. to - from = 2
        BY <1>3, <2>1
    <2>3. to = from + 2
        BY <1>2, <2>2
    <2>4. 1 \in 1 .. to - from
        BY <2>2
    <2>5. line[1] = s[from + 1]
        BY <1>3, <2>4
    <2> QED
        BY <2>1, <2>3, <2>5
<1>6. ASSUME to = from + 2, s[from + 1] = CR PROVE line = <<CR, NL>>
    <2>1. to - from = 2
        BY <1>2, <1>6
    <2>2. Len(line) = 2 /\ 1 \in 1 .. to - from /\ 2 \in 1 .. to - from
        BY <1>3, <2>1
    <2>3. line[1] = CR
        BY <1>3, <1>6, <2>2
    <2>4. line[2] = NL
        BY <1>2, <1>3, <1>6, <2>2
    <2>5. CR \in Byte /\ NL \in Byte
        BY <1>1, <1>3, <2>2, <2>3, <2>4
    <2>6. <<CR, NL>> \in Seq(Byte) /\ Len(<<CR, NL>>) = 2 /\ <<CR, NL>>[1] = CR /\ <<CR, NL>>[2] = NL
        BY <2>5
    <2>7. \A n \in 1 .. Len(line) : n = 1 \/ n = 2
        BY <2>2
    <2> QED
        BY <1>3, <2>2, <2>3, <2>4, <2>6, <2>7, SeqEqual
<1>7. EmptyLine(s, from) <=> IsLine(s, from, from + 2) /\ s[from + 1] = CR
    BY DEF EmptyLine
<1> QED
    BY <1>4, <1>5, <1>6, <1>7

\* A status line is not empty, even if nothing of it was read but its beginning.
LEMMA StatusIsNotBlank ==
    ASSUME NEW buf, \E n \in 1 .. MAXLINE : buf[n] = NUL, buf[1] = "200"
    PROVE  ~Blank(buf)
<1> DEFINE S == {n \in 1 .. MAXLINE : buf[n] = NUL}
<1>1. S \in SUBSET Nat /\ S # {}
    OBVIOUS
<1>2. PICK k \in S : \A m \in S : k <= m
    BY <1>1, Least
<1>3. k \in 1 .. MAXLINE /\ buf[k] = NUL /\ \A n \in 1 .. k - 1 : buf[n] # NUL
    BY <1>2, RioAssumption
<1>4. String(buf) = SubSeq(buf, 1, k - 1)
    BY <1>3, StringIs
<1> DEFINE j == k - 1
           S1 == {buf[n] : n \in 1 .. j}
           line == SubSeq(buf, 1, j)
<1>5. SUFFICES ASSUME line = <<CR, NL>> PROVE FALSE
    BY <1>4 DEF Blank
<1>6. 1 \in Int /\ j \in Int /\ \A n \in 1 .. j : buf[n] \in S1
    BY <1>3
<1>7. /\ Len(SubSeq(buf, 1, j)) = IF 1 <= j THEN j - 1 + 1 ELSE 0
      /\ \A n \in 1 .. j - 1 + 1 : SubSeq(buf, 1, j)[n] = buf[1 + n - 1]
    <2> HIDE DEF j, S1
    <2> QED BY <1>6, SubSeqProperties
<1>8. Len(SubSeq(buf, 1, j)) = 2 /\ SubSeq(buf, 1, j)[1] = CR
    <2> HIDE DEF line
    <2>1. Len(line) = 2 /\ line[1] = CR
        BY <1>5
    <2> QED BY <2>1 DEF line
<1>9. 1 \in 1 .. j - 1 + 1 /\ 1 + 1 - 1 = 1
    BY <1>6, <1>7, <1>8
<1>10. buf[1] = CR
    BY <1>7, <1>8, <1>9
<1> QED
    BY <1>10, SessionsAssumption

-----------------------------------------------------------------------------
(* What a thread has read of another server's answer.                      *)

\* The connection of an introduction to the other server, and what has been made
\* of it, as a value: the lemmas are about the value before and after a step.
View(c) == LET r == Other(c) IN
    [left |-> Left(r), ending |-> ending[r], buf |-> usrbuf[r], rc |-> rc[r], busy |-> calling[r],
     names |-> answer[c].names, whole |-> answer[c].whole, added |-> befriended[c]]

\* Of an answer the other server sends the first n bytes; q are in lines read.
Unread(v, a, q, n) ==
    /\ n \in 0 .. Len(a.bytes) /\ q \in 0 .. n
    /\ Starts(a.bytes, q)
    /\ v.left = SubSeq(a.bytes, q + 1, n)
    /\ v.ending \in {"closed", "reset"}
    /\ v.names = a.names
    /\ v.whole => n = Len(a.bytes) /\ v.ending = "closed"

\* The answer has ended before its time, or there is no connection.
Broken(v) == ~v.whole /\ v.left = <<>> /\ v.ending = "closed"
Refused(v) == ~v.whole /\ v.left = <<>> /\ v.ending = "unconnected" /\ \E n \in 1 .. MAXLINE : v.buf[n] = NUL

\* Where a thread is in the answer: before the end of its status line, ...
InStatus(v) ==
    /\ v.added = {}
    /\ \/ Broken(v) \/ Refused(v)
       \/ \E a \in Answers : \E n \in 0 .. Len(a.bytes) : \E q \in 0 .. n :
            /\ Unread(v, a, q, n)
            /\ IF v.busy THEN q = 0 ELSE IsLine(a.bytes, 0, q) /\ Holds(v.buf, a.bytes, 0, q)

\* in its headers, up to the empty line, ...
InRest(v) ==
    /\ v.added = {}
    /\ \/ Broken(v)
       \/ Refused(v) /\ v.buf[1] = "200"
       \/ \E a \in Answers : \E n \in 0 .. Len(a.bytes) : \E q \in 0 .. n, start \in 2 .. Len(a.bytes) :
            /\ Unread(v, a, q, n) /\ Body(a, start) /\ q <= start
            /\ IF v.busy THEN q # start ELSE Blank(v.buf) <=> q = start

\* or among the names: those of the lines behind are added, the last one perhaps
\* not yet.  What a line cut off or an error leaves is added once.
InNames(v) ==
    \/ /\ Broken(v)
       /\ IF ~v.busy /\ v.rc # 0 THEN v.added \subseteq v.names
          ELSE \E x \in v.added \cup {<<>>} : v.added \subseteq v.names \cup {x}
    \/ \E a \in Answers : \E n \in 0 .. Len(a.bytes) : \E q \in 0 .. n, start \in 2 .. Len(a.bytes) :
        /\ Unread(v, a, q, n) /\ Body(a, start) /\ start <= q
        /\ \/ /\ v.busy \/ (v.rc = 0 /\ q = n)
              /\ v.added = LinesIn(a.bytes, start, q)
           \/ /\ ~v.busy /\ v.rc # 0
              /\ \E from \in start .. q : /\ IsLine(a.bytes, from, q)
                                         /\ Holds(v.buf, a.bytes, from, q)
                                         /\ v.added = LinesIn(a.bytes, start, from)

\* And what an introduction has come to.
Done(v) == /\ v.whole => v.added = v.names
           /\ \E x \in v.added \cup {<<>>} : v.added \subseteq v.names \cup {x}

Introduces(at, v) ==
    /\ at = "status" => InStatus(v)
    /\ at = "rest" => InRest(v)
    /\ at = "names" => InNames(v)
    /\ at \in {"V", "close"} => Done(v)
    /\ at \notin {"status", "rest", "names", "V", "close"} => v.added = {} /\ v.names = {} /\ ~v.whole

AllIntroduce == \A c \in Client : Introduces(pc[c], View(c))

\* What a step of Rio_readlineb makes of a view.
SameTask(v, w) == w.names = v.names /\ w.whole = v.whole /\ w.added = v.added

ReadsOn(v, w) == LET s == v.left IN
    /\ Lines!HasLine(s)
    /\ w.left = SubSeq(s, Lines!LineLength(s) + 1, Len(s)) /\ w.ending = v.ending
    /\ w.buf = Lines!Line(SubSeq(s, 1, Lines!LineLength(s)), v.buf)
    /\ w.rc = Lines!LineLength(s)
ReadsEnd(v, w) == LET s == v.left IN
    /\ ~Lines!HasLine(s) /\ v.ending = "closed"
    /\ w.left = <<>> /\ w.ending = v.ending
    /\ w.rc = Len(s)
ReadsError(v, w) == LET s == v.left IN
    /\ ~Lines!HasLine(s) /\ v.ending \in {"reset", "unconnected"}
    /\ w.left = <<>> /\ w.ending = IF v.ending = "reset" THEN "closed" ELSE v.ending
    /\ w.buf = Lines!Overwritten(s, v.buf)
    /\ w.rc = -1
Reads(v, w) == /\ SameTask(v, w) /\ v.busy /\ ~w.busy
               /\ ReadsOn(v, w) \/ ReadsEnd(v, w) \/ ReadsError(v, w)

\* A line that has come is read, into the buffer.
LEMMA ReadsALine ==
    ASSUME NEW v, NEW w, NEW a \in Answers, NEW q, NEW n, Unread(v, a, q, n),
           SameTask(v, w), ReadsOn(v, w)
    PROVE  \E e \in q + 1 .. n : /\ IsLine(a.bytes, q, e) /\ Unread(w, a, e, n)
                                 /\ Holds(w.buf, a.bytes, q, e) /\ w.rc # 0
<1> DEFINE s == a.bytes
           left == v.left
<1>1. s \in Seq(Byte) /\ Len(s) \in Nat
    BY AnswerIs
<1>2. n \in 0 .. Len(s) /\ q \in 0 .. n /\ left = SubSeq(s, q + 1, n) /\ Starts(s, q)
    BY DEF Unread
<1>3. n \in Nat /\ q \in Nat
    BY <1>1, <1>2
<1>4. left \in Seq(Byte) /\ Len(left) = n - q /\ \A k \in 1 .. n - q : left[k] = s[q + k]
    BY <1>1, <1>2, Piece
<1>5. q < Len(s)
    <2> SUFFICES ASSUME q = Len(s) PROVE FALSE
        BY <1>1, <1>2
    <2>1. Len(left) = 0
        BY <1>1, <1>2, <1>4
    <2>2. ~Lines!HasLine(left)
        BY <1>4, <2>1, NoLineYet, RioAssumption
    <2> QED
        BY <2>2 DEF ReadsOn
<1>6. PICK e \in q + 1 .. Len(s) : IsLine(s, q, e)
    BY <1>2, <1>3, <1>5, NextLine
<1>7. e \in Nat
    BY <1>1, <1>3
<1>8. e <= n
    <2>1. e > n => ~Lines!HasLine(left)
        BY <1>2, <1>6, <1>7, LineHasCome
    <2> QED
        BY <1>3, <1>7, <2>1 DEF ReadsOn
<1>9. Lines!LineLength(left) = e - q
    BY <1>2, <1>6, <1>7, <1>8, LineHasCome
<1> DEFINE m == e - q
<1>10. m \in 1 .. Len(left) /\ q + m = e /\ e \in 1 .. Len(s) /\ m < MAXLINE
    <2>1. m < MAXLINE
        BY <1>1, <1>2, <1>6, AnswerIs
    <2> QED
        BY <1>1, <1>3, <1>4, <1>6, <1>8, <2>1
<1>11. w.left = SubSeq(left, m + 1, Len(left)) /\ w.buf = Lines!Line(SubSeq(left, 1, m), v.buf)
       /\ w.rc = m /\ w.ending = v.ending
    BY <1>9 DEF ReadsOn
<1>12. w.left = SubSeq(s, e + 1, n)
    <2>1. /\ SubSeq(left, m + 1, Len(left)) \in Seq(Byte)
          /\ Len(SubSeq(left, m + 1, Len(left))) = Len(left) - m
          /\ \A k \in 1 .. Len(left) - m : SubSeq(left, m + 1, Len(left))[k] = left[m + k]
        <3>1. Len(left) \in 0 .. Len(left) /\ m \in 0 .. Len(left)
            BY <1>10, <1>4
        <3> HIDE DEF left, m
        <3> QED BY <1>4, <3>1, Piece
    <2>2. /\ SubSeq(s, e + 1, n) \in Seq(Byte)
          /\ Len(SubSeq(s, e + 1, n)) = n - e
          /\ \A k \in 1 .. n - e : SubSeq(s, e + 1, n)[k] = s[e + k]
        <3>1. e \in 0 .. n
            BY <1>3, <1>7, <1>8
        <3> QED BY <1>1, <1>2, <3>1, Piece
    <2>3. Len(left) - m = n - e
        BY <1>3, <1>4, <1>7
    <2>4. ASSUME NEW k \in 1 .. n - e PROVE left[m + k] = s[e + k]
        <3>1. m + k \in 1 .. n - q /\ q + (m + k) = e + k
            BY <1>3, <1>7, <1>8, <1>10
        <3> QED
            BY <1>4, <3>1
    <2>5. \A k \in 1 .. n - e : SubSeq(left, m + 1, Len(left))[k] = SubSeq(s, e + 1, n)[k]
        BY <2>1, <2>2, <2>3, <2>4
    <2> HIDE DEF left, m, s
    <2> QED
        BY <1>11, <2>1, <2>2, <2>3, <2>5, SeqEqual
<1>13. Unread(w, a, e, n)
    <2>1. Starts(s, e) /\ e \in 0 .. n
        BY <1>3, <1>6, <1>7, <1>8 DEF Starts, IsLine
    <2> QED
        BY <1>11, <1>12, <2>1 DEF Unread, SameTask
<1>14. Holds(w.buf, s, q, e)
    <2> DEFINE line == SubSeq(left, 1, m)
    <2>1. line \in Seq(Byte) /\ Len(line) = m /\ \A k \in 1 .. m : line[k] = left[k]
        <3>1. /\ SubSeq(left, 0 + 1, m) \in Seq(Byte) /\ Len(SubSeq(left, 0 + 1, m)) = m - 0
              /\ \A k \in 1 .. m - 0 : SubSeq(left, 0 + 1, m)[k] = left[0 + k]
            <4>1. m \in 0 .. Len(left) /\ 0 \in 0 .. m
                BY <1>10, <1>4
            <4> HIDE DEF left, m
            <4> QED BY <1>4, <4>1, Piece
        <3> QED
            BY <1>10, <3>1
    <2>2. w.buf = [k \in 1 .. MAXLINE |-> IF k <= Len(Append(line, NUL)) THEN Append(line, NUL)[k] ELSE v.buf[k]]
        BY <1>11 DEF Lines!Line, Lines!Overwritten
    <2>3. Len(Append(line, NUL)) = m + 1 /\ Append(line, NUL)[m + 1] = NUL
          /\ \A k \in 1 .. m : Append(line, NUL)[k] = line[k]
        <3>1. line \in Seq(Byte \cup {NUL}) /\ NUL \in Byte \cup {NUL}
            BY <2>1
        <3> HIDE DEF line, m
        <3> QED BY <2>1, <3>1, AppendProperties
    <2>4. m + 1 \in 1 .. MAXLINE /\ \A k \in 1 .. m : k \in 1 .. MAXLINE /\ k <= m + 1
        BY <1>10, RioAssumption
    <2>5. w.buf[m + 1] = NUL
        <3> DEFINE t == Append(line, NUL)
                   j == m + 1
        <3>1. w.buf = [k \in 1 .. MAXLINE |-> IF k <= Len(t) THEN t[k] ELSE v.buf[k]]
            BY <2>2
        <3>2. j \in 1 .. MAXLINE /\ t[j] = NUL /\ j <= Len(t)
            <4>1. m \in Nat
                BY <1>10
            <4>2. j \in 1 .. MAXLINE
                BY <2>4
            <4>3. Len(t) = j /\ t[j] = NUL
                BY <2>3, Zenon
            <4> HIDE DEF m, t
            <4> QED BY <4>1, <4>2, <4>3
        <3> HIDE DEF t, j
        <3>3. w.buf[j] = NUL
            BY <3>1, <3>2
        <3> QED
            BY <3>3 DEF j
    <2>6. \A k \in 1 .. m : w.buf[k] = left[k]
        BY <2>1, <2>2, <2>3, <2>4
    <2>7. \A k \in 1 .. m : left[k] = s[q + k]
        BY <1>4, <1>10
    <2> QED
        BY <2>5, <2>6, <2>7 DEF Holds
<1>15. e \in q + 1 .. n /\ w.rc # 0
    BY <1>3, <1>6, <1>8, <1>10, <1>11
<1> QED
    BY <1>6, <1>13, <1>14, <1>15

\* If it has not, nothing of the answer is left but perhaps the beginning of a line,
\* and then it does not come to its end.
LEMMA NoneHasCome ==
    ASSUME NEW v, NEW a \in Answers, NEW q, NEW n, Unread(v, a, q, n), ~Lines!HasLine(v.left)
    PROVE  Len(v.left) = n - q /\ (q < n => ~v.whole) /\ (q < Len(a.bytes) => ~v.whole)
<1> DEFINE s == a.bytes
           left == v.left
<1>1. s \in Seq(Byte) /\ Len(s) \in Nat
    BY AnswerIs
<1>2. n \in 0 .. Len(s) /\ q \in 0 .. n /\ left = SubSeq(s, q + 1, n) /\ Starts(s, q)
    BY DEF Unread
<1>3. n \in Nat /\ q \in Nat
    BY <1>1, <1>2
<1>4. Len(left) = n - q
    BY <1>1, <1>2, Piece
<1>5. ASSUME v.whole, q < Len(s) PROVE FALSE
    <2>1. n = Len(s)
        BY <1>5 DEF Unread
    <2>2. PICK e \in q + 1 .. Len(s) : IsLine(s, q, e)
        BY <1>2, <1>3, <1>5, NextLine
    <2>3. e \in Nat /\ e <= n
        BY <1>3, <2>1
    <2>4. e <= n => Lines!HasLine(left)
        BY <1>2, <2>2, <2>3, LineHasCome
    <2> QED
        BY <2>3, <2>4
<1>6. q < n => q < Len(s)
    BY <1>1, <1>2, <1>3
<1> QED
    BY <1>4, <1>5, <1>6

\* A call at the end of what was sent, and
LEMMA ReadsTheEnd ==
    ASSUME NEW v, NEW w, NEW a \in Answers, NEW q, NEW n, Unread(v, a, q, n),
           SameTask(v, w), ReadsEnd(v, w)
    PROVE  (q = n /\ w.rc = 0 /\ Unread(w, a, q, n)) \/ (Broken(w) /\ w.rc # 0)
<1>1. Len(v.left) = n - q /\ (q < n => ~v.whole)
    BY NoneHasCome DEF ReadsEnd
<1>2. n \in 0 .. Len(a.bytes) /\ q \in 0 .. n /\ Len(a.bytes) \in Nat
    BY AnswerIs DEF Unread
<1>3. w.left = <<>> /\ w.ending = "closed" /\ w.rc = n - q /\ v.ending = "closed"
    BY <1>1 DEF ReadsEnd
<1>4. ASSUME q < n PROVE Broken(w) /\ w.rc # 0
    BY <1>1, <1>2, <1>3, <1>4 DEF Broken, SameTask
<1>5. ASSUME q = n PROVE w.rc = 0 /\ Unread(w, a, q, n)
    <2>1. v.left = <<>>
        <3>1. v.left = SubSeq(a.bytes, q + 1, n) /\ n < q + 1 /\ q + 1 \in Int /\ n \in Int
            BY <1>2, <1>5 DEF Unread
        <3> QED
            BY <3>1, SubSeqEmpty
    <2>2. w.left = v.left /\ w.ending = v.ending
        BY <1>3, <2>1
    <2>3. Unread(w, a, q, n)
        BY <2>2 DEF Unread, SameTask
    <2> QED
        BY <1>2, <1>3, <1>5, <2>3
<1> QED
    BY <1>2, <1>4, <1>5

\* one on a connection that was reset.
LEMMA ReadsAnError ==
    ASSUME NEW v, NEW w, NEW a \in Answers, NEW q, NEW n, Unread(v, a, q, n),
           SameTask(v, w), ReadsError(v, w)
    PROVE  Broken(w) /\ w.rc # 0
BY DEF Unread, ReadsError, Broken, SameTask

\* No bytes, no line.
LEMMA NoLineInNone == ~Lines!HasLine(<<>>)
BY NoLineYet, EmptyTaken, RioAssumption DEF Partial

\* Nothing comes of a broken connection, nor of one there never was.
LEMMA ReadsBroken ==
    ASSUME NEW v, NEW w, Broken(v), Reads(v, w)
    PROVE  Broken(w) /\ w.rc = 0
<1>1. ReadsEnd(v, w)
    BY NoLineInNone DEF Broken, Reads, ReadsOn, ReadsError
<1>2. Len(v.left) = 0
    <2>1. v.left = <<>>
        BY DEF Broken
    <2> QED BY <2>1, EmptyTaken
<1> QED
    BY <1>1, <1>2 DEF Broken, Reads, ReadsEnd, SameTask

\* A call without a connection leaves the buffer as it was.
LEMMA ReadsRefused ==
    ASSUME NEW v, NEW w, Refused(v), Reads(v, w)
    PROVE  Refused(w) /\ w.buf[1] = v.buf[1]
<1>1. ReadsError(v, w) /\ v.left = <<>>
    BY NoLineInNone DEF Refused, Reads, ReadsOn, ReadsEnd
<1>2. w.buf = [k \in 1 .. MAXLINE |-> IF k <= Len(v.left) THEN v.left[k] ELSE v.buf[k]]
    BY <1>1 DEF ReadsError, Lines!Overwritten
<1>3. Len(v.left) = 0
    BY <1>1, EmptyTaken
<1>4. \A k \in 1 .. MAXLINE : w.buf[k] = v.buf[k]
    <2> SUFFICES ASSUME NEW k \in 1 .. MAXLINE PROVE w.buf[k] = v.buf[k]
        OBVIOUS
    <2>1. ~(k <= Len(v.left))
        BY <1>3, RioAssumption
    <2> QED
        BY <1>2, <2>1
<1>5. 1 \in 1 .. MAXLINE
    BY RioAssumption
<1>6. ~w.whole /\ w.left = <<>> /\ w.ending = "unconnected"
    BY <1>1 DEF Refused, ReadsError, Reads, SameTask
<1> QED
    BY <1>4, <1>5, <1>6 DEF Refused

\* A step of Rio_readlineb while the status line is read.
LEMMA StatusReads ==
    ASSUME NEW v, NEW w, InStatus(v), Reads(v, w)
    PROVE  InStatus(w)
<1>1. w.added = {} /\ v.busy /\ ~w.busy /\ SameTask(v, w)
    BY DEF InStatus, Reads, SameTask
<1>2. CASE Broken(v)
    BY <1>1, <1>2, ReadsBroken DEF InStatus
<1>3. CASE Refused(v)
    BY <1>1, <1>3, ReadsRefused DEF InStatus
<1>4. CASE ~Broken(v) /\ ~Refused(v)
    <2>1. PICK a \in Answers : \E n \in 0 .. Len(a.bytes) : \E q \in 0 .. n :
              Unread(v, a, q, n) /\ IF v.busy THEN q = 0 ELSE IsLine(a.bytes, 0, q) /\ Holds(v.buf, a.bytes, 0, q)
        BY <1>4 DEF InStatus
    <2>2. PICK n \in 0 .. Len(a.bytes) : Unread(v, a, 0, n)
        BY <1>1, <2>1
    <2>3. CASE ReadsOn(v, w)
        <3>1. PICK e \in 0 + 1 .. n : IsLine(a.bytes, 0, e) /\ Unread(w, a, e, n) /\ Holds(w.buf, a.bytes, 0, e)
            BY <1>1, <2>2, <2>3, ReadsALine
        <3>2. e \in 0 .. n
            OBVIOUS
        <3> QED
            BY <1>1, <3>1, <3>2 DEF InStatus
    <2>4. CASE ReadsEnd(v, w)
        <3>1. (0 = n /\ w.rc = 0 /\ Unread(w, a, 0, n)) \/ (Broken(w) /\ w.rc # 0)
            BY <1>1, <2>2, <2>4, ReadsTheEnd
        <3>2. ~v.whole
            <4>1. 0 < Len(a.bytes)
                BY AnswerIs
            <4> QED
                BY <2>2, <2>4, <4>1, NoneHasCome DEF ReadsEnd
        <3>3. Broken(w)
            BY <1>1, <2>4, <3>2 DEF ReadsEnd, Broken, SameTask
        <3> QED
            BY <1>1, <3>3 DEF InStatus
    <2>5. CASE ReadsError(v, w)
        BY <1>1, <2>2, <2>5, ReadsAnError DEF InStatus
    <2> QED
        BY <2>3, <2>4, <2>5 DEF Reads
<1> QED
    BY <1>2, <1>3, <1>4

\* A line that begins before the empty line of an answer ends before it, or is it.
LEMMA UpToTheBody ==
    ASSUME NEW a \in Answers, NEW start \in 2 .. Len(a.bytes), Body(a, start),
           NEW q \in Nat, q < start, NEW e, IsLine(a.bytes, q, e)
    PROVE  e <= start /\ (e = start <=> e = q + 2 /\ EmptyLine(a.bytes, q))
<1> DEFINE s == a.bytes
           b == start - 2
<1>1. s \in Seq(Byte) /\ Len(s) \in Nat /\ CR # NL
    BY AnswerIs, SessionsAssumption
<1>2. b \in Nat /\ start = b + 2 /\ b + 1 \in Nat /\ b + 1 # 0
    BY <1>1
<1>3. EmptyLine(s, b) /\ \A n \in 0 .. start - 3 : ~EmptyLine(s, n)
    BY DEF Body
<1>4. IsLine(s, b, start) /\ s[b + 1] = CR
    <2>1. EmptyLine(s, b) => IsLine(s, b, b + 2) /\ s[b + 1] = CR
        BY DEF EmptyLine
    <2> QED BY <1>2, <1>3, <2>1
<1>5. q \in 0 .. e - 1 /\ e \in 1 .. Len(s) /\ Starts(s, q) /\ \A k \in q + 1 .. e - 1 : s[k] # NL
    BY DEF IsLine, Starts
<1>6. q # b + 1
    BY <1>1, <1>2, <1>4, <1>5 DEF Starts
<1>7. CASE q = b
    <2>1. e = start
        BY <1>1, <1>2, <1>4, <1>7, LineUnique
    <2> QED
        BY <1>2, <1>3, <1>7, <2>1
<1>8. CASE q < b
    <2>1. s[b] = NL
        BY <1>4, <1>8 DEF IsLine
    <2>2. e <= b
        <3>1. ~(b \in q + 1 .. e - 1)
            BY <1>5, <2>1
        <3> QED
            BY <1>1, <1>2, <1>5, <1>8, <3>1
    <2>3. ~EmptyLine(s, q)
        <3>1. q \in 0 .. start - 3
            BY <1>2, <1>8
        <3> QED BY <1>3, <3>1
    <2> QED
        BY <1>1, <1>2, <1>5, <2>2, <2>3
<1> QED
    BY <1>2, <1>6, <1>7, <1>8

\* A step of Rio_readlineb while the headers are read.
LEMMA RestReads ==
    ASSUME NEW v, NEW w, InRest(v), Reads(v, w)
    PROVE  InRest(w)
<1>1. w.added = {} /\ v.busy /\ ~w.busy /\ SameTask(v, w)
    BY DEF InRest, Reads, SameTask
<1>2. CASE Broken(v)
    BY <1>1, <1>2, ReadsBroken DEF InRest
<1>3. CASE Refused(v) /\ v.buf[1] = "200"
    BY <1>1, <1>3, ReadsRefused DEF InRest
<1>4. CASE ~Broken(v) /\ ~(Refused(v) /\ v.buf[1] = "200")
    <2>1. PICK a \in Answers : \E n \in 0 .. Len(a.bytes) : \E q \in 0 .. n, start \in 2 .. Len(a.bytes) :
              /\ Unread(v, a, q, n) /\ Body(a, start) /\ q <= start
              /\ IF v.busy THEN q # start ELSE Blank(v.buf) <=> q = start
        BY <1>4 DEF InRest
    <2>2. PICK n \in 0 .. Len(a.bytes) : \E q \in 0 .. n, start \in 2 .. Len(a.bytes) :
              Unread(v, a, q, n) /\ Body(a, start) /\ q <= start /\ q # start
        BY <1>1, <2>1
    <2>3. PICK q \in 0 .. n, start \in 2 .. Len(a.bytes) :
              Unread(v, a, q, n) /\ Body(a, start) /\ q <= start /\ q # start
        BY <2>2
    <2>4. q \in Nat /\ n \in Nat /\ start \in Nat /\ q < start /\ q < Len(a.bytes) /\ Len(a.bytes) \in Nat
        BY <2>3, AnswerIs
    <2>5. CASE ReadsOn(v, w)
        <3>1. PICK e \in q + 1 .. n : IsLine(a.bytes, q, e) /\ Unread(w, a, e, n) /\ Holds(w.buf, a.bytes, q, e)
            BY <1>1, <2>3, <2>5, ReadsALine
        <3>2. e \in 0 .. n
            BY <2>4
        <3>3. e <= start /\ (e = start <=> e = q + 2 /\ EmptyLine(a.bytes, q))
            BY <2>3, <2>4, <3>1, UpToTheBody
        <3>4. Blank(w.buf) <=> e = q + 2 /\ EmptyLine(a.bytes, q)
            BY <3>1, BlankLine
        <3> QED
            BY <1>1, <2>3, <3>1, <3>2, <3>3, <3>4 DEF InRest
    <2>6. CASE ReadsEnd(v, w)
        <3>1. ~v.whole
            BY <2>3, <2>4, <2>6, NoneHasCome DEF ReadsEnd
        <3>2. Broken(w)
            BY <1>1, <2>6, <3>1 DEF ReadsEnd, Broken, SameTask
        <3> QED
            BY <1>1, <3>2 DEF InRest
    <2>7. CASE ReadsError(v, w)
        BY <1>1, <2>3, <2>7, ReadsAnError DEF InRest
    <2> QED
        BY <2>5, <2>6, <2>7 DEF Reads
<1> QED
    BY <1>2, <1>3, <1>4

\* A step of Rio_readlineb while the names are read.
LEMMA NamesReads ==
    ASSUME NEW v, NEW w, InNames(v), Reads(v, w)
    PROVE  InNames(w)
<1>1. w.added = v.added /\ w.names = v.names /\ v.busy /\ ~w.busy /\ SameTask(v, w)
    BY DEF Reads, SameTask
<1>2. CASE Broken(v) /\ \E x \in v.added \cup {<<>>} : v.added \subseteq v.names \cup {x}
    <2>1. Broken(w) /\ w.rc = 0
        BY <1>2, ReadsBroken
    <2>2. \E x \in w.added \cup {<<>>} : w.added \subseteq w.names \cup {x}
        BY <1>1, <1>2
    <2> QED
        BY <2>1, <2>2 DEF InNames
<1>3. ASSUME NEW a \in Answers, NEW n \in 0 .. Len(a.bytes), NEW q \in 0 .. n, NEW start \in 2 .. Len(a.bytes),
             Unread(v, a, q, n), Body(a, start), start <= q,
             v.added = LinesIn(a.bytes, start, q)
      PROVE  InNames(w)
    <2>1. a.bytes \in Seq(Byte) /\ Len(a.bytes) \in Nat
        BY AnswerIs
    <2>2. v.added \subseteq v.names
        <3>1. LinesIn(a.bytes, start, q) \subseteq LinesIn(a.bytes, start, Len(a.bytes))
            <4>1. start \in Nat /\ q \in Nat /\ q <= Len(a.bytes)
                BY <2>1
            <4> QED BY <2>1, <4>1, MoreLines
        <3>2. a.names = LinesIn(a.bytes, start, Len(a.bytes)) /\ v.names = a.names
            BY <1>3 DEF Body, Unread
        <3> QED
            BY <1>3, <3>1, <3>2
    <2>3. CASE ReadsOn(v, w)
        <3>1. PICK e \in q + 1 .. n : IsLine(a.bytes, q, e) /\ Unread(w, a, e, n)
                                     /\ Holds(w.buf, a.bytes, q, e) /\ w.rc # 0
            BY <1>1, <1>3, <2>3, ReadsALine
        <3>2. e \in 0 .. n /\ start <= e /\ q \in start .. e
            BY <1>3, <2>1
        <3>3. w.added = LinesIn(a.bytes, start, q)
            BY <1>1, <1>3
        <3> QED
            BY <1>1, <1>3, <3>1, <3>2, <3>3 DEF InNames
    <2>4. ASSUME Broken(w), w.rc # 0 PROVE InNames(w)
        <3>1. w.added \subseteq w.names
            BY <1>1, <2>2
        <3> QED
            BY <1>1, <2>4, <3>1 DEF InNames
    <2>5. CASE ReadsEnd(v, w)
        <3>1. (q = n /\ w.rc = 0 /\ Unread(w, a, q, n)) \/ (Broken(w) /\ w.rc # 0)
            BY <1>1, <1>3, <2>5, ReadsTheEnd
        <3>2. CASE q = n /\ w.rc = 0 /\ Unread(w, a, q, n)
            <4>1. w.added = LinesIn(a.bytes, start, q)
                BY <1>1, <1>3
            <4> QED
                BY <1>3, <3>2, <4>1 DEF InNames
        <3> QED
            BY <2>4, <3>1, <3>2
    <2>6. CASE ReadsError(v, w)
        BY <1>1, <1>3, <2>4, <2>6, ReadsAnError
    <2> QED
        BY <2>3, <2>5, <2>6 DEF Reads
<1>4. CASE ~(Broken(v) /\ \E x \in v.added \cup {<<>>} : v.added \subseteq v.names \cup {x})
    <2>1. PICK a \in Answers : \E n \in 0 .. Len(a.bytes) : \E q \in 0 .. n, start \in 2 .. Len(a.bytes) :
              /\ Unread(v, a, q, n) /\ Body(a, start) /\ start <= q /\ v.added = LinesIn(a.bytes, start, q)
        BY <1>1, <1>4 DEF InNames
    <2> QED
        BY <1>3, <2>1
<1> QED
    BY <1>2, <1>4

-----------------------------------------------------------------------------
(* What the thread does with the lines.                                    *)

\* A further call, in which nothing changes but perhaps the buffer.
Calls(v, w) == w.left = v.left /\ w.ending = v.ending /\ w.names = v.names /\ w.whole = v.whole /\ w.busy

\* An answer that is OK has a body.
LEMMA StatusToRest ==
    ASSUME NEW v, InStatus(v), ~v.busy, v.buf[1] = "200"
    PROVE  InRest(v)
<1>1. CASE Broken(v) \/ Refused(v)
    BY <1>1 DEF InStatus, InRest
<1>2. CASE ~(Broken(v) \/ Refused(v))
    <2>1. PICK a \in Answers : \E n \in 0 .. Len(a.bytes) : \E q \in 0 .. n :
              Unread(v, a, q, n) /\ IsLine(a.bytes, 0, q) /\ Holds(v.buf, a.bytes, 0, q)
        BY <1>2 DEF InStatus
    <2>0. PICK n \in 0 .. Len(a.bytes) : \E q \in 0 .. n :
              Unread(v, a, q, n) /\ IsLine(a.bytes, 0, q) /\ Holds(v.buf, a.bytes, 0, q)
        BY <2>1
    <2>2. PICK q \in 0 .. n : Unread(v, a, q, n) /\ IsLine(a.bytes, 0, q) /\ Holds(v.buf, a.bytes, 0, q)
        BY <2>0
    <2>3. 1 \in 1 .. q - 0 /\ 0 + 1 = 1
        BY <2>2 DEF IsLine
    <2>4. a.bytes[1] = "200"
        BY <2>2, <2>3 DEF Holds
    <2>5. PICK start \in 2 .. Len(a.bytes) : Body(a, start)
        BY <2>4, SessionsAssumption DEF Answer
    <2>6. 0 \in Nat /\ 0 < start
        BY AnswerIs
    <2>7. q <= start /\ (q = start <=> q = 0 + 2 /\ EmptyLine(a.bytes, 0))
        BY <2>2, <2>5, <2>6, UpToTheBody
    <2>8. Blank(v.buf) <=> q = 0 + 2 /\ EmptyLine(a.bytes, 0)
        BY <2>2, BlankLine
    <2> QED
        BY <2>2, <2>5, <2>7, <2>8 DEF InStatus, InRest
<1> QED
    BY <1>1, <1>2

\* One that is not has no names.
LEMMA StatusToDone ==
    ASSUME NEW v, NEW w, InStatus(v), ~v.busy, v.buf[1] # "200", SameTask(v, w)
    PROVE  Done(w)
<1>1. ASSUME v.whole PROVE v.names = {}
    <2>1. PICK a \in Answers : \E n \in 0 .. Len(a.bytes) : \E q \in 0 .. n :
              Unread(v, a, q, n) /\ IsLine(a.bytes, 0, q) /\ Holds(v.buf, a.bytes, 0, q)
        BY <1>1 DEF InStatus, Broken, Refused
    <2>0. PICK n \in 0 .. Len(a.bytes) : \E q \in 0 .. n :
              Unread(v, a, q, n) /\ IsLine(a.bytes, 0, q) /\ Holds(v.buf, a.bytes, 0, q)
        BY <2>1
    <2>2. PICK q \in 0 .. n : Unread(v, a, q, n) /\ IsLine(a.bytes, 0, q) /\ Holds(v.buf, a.bytes, 0, q)
        BY <2>0
    <2>3. 1 \in 1 .. q - 0 /\ 0 + 1 = 1
        BY <2>2 DEF IsLine
    <2>4. a.bytes[1] # "200"
        BY <2>2, <2>3 DEF Holds
    <2>5. a.names = {}
        BY <2>4, SessionsAssumption DEF Answer
    <2> QED
        BY <2>2, <2>5 DEF Unread
<1> QED
    BY <1>1 DEF InStatus, Done, SameTask

\* The headers are passed over, up to the empty line.
LEMMA RestOn ==
    ASSUME NEW v, NEW w, InRest(v), ~v.busy, ~Blank(v.buf),
           Calls(v, w), w.buf = v.buf, w.added = v.added
    PROVE  InRest(w)
<1>1. CASE Broken(v)
    BY <1>1 DEF InRest, Broken, Calls
<1>2. CASE Refused(v) /\ v.buf[1] = "200"
    BY <1>2 DEF InRest, Refused, Calls
<1>3. CASE ~Broken(v) /\ ~(Refused(v) /\ v.buf[1] = "200")
    <2>1. PICK a \in Answers : \E n \in 0 .. Len(a.bytes) : \E q \in 0 .. n, start \in 2 .. Len(a.bytes) :
              Unread(v, a, q, n) /\ Body(a, start) /\ q <= start /\ q # start
        BY <1>3 DEF InRest
    <2>2. PICK n \in 0 .. Len(a.bytes) : \E q \in 0 .. n, start \in 2 .. Len(a.bytes) :
              Unread(v, a, q, n) /\ Body(a, start) /\ q <= start /\ q # start
        BY <2>1
    <2>3. PICK q \in 0 .. n, start \in 2 .. Len(a.bytes) :
              Unread(v, a, q, n) /\ Body(a, start) /\ q <= start /\ q # start
        BY <2>2
    <2>4. Unread(w, a, q, n)
        BY <2>3 DEF Unread, Calls
    <2> QED
        BY <2>3, <2>4 DEF InRest, Calls
<1> QED
    BY <1>1, <1>2, <1>3

\* Behind it there are the names.
LEMMA RestToNames ==
    ASSUME NEW v, NEW w, InRest(v), ~v.busy, Blank(v.buf),
           Calls(v, w), w.added = v.added
    PROVE  InNames(w)
<1>1. w.added = {} /\ w.busy
    BY DEF InRest, Calls
<1>2. CASE Broken(v)
    BY <1>1, <1>2 DEF InNames, Broken, Calls
<1>3. ~(Refused(v) /\ v.buf[1] = "200")
    BY StatusIsNotBlank DEF Refused
<1>4. CASE ~Broken(v)
    <2>1. PICK a \in Answers : \E n \in 0 .. Len(a.bytes) : \E q \in 0 .. n, start \in 2 .. Len(a.bytes) :
              Unread(v, a, q, n) /\ Body(a, start) /\ q = start
        BY <1>3, <1>4 DEF InRest
    <2>2. PICK n \in 0 .. Len(a.bytes) : \E q \in 0 .. n, start \in 2 .. Len(a.bytes) :
              Unread(v, a, q, n) /\ Body(a, start) /\ q = start
        BY <2>1
    <2>3. PICK q \in 0 .. n, start \in 2 .. Len(a.bytes) :
              Unread(v, a, q, n) /\ Body(a, start) /\ q = start
        BY <2>2
    <2>4. Unread(w, a, q, n)
        BY <2>3 DEF Unread, Calls
    <2>5. LinesIn(a.bytes, start, q) = {} /\ start <= q
        BY <2>3, AnswerIs, NoLinesYet
    <2> QED
        BY <1>1, <2>3, <2>4, <2>5 DEF InNames
<1> QED
    BY <1>2, <1>4

\* A name is added, and the next line asked for.
LEMMA NamesOn ==
    ASSUME NEW v, NEW w, InNames(v), ~v.busy, v.rc # 0, Calls(v, w),
           w.added = v.added \cup {SubSeq(v.buf, 1, Len(String(v.buf)) - 1)}
    PROVE  InNames(w)
<1> DEFINE name == SubSeq(v.buf, 1, Len(String(v.buf)) - 1)
<1>1. w.added = v.added \cup {name} /\ w.busy
    BY DEF Calls
<1> HIDE DEF name
<1>2. CASE Broken(v) /\ v.added \subseteq v.names
    <2>1. Broken(w) /\ w.names = v.names
        BY <1>2 DEF Broken, Calls
    <2>2. name \in w.added \cup {<<>>} /\ w.added \subseteq w.names \cup {name}
        BY <1>1, <1>2, <2>1
    <2> QED
        BY <1>1, <2>1, <2>2 DEF InNames
<1>3. CASE ~(Broken(v) /\ v.added \subseteq v.names)
    <2>1. PICK a \in Answers : \E n \in 0 .. Len(a.bytes) : \E q \in 0 .. n, start \in 2 .. Len(a.bytes) :
              /\ Unread(v, a, q, n) /\ Body(a, start) /\ start <= q
              /\ \E from \in start .. q : /\ IsLine(a.bytes, from, q) /\ Holds(v.buf, a.bytes, from, q)
                                         /\ v.added = LinesIn(a.bytes, start, from)
        BY <1>3 DEF InNames
    <2>2. PICK n \in 0 .. Len(a.bytes) : \E q \in 0 .. n, start \in 2 .. Len(a.bytes) :
              /\ Unread(v, a, q, n) /\ Body(a, start) /\ start <= q
              /\ \E from \in start .. q : /\ IsLine(a.bytes, from, q) /\ Holds(v.buf, a.bytes, from, q)
                                         /\ v.added = LinesIn(a.bytes, start, from)
        BY <2>1
    <2>3. PICK q \in 0 .. n, start \in 2 .. Len(a.bytes) :
              /\ Unread(v, a, q, n) /\ Body(a, start) /\ start <= q
              /\ \E from \in start .. q : /\ IsLine(a.bytes, from, q) /\ Holds(v.buf, a.bytes, from, q)
                                         /\ v.added = LinesIn(a.bytes, start, from)
        BY <2>2
    <2>4. PICK from \in start .. q : /\ IsLine(a.bytes, from, q) /\ Holds(v.buf, a.bytes, from, q)
                                    /\ v.added = LinesIn(a.bytes, start, from)
        BY <2>3
    <2>5. name = SubSeq(a.bytes, from + 1, q - 1)
        BY <2>4, TrimmedLine, Zenon DEF name
    <2>6. LinesIn(a.bytes, start, q) = LinesIn(a.bytes, start, from) \cup {SubSeq(a.bytes, from + 1, q - 1)}
        <3>1. a.bytes \in Seq(Byte) /\ start \in Nat /\ start <= from
            BY AnswerIs
        <3>2. IsLine(a.bytes, from, q)
            BY <2>4
        <3>3. from \in Nat /\ q \in Nat
            BY <2>4, AnswerIs DEF IsLine
        <3> QED
            BY <3>1, <3>2, <3>3, OneLineMore
    <2>7. w.added = LinesIn(a.bytes, start, q)
        BY <1>1, <2>4, <2>5, <2>6
    <2>8. Unread(w, a, q, n)
        BY <2>3 DEF Unread, Calls
    <2> QED
        BY <1>1, <2>3, <2>7, <2>8 DEF InNames
<1> QED
    BY <1>2, <1>3

\* The end of the names.
LEMMA NamesToDone ==
    ASSUME NEW v, NEW w, InNames(v), ~v.busy, v.rc = 0, SameTask(v, w)
    PROVE  Done(w)
<1>1. CASE Broken(v) /\ \E x \in v.added \cup {<<>>} : v.added \subseteq v.names \cup {x}
    BY <1>1 DEF Broken, Done, SameTask
<1>2. CASE ~(Broken(v) /\ \E x \in v.added \cup {<<>>} : v.added \subseteq v.names \cup {x})
    <2>1. PICK a \in Answers : \E n \in 0 .. Len(a.bytes) : \E q \in 0 .. n, start \in 2 .. Len(a.bytes) :
              /\ Unread(v, a, q, n) /\ Body(a, start) /\ q = n /\ v.added = LinesIn(a.bytes, start, q)
        BY <1>2 DEF InNames
    <2>2. PICK n \in 0 .. Len(a.bytes) : \E q \in 0 .. n, start \in 2 .. Len(a.bytes) :
              /\ Unread(v, a, q, n) /\ Body(a, start) /\ q = n /\ v.added = LinesIn(a.bytes, start, q)
        BY <2>1
    <2>3. PICK start \in 2 .. Len(a.bytes) :
              /\ Unread(v, a, n, n) /\ Body(a, start) /\ v.added = LinesIn(a.bytes, start, n)
        BY <2>2
    <2>4. v.names = LinesIn(a.bytes, start, Len(a.bytes))
        BY <2>3 DEF Unread, Body
    <2>5. LinesIn(a.bytes, start, n) \subseteq LinesIn(a.bytes, start, Len(a.bytes))
        <3>1. a.bytes \in Seq(Byte) /\ start \in Nat /\ n \in Nat /\ n <= Len(a.bytes)
            BY AnswerIs
        <3> QED
            BY <3>1, MoreLines
    <2>6. v.whole => n = Len(a.bytes)
        BY <2>3 DEF Unread
    <2> QED
        BY <2>3, <2>4, <2>5, <2>6 DEF Done, SameTask
<1> QED
    BY <1>1, <1>2

-----------------------------------------------------------------------------
(* The steps of the server.                                                *)

\* A reader that a step leaves alone.
ReaderKept(r) == /\ Left(r)' = Left(r) /\ ending'[r] = ending[r] /\ usrbuf'[r] = usrbuf[r]
                 /\ rc'[r] = rc[r] /\ calling'[r] = calling[r]

\* A step of one thread keeps the readers of the others.
LEMMA OthersKept ==
    ASSUME RioInv, NEW r \in Reader, NEW q \in Reader \ {r},
           \/ rio_readlineb(r) \/ Rio_gone(r)
           \/ \E bytes, end, old : Rio_readinitb(r, bytes, end, old)
           \/ \E buf : Rio_readlineb(r, buf)
    PROVE  ReaderKept(q)
<1>1. CASE rio_readlineb(r)
    <2>1. CASE Refill(r)
        BY <2>1 DEF Refill, RioInv, RioTypeOK, ReaderKept, Left
    <2>2. CASE EndOfFile(r)
        BY <2>2 DEF EndOfFile, Return, RioInv, RioTypeOK, ReaderKept, Left
    <2>3. CASE Error(r)
        BY <2>3 DEF Error, Return, RioInv, RioTypeOK, ReaderKept, Left
    <2>4. CASE Take(r)
        BY <2>4 DEF Take, Return, RioInv, RioTypeOK, ReaderKept, Left
    <2> QED
        BY <1>1, <2>1, <2>2, <2>3, <2>4 DEF rio_readlineb
<1>2. CASE Rio_gone(r)
    BY <1>2 DEF Rio_gone, RioInv, RioTypeOK, ReaderKept, Left
<1>3. CASE \E bytes, end, old : Rio_readinitb(r, bytes, end, old)
    BY <1>3 DEF Rio_readinitb, RioInv, RioTypeOK, ReaderKept, Left
<1>4. CASE \E buf : Rio_readlineb(r, buf)
    BY <1>4 DEF Rio_readlineb, RioInv, RioTypeOK, ReaderKept, Left
<1> QED
    BY <1>1, <1>2, <1>3, <1>4

\* A new connection, and a further call on an old one.
LEMMA OpenView ==
    ASSUME RioInv, NEW r \in Reader, NEW bytes \in Seq(Byte), NEW end, NEW old,
           Rio_readinitb(r, bytes, end, old)
    PROVE  /\ Left(r)' = bytes /\ ending'[r] = end /\ usrbuf'[r] = old /\ calling'[r]
<1>1. taken'[r] = <<>> /\ rio_buf'[r] = <<>> /\ coming'[r] = bytes
    BY DEF Rio_readinitb, RioInv, RioTypeOK
<1>2. Left(r)' = <<>> \o <<>> \o bytes
    BY <1>1 DEF Left
<1> QED
    BY <1>2, EmptyTaken DEF Rio_readinitb, RioInv, RioTypeOK

\* What a step of Rio_readlineb does to the view of the connection.
LEMMA CallView ==
    ASSUME RioInv, NEW r \in Reader, ~calling[r], NEW buf, Rio_readlineb(r, buf)
    PROVE  /\ Left(r)' = Left(r) /\ ending'[r] = ending[r] /\ usrbuf'[r] = buf /\ calling'[r]
<1>1. taken'[r] = <<>> /\ taken[r] = <<>> /\ rio_buf' = rio_buf /\ coming' = coming
    BY DEF Rio_readlineb, RioInv, RioTypeOK, Unfinished
<1> QED
    BY <1>1 DEF Rio_readlineb, RioInv, RioTypeOK, Left

\* What introductions are about; in which variables there is a value for each client.
Tasks == /\ pc = [c \in Client |-> pc[c]]
         /\ answer = [c \in Client |-> answer[c]]
         /\ befriended = [c \in Client |-> befriended[c]]

IntroInv == RioInv /\ Tasks /\ AllIntroduce

\* A step of Rio_readlineb either shows or does not.
LEMMA ReadView ==
    ASSUME IntroInv, NEW c \in Client, Read(Other(c))
    PROVE  View(c)' = View(c) \/ Reads(View(c), View(c)')
<1> DEFINE r == Other(c)
<1>1. r \in Reader /\ RioInv /\ rio_readlineb(r)
    BY ReadersOfClients DEF IntroInv, Read
<1>2. answer' = answer /\ befriended' = befriended
    BY DEF Read, session_vars
<1>4. CASE Refill(r)
    <2>1. Left(r)' = Left(r)
        BY <1>1, <1>4, RefillFacts DEF Lines!stream_vars, Left
    <2> QED
        BY <1>2, <1>4, <2>1 DEF Refill, View
<1>5. CASE EndOfFile(r)
    <2>1. Lines!ReadEnd(r) /\ calling[r] /\ ~calling'[r]
        BY <1>1, <1>5, EndFacts DEF EndOfFile, Return, RioInv, RioTypeOK
    <2>2. /\ ~Lines!HasLine(Left(r)) /\ ending[r] = "closed" /\ Left(r)' = <<>>
          /\ rc'[r] = Len(Left(r)) /\ ending'[r] = ending[r]
        BY <1>1, <2>1 DEF Lines!ReadEnd, Left, RioInv, RioTypeOK
    <2> QED
        BY <1>2, <2>1, <2>2 DEF View, Reads, SameTask, ReadsEnd
<1>6. CASE Error(r)
    <2>1. Lines!ReadError(r) /\ calling[r] /\ ~calling'[r]
        BY <1>1, <1>6, ErrorFacts DEF Error, Return, RioInv, RioTypeOK
    <2>2. /\ ~Lines!HasLine(Left(r)) /\ ending[r] \in {"reset", "unconnected"} /\ Left(r)' = <<>>
          /\ rc'[r] = -1 /\ ending'[r] = IF ending[r] = "reset" THEN "closed" ELSE ending[r]
          /\ usrbuf'[r] = Lines!Overwritten(Left(r), usrbuf[r])
        BY <1>1, <2>1 DEF Lines!ReadError, Left, RioInv, RioTypeOK
    <2> QED
        BY <1>2, <2>1, <2>2 DEF View, Reads, SameTask, ReadsError
<1>7. CASE Take(r)
    <2>1. \/ Lines!ReadLine(r) /\ calling' = [calling EXCEPT ![r] = FALSE]
          \/ UNCHANGED <<Lines!stream_vars, calling>>
        BY <1>1, <1>7, TakeFacts
    <2>2. CASE Lines!ReadLine(r) /\ calling' = [calling EXCEPT ![r] = FALSE]
        <3>1. calling[r] /\ ~calling'[r]
            BY <1>1, <1>7, <2>2 DEF Take, RioInv, RioTypeOK
        <3>2. /\ Lines!HasLine(Left(r)) /\ ending'[r] = ending[r]
              /\ Left(r)' = SubSeq(Left(r), Lines!LineLength(Left(r)) + 1, Len(Left(r)))
              /\ usrbuf'[r] = Lines!Line(SubSeq(Left(r), 1, Lines!LineLength(Left(r))), usrbuf[r])
              /\ rc'[r] = Lines!LineLength(Left(r))
            BY <1>1, <2>2 DEF Lines!ReadLine, Left, RioInv, RioTypeOK
        <3> QED
            BY <1>2, <3>1, <3>2 DEF View, Reads, SameTask, ReadsOn
    <2>3. CASE UNCHANGED <<Lines!stream_vars, calling>>
        <3>1. Left(r)' = Left(r)
            BY <1>1, <2>3 DEF Lines!stream_vars, Left
        <3> QED
            BY <1>2, <2>3, <3>1 DEF View, Lines!stream_vars
    <2> QED
        BY <2>1, <2>2, <2>3
<1> QED
    BY <1>1, <1>4, <1>5, <1>6, <1>7 DEF rio_readlineb

\* Steps of a thread that leave its connection to another server alone, and those
\* that are about it.
AtHome(c) == \/ Hangup(c) \/ RequestLine(c) \/ Headers(c) \/ P(c) \/ V(c) \/ Close(c)
             \/ Accept(c) \/ Read(Own(c))
Abroad(c) == \/ Connect(c) \/ ConnectFails(c) \/ StatusOK(c) \/ NotOK(c) \/ NoStatus(c)
             \/ Rest(c) \/ Befriend(c) \/ Introduced(c) \/ Read(Other(c))

\* No two readers are the same.
LEMMA ReadersApart ==
    \A c, d \in Client : /\ Own(c) # Other(d)
                        /\ c # d => Own(c) # Own(d) /\ Other(c) # Other(d)
BY DEF Own, Other

\* A step that leaves the readers alone keeps them all.
LEMMA UnchangedReaders == ASSUME UNCHANGED rio_vars PROVE \A r \in Reader : ReaderKept(r)
BY DEF rio_vars, ReaderKept, Left

\* A step at home is about the reader of the client only.
LEMMA HomeKeeps ==
    ASSUME IntroInv, NEW c \in Client, AtHome(c), NEW r \in Reader, r # Own(c)
    PROVE  ReaderKept(r)
<1>1. RioInv /\ Own(c) \in Reader /\ r \in Reader \ {Own(c)}
    BY ReadersOfClients DEF IntroInv
<1>2. \/ UNCHANGED rio_vars \/ rio_readlineb(Own(c)) \/ Rio_gone(Own(c))
      \/ \E bytes, end, old : Rio_readinitb(Own(c), bytes, end, old)
      \/ \E buf : Rio_readlineb(Own(c), buf)
    <2>1. CASE Accept(c)
        BY <2>1 DEF Accept
    <2>2. CASE Hangup(c) \/ Close(c)
        BY <2>2 DEF Hangup, Close
    <2>3. CASE RequestLine(c)
        BY <2>3 DEF RequestLine
    <2>4. CASE Headers(c)
        BY <2>4 DEF Headers
    <2>5. CASE P(c) \/ V(c)
        BY <2>5 DEF P, V
    <2>6. CASE Read(Own(c))
        BY <2>6 DEF Read
    <2> QED
        BY <2>1, <2>2, <2>3, <2>4, <2>5, <2>6 DEF AtHome
<1> QED
    BY <1>1, <1>2, OthersKept, UnchangedReaders

\* A step abroad is about that of the connection to the other server only.
LEMMA AbroadKeeps ==
    ASSUME IntroInv, NEW c \in Client, Abroad(c), NEW r \in Reader, r # Other(c)
    PROVE  ReaderKept(r)
<1>1. RioInv /\ Other(c) \in Reader /\ r \in Reader \ {Other(c)}
    BY ReadersOfClients DEF IntroInv
<1>2. \/ UNCHANGED rio_vars \/ rio_readlineb(Other(c)) \/ Rio_gone(Other(c))
      \/ \E bytes, end, old : Rio_readinitb(Other(c), bytes, end, old)
      \/ \E buf : Rio_readlineb(Other(c), buf)
    <2>1. CASE Connect(c)
        BY <2>1 DEF Connect
    <2>2. CASE NotOK(c) \/ Introduced(c)
        BY <2>2 DEF NotOK, Introduced
    <2>3. CASE Rest(c) \/ Befriend(c)
        BY <2>3 DEF Rest, Befriend
    <2>4. CASE ConnectFails(c)
        BY <2>4 DEF ConnectFails
    <2>5. CASE StatusOK(c) \/ NoStatus(c)
        BY <2>5 DEF StatusOK, NoStatus
    <2>6. CASE Read(Other(c))
        BY <2>6 DEF Read
    <2> QED
        BY <2>1, <2>2, <2>3, <2>4, <2>5, <2>6 DEF Abroad
<1> QED
    BY <1>1, <1>2, OthersKept, UnchangedReaders

\* The view of a thread whose state and reader are kept is kept.
LEMMA SameView ==
    ASSUME NEW d \in Client, ReaderKept(Other(d)), answer'[d] = answer[d], befriended'[d] = befriended[d]
    PROVE  View(d)' = View(d)
BY DEF ReaderKept, View

\* A step changes only what belongs to its own client.
LEMMA OnlyItsOwn ==
    ASSUME IntroInv, NEW c \in Client, AtHome(c) \/ Abroad(c)
    PROVE  /\ Tasks'
           /\ \A d \in Client \ {c} : /\ pc'[d] = pc[d] /\ answer'[d] = answer[d]
                                      /\ befriended'[d] = befriended[d]
<1> USE DEF IntroInv, Tasks, Goto
<1>1. CASE Hangup(c) \/ RequestLine(c) \/ Headers(c) \/ P(c) \/ V(c) \/ Accept(c)
    BY <1>1 DEF Hangup, RequestLine, Headers, P, V, Accept
<1>2. CASE Close(c)
    BY <1>2 DEF Close
<1>3. CASE Connect(c)
    <2>1. \E x : answer' = [answer EXCEPT ![c] = x]
        BY <1>3 DEF Connect
    <2>2. pc' = [pc EXCEPT ![c] = "status"] /\ befriended' = befriended
        BY <1>3 DEF Connect
    <2> QED
        BY <2>1, <2>2
<1>4. CASE ConnectFails(c) \/ StatusOK(c) \/ NotOK(c) \/ NoStatus(c) \/ Rest(c) \/ Introduced(c)
    BY <1>4 DEF ConnectFails, StatusOK, NotOK, NoStatus, Rest, Introduced
<1>5. CASE Befriend(c)
    BY <1>5 DEF Befriend
<1>6. CASE Read(Own(c)) \/ Read(Other(c))
    BY <1>6 DEF Read, session_vars
<1> QED
    BY <1>1, <1>2, <1>3, <1>4, <1>5, <1>6 DEF AtHome, Abroad

\* The steps at home.
LEMMA HomeStep ==
    ASSUME IntroInv, NEW c \in Client, AtHome(c)
    PROVE  Introduces(pc'[c], View(c)')
<1>1. Introduces(pc[c], View(c)) /\ Tasks
    BY DEF IntroInv, AllIntroduce
<1>2. ReaderKept(Other(c))
    <2>1. Other(c) \in Reader
        BY ReadersOfClients
    <2>2. Other(c) # Own(c)
        BY DEF Own, Other
    <2> QED BY <2>1, <2>2, HomeKeeps
<1>3. PICK v, w : v = View(c) /\ w = View(c)'
    OBVIOUS
<1>4. Introduces(pc[c], v)
    BY <1>1, <1>3
<1>5. v.names = answer[c].names /\ v.whole = answer[c].whole /\ v.added = befriended[c]
    BY <1>3 DEF View
<1>6. w.names = answer'[c].names /\ w.whole = answer'[c].whole /\ w.added = befriended'[c]
    BY <1>3 DEF View
<1>7. CASE answer' = answer /\ befriended' = befriended
    <2>1. w = v
        BY <1>2, <1>3, <1>7, SameView
    <2>2. CASE Hangup(c) \/ RequestLine(c) \/ Headers(c) \/ Accept(c) \/ P(c)
        <3>1. pc[c] \notin {"status", "rest", "names", "V", "close"}
            BY <2>2 DEF Hangup, RequestLine, Headers, Accept, P
        <3>2. v.added = {} /\ v.names = {} /\ ~v.whole
            BY <1>4, <3>1 DEF Introduces
        <3>3. pc'[c] \notin {"status", "rest", "names"}
            BY <1>1, <2>2, <3>1 DEF Hangup, RequestLine, Headers, Accept, P, Goto, Tasks
        <3>4. Done(v)
            BY <3>2 DEF Done
        <3> QED
            BY <1>3, <2>1, <3>2, <3>3, <3>4 DEF Introduces
    <2>3. CASE V(c)
        <3>1. pc[c] = "V" /\ pc'[c] = "close"
            BY <1>1, <2>3 DEF V, Goto, Tasks
        <3> QED
            BY <1>3, <1>4, <2>1, <3>1 DEF Introduces
    <2>4. CASE Close(c)
        <3>1. pc'[c] = "idle" /\ befriended'[c] = {} /\ answer'[c] = NoAnswer
            BY <1>1, <2>4 DEF Close, Goto, Tasks
        <3> QED
            BY <1>3, <1>6, <3>1 DEF Introduces, NoAnswer
    <2>5. CASE Read(Own(c))
        <3>1. pc' = pc
            BY <2>5 DEF Read, session_vars
        <3> QED
            BY <1>3, <1>4, <2>1, <3>1
    <2> QED
        BY <2>2, <2>3, <2>4, <2>5 DEF AtHome
<1>8. CASE Close(c)
    <2>1. pc'[c] = "idle" /\ befriended'[c] = {} /\ answer'[c] = NoAnswer
        BY <1>1, <1>8 DEF Close, Goto, Tasks
    <2> QED
        BY <1>3, <1>6, <2>1 DEF Introduces, NoAnswer
<1>9. Close(c) \/ (answer' = answer /\ befriended' = befriended)
    BY DEF AtHome, Hangup, RequestLine, Headers, P, V, Accept, Read, session_vars
<1> QED
    BY <1>7, <1>8, <1>9

\* The steps abroad.
LEMMA AbroadStep ==
    ASSUME IntroInv, NEW c \in Client, Abroad(c)
    PROVE  Introduces(pc'[c], View(c)')
<1> DEFINE r == Other(c)
<1>0. Introduces(pc[c], View(c)) /\ Tasks /\ RioInv /\ r \in Reader
    BY ReadersOfClients DEF IntroInv, AllIntroduce
<1>1. PICK v, w : v = View(c) /\ w = View(c)'
    OBVIOUS
<1>2. Introduces(pc[c], v)
    BY <1>0, <1>1
<1>3. /\ v.left = Left(r) /\ v.ending = ending[r] /\ v.buf = usrbuf[r] /\ v.rc = rc[r] /\ v.busy = calling[r]
      /\ v.names = answer[c].names /\ v.whole = answer[c].whole /\ v.added = befriended[c]
    BY <1>1 DEF View
<1>4. /\ w.left = Left(r)' /\ w.ending = ending'[r] /\ w.buf = usrbuf'[r] /\ w.rc = rc'[r] /\ w.busy = calling'[r]
      /\ w.names = answer'[c].names /\ w.whole = answer'[c].whole /\ w.added = befriended'[c]
    BY <1>1 DEF View
<1>5. Introduces(pc'[c], w) => Introduces(pc'[c], View(c)')
    BY <1>1
<1>6. UNCHANGED rio_vars => ReaderKept(r)
    BY <1>0, UnchangedReaders
<1> HIDE DEF r
<1>7. CASE Connect(c)
    <2>1. PICK a \in Answers, old \in Stale : \E n \in 0 .. Len(a.bytes), end \in {"closed", "reset"} :
            /\ Rio_readinitb(r, SubSeq(a.bytes, 1, n), end, old)
            /\ answer' = [answer EXCEPT ![c] =
                   [names |-> a.names, whole |-> n = Len(a.bytes) /\ end = "closed"]]
        BY <1>7 DEF Connect, r
    <2>2. PICK n \in 0 .. Len(a.bytes), end \in {"closed", "reset"} :
            /\ Rio_readinitb(r, SubSeq(a.bytes, 1, n), end, old)
            /\ answer' = [answer EXCEPT ![c] =
                   [names |-> a.names, whole |-> n = Len(a.bytes) /\ end = "closed"]]
        BY <2>1
    <2>3. PICK bytes \in Seq(Byte) : bytes = SubSeq(a.bytes, 1, n)
        BY AnswersAreBytes, Prefix
    <2>4. Left(r)' = bytes /\ ending'[r] = end /\ calling'[r]
        BY <1>0, <2>2, <2>3, OpenView
    <2>5. w.names = a.names /\ (w.whole => n = Len(a.bytes) /\ end = "closed")
        BY <1>0, <1>4, <2>2 DEF Tasks
    <2>6. pc[c] = "connect" /\ pc'[c] = "status" /\ befriended' = befriended
        BY <1>0, <1>7 DEF Connect, Goto, Tasks
    <2>7. w.added = {}
        BY <1>2, <1>3, <1>4, <2>6 DEF Introduces
    <2>8. Unread(w, a, 0, n)
        <3>1. 0 \in 0 .. n /\ SubSeq(a.bytes, 0 + 1, n) = bytes
            BY <2>3, AnswerIs
        <3> QED
            BY <1>4, <2>4, <2>5, <3>1 DEF Unread, Starts
    <2>9. InStatus(w)
        <3>1. 0 \in 0 .. n /\ w.busy
            BY <1>4, <2>4, AnswerIs
        <3> QED
            BY <2>7, <2>8, <3>1 DEF InStatus
    <2> QED
        BY <1>5, <2>6, <2>9 DEF Introduces
<1>8. CASE ConnectFails(c)
    <2>1. PICK old \in Stale : Rio_readinitb(r, <<>>, "unconnected", old)
        BY <1>8 DEF ConnectFails, r
    <2>2. Left(r)' = <<>> /\ ending'[r] = "unconnected" /\ usrbuf'[r] = old
        BY <1>0, <2>1, OpenView, EmptyTaken
    <2>3. \E n \in 1 .. MAXLINE : old[n] = NUL
        BY SessionsAssumption
    <2>4. pc[c] = "connect" /\ pc'[c] = "status" /\ befriended' = befriended /\ answer' = answer
        BY <1>0, <1>8 DEF ConnectFails, Goto, Tasks
    <2>5. w.added = {} /\ ~w.whole
        BY <1>2, <1>3, <1>4, <2>4 DEF Introduces
    <2>6. InStatus(w)
        BY <1>4, <2>2, <2>3, <2>5 DEF InStatus, Refused
    <2> QED
        BY <1>5, <2>4, <2>6 DEF Introduces
<1>9. CASE StatusOK(c)
    <2>1. pc[c] = "status" /\ pc'[c] = "rest" /\ befriended' = befriended /\ answer' = answer /\ UNCHANGED rio_vars
          /\ ~calling[r] /\ usrbuf[r][1] = "200"
        BY <1>0, <1>9 DEF StatusOK, Goto, Tasks, Status, r
    <2>2. View(c)' = View(c)
        BY <1>6, <2>1, SameView DEF r
    <2>3. InRest(v)
        BY <1>2, <1>3, <2>1, StatusToRest DEF Introduces
    <2> QED
        BY <1>1, <2>1, <2>2, <2>3 DEF Introduces
<1>10. CASE NotOK(c)
    <2>1. pc[c] = "status" /\ pc'[c] = "V" /\ befriended' = befriended /\ answer' = answer
          /\ ~calling[r] /\ usrbuf[r][1] # "200"
        BY <1>0, <1>10 DEF NotOK, Goto, Tasks, Status, r
    <2>2. SameTask(v, w)
        BY <1>3, <1>4, <2>1 DEF SameTask
    <2>3. Done(w)
        BY <1>2, <1>3, <2>1, <2>2, StatusToDone DEF Introduces
    <2> QED
        BY <1>5, <2>1, <2>3 DEF Introduces
<1>11. CASE NoStatus(c)
    <2>1. pc' = pc /\ befriended' = befriended /\ answer' = answer /\ UNCHANGED rio_vars
        BY <1>11 DEF NoStatus
    <2>2. View(c)' = View(c)
        BY <1>6, <2>1, SameView DEF r
    <2> QED
        BY <1>0, <2>1, <2>2
<1>12. CASE Rest(c)
    <2>1. pc[c] = "rest" /\ befriended' = befriended /\ answer' = answer
          /\ ~calling[r] /\ Rio_readlineb(r, usrbuf[r])
        BY <1>12 DEF Rest, r
    <2>2. pc'[c] = IF Blank(usrbuf[r]) THEN "names" ELSE "rest"
        BY <1>0, <1>12 DEF Rest, Goto, Tasks, r
    <2>3. Left(r)' = Left(r) /\ ending'[r] = ending[r] /\ usrbuf'[r] = usrbuf[r] /\ calling'[r]
        BY <1>0, <2>1, CallView
    <2>4. Calls(v, w) /\ w.buf = v.buf /\ w.added = v.added
        BY <1>3, <1>4, <2>1, <2>3 DEF Calls
    <2>5. InRest(v) /\ ~v.busy
        BY <1>2, <1>3, <2>1 DEF Introduces
    <2>6. Blank(v.buf) => InNames(w)
        BY <2>4, <2>5, RestToNames
    <2>7. ~Blank(v.buf) => InRest(w)
        BY <2>4, <2>5, RestOn
    <2> QED
        BY <1>3, <1>5, <2>2, <2>6, <2>7 DEF Introduces
<1>13. CASE Befriend(c)
    <2>1. pc[c] = "names" /\ pc' = pc /\ answer' = answer /\ ~calling[r] /\ rc[r] # 0
        BY <1>13 DEF Befriend, r
    <2>2. befriended'[c] = befriended[c] \cup {SubSeq(usrbuf[r], 1, Len(String(usrbuf[r])) - 1)}
        BY <1>0, <1>13 DEF Befriend, Tasks, r
    <2>3. \E buf : Rio_readlineb(r, buf)
        BY <1>13 DEF Befriend, r
    <2>4. Left(r)' = Left(r) /\ ending'[r] = ending[r] /\ calling'[r]
        BY <1>0, <2>1, <2>3, CallView
    <2>5. Calls(v, w) /\ w.added = v.added \cup {SubSeq(v.buf, 1, Len(String(v.buf)) - 1)}
        BY <1>3, <1>4, <2>1, <2>2, <2>4 DEF Calls
    <2>6. InNames(v) /\ ~v.busy /\ v.rc # 0
        BY <1>2, <1>3, <2>1 DEF Introduces
    <2>7. InNames(w)
        BY <2>5, <2>6, NamesOn
    <2> QED
        BY <1>5, <2>1, <2>7 DEF Introduces
<1>14. CASE Introduced(c)
    <2>1. pc[c] = "names" /\ pc'[c] = "V" /\ befriended' = befriended /\ answer' = answer
          /\ ~calling[r] /\ rc[r] = 0
        BY <1>0, <1>14 DEF Introduced, Goto, Tasks, r
    <2>2. SameTask(v, w)
        BY <1>3, <1>4, <2>1 DEF SameTask
    <2>3. Done(w)
        BY <1>2, <1>3, <2>1, <2>2, NamesToDone DEF Introduces
    <2> QED
        BY <1>5, <2>1, <2>3 DEF Introduces
<1>15. CASE Read(Other(c))
    <2>1. pc' = pc
        BY <1>15 DEF Read, session_vars
    <2>2. w = v \/ Reads(v, w)
        BY <1>1, <1>15, ReadView
    <2>3. CASE w = v
        BY <1>2, <1>5, <2>1, <2>3
    <2>4. CASE Reads(v, w)
        <3>1. InStatus(v) => InStatus(w)
            BY <2>4, StatusReads
        <3>2. InRest(v) => InRest(w)
            BY <2>4, RestReads
        <3>3. InNames(v) => InNames(w)
            BY <2>4, NamesReads
        <3>4. SameTask(v, w)
            BY <2>4 DEF Reads
        <3>5. Done(v) => Done(w)
            BY <3>4 DEF Done, SameTask
        <3> QED
            BY <1>2, <1>5, <2>1, <3>1, <3>2, <3>3, <3>4, <3>5 DEF Introduces, SameTask
    <2> QED
        BY <2>2, <2>3, <2>4
<1> QED
    BY <1>7, <1>8, <1>9, <1>10, <1>11, <1>12, <1>13, <1>14, <1>15 DEF Abroad

\* The invariant of introductions at the start, ...
LEMMA IntroStart == Init => IntroInv
<1> SUFFICES ASSUME Init PROVE IntroInv
    OBVIOUS
<1>1. RioInv /\ Tasks
    BY InitFacts DEF Init, Tasks
<1>2. ASSUME NEW c \in Client PROVE Introduces(pc[c], View(c))
    <2>1. pc[c] = "idle" /\ answer[c] = NoAnswer /\ befriended[c] = {}
        BY DEF Init
    <2>2. View(c).names = {} /\ ~View(c).whole /\ View(c).added = {}
        BY <2>1 DEF View, NoAnswer
    <2> QED
        BY <2>1, <2>2 DEF Introduces
<1> QED
    BY <1>1, <1>2 DEF IntroInv, AllIntroduce

\* and after every step.
LEMMA IntroStep == IntroInv /\ [Next]_vars => IntroInv'
<1> SUFFICES ASSUME IntroInv, [Next]_vars PROVE IntroInv'
    OBVIOUS
<1>1. RioInv'
    BY StepFacts DEF IntroInv
<1>2. CASE UNCHANGED vars
    <2>1. Tasks'
        BY <1>2 DEF IntroInv, Tasks, vars, session_vars
    <2>2. ASSUME NEW c \in Client PROVE Introduces(pc'[c], View(c)')
        <3>1. ReaderKept(Other(c)) /\ answer' = answer /\ befriended' = befriended /\ pc' = pc
            BY <1>2, UnchangedReaders, ReadersOfClients DEF vars, session_vars
        <3>2. View(c)' = View(c)
            BY <3>1, SameView
        <3> QED
            BY <3>1, <3>2 DEF IntroInv, AllIntroduce
    <2> QED
        BY <1>1, <2>1, <2>2 DEF IntroInv, AllIntroduce
<1>3. ASSUME NEW c \in Client, AtHome(c) \/ Abroad(c) PROVE IntroInv'
    <2>1. Tasks' /\ \A d \in Client \ {c} : /\ pc'[d] = pc[d] /\ answer'[d] = answer[d]
                                            /\ befriended'[d] = befriended[d]
        BY <1>3, OnlyItsOwn
    <2>2. Introduces(pc'[c], View(c)')
        BY <1>3, HomeStep, AbroadStep
    <2>3. ASSUME NEW d \in Client, d # c PROVE Introduces(pc'[d], View(d)')
        <3>1. Other(d) \in Reader
            BY ReadersOfClients
        <3>4. Other(d) # Own(c) /\ Other(d) # Other(c)
            BY <2>3 DEF Own, Other
        <3>2. ReaderKept(Other(d))
            BY <1>3, <3>1, <3>4, HomeKeeps, AbroadKeeps
        <3>3. View(d)' = View(d) /\ pc'[d] = pc[d]
            BY <2>1, <2>3, <3>2, SameView
        <3> QED
            BY <3>3 DEF IntroInv, AllIntroduce
    <2> QED
        BY <1>1, <2>1, <2>2, <2>3 DEF IntroInv, AllIntroduce
<1> QED
    BY <1>2, <1>3 DEF Next, Step, AtHome, Abroad

\* Of a set of which all but one are others', at most one is not.
LEMMA AtMostOne ==
    ASSUME NEW S, NEW x, S \subseteq {x}
    PROVE  Cardinality(S) <= 1
<1>1. IsFiniteSet({x}) /\ Cardinality({x}) = 1
    BY FS_Singleton
<1>2. S \in SUBSET {x}
    OBVIOUS
<1> QED
    BY <1>1, <1>2, FS_Subset

\* An introduction adds the names that the other server reports, all and as they
\* are, if its answer comes to its end, and at most one other name if it does not,
\* however the answer is cut up, ends or breaks (friendlist.c:393-425).
THEOREM AddsWhatWasReportedCorrect == Spec => []AddsWhatWasReported
<1>1. ASSUME IntroInv, NEW c \in Client
      PROVE  /\ Cardinality(befriended[c] \ answer[c].names) <= (IF answer[c].whole THEN 0 ELSE 1)
             /\ pc[c] \in {"V", "close"} /\ answer[c].whole => befriended[c] = answer[c].names
    <2> DEFINE others == befriended[c] \ answer[c].names
    <2>1. PICK v : v = View(c)
        OBVIOUS
    <2>2. Introduces(pc[c], v)
        BY <1>1, <2>1 DEF IntroInv, AllIntroduce
    <2>3. v.names = answer[c].names /\ v.whole = answer[c].whole /\ v.added = befriended[c]
        BY <2>1 DEF View
    <2>4. ASSUME others = {}, pc[c] \notin {"V", "close"}
          PROVE  /\ Cardinality(others) <= (IF answer[c].whole THEN 0 ELSE 1)
                 /\ pc[c] \in {"V", "close"} /\ answer[c].whole => befriended[c] = answer[c].names
        <3>1. Cardinality(others) = 0
            BY <2>4, FS_EmptySet
        <3> HIDE DEF others
        <3> QED
            BY <2>4, <3>1
    <2>5. CASE pc[c] = "names"
        <3>1. InNames(v)
            BY <2>2, <2>5 DEF Introduces
        <3>2. CASE Broken(v) /\ \E x \in v.added \cup {<<>>} : v.added \subseteq v.names \cup {x}
            <4>1. PICK x : v.added \subseteq v.names \cup {x}
                BY <3>2
            <4>2. others \subseteq {x}
                BY <2>3, <4>1
            <4>3. Cardinality(others) <= 1
                BY <4>2, AtMostOne
            <4>4. ~answer[c].whole
                BY <2>3, <3>2 DEF Broken
            <4> HIDE DEF others
            <4> QED
                BY <2>5, <4>3, <4>4 DEF others
        <3>3. CASE v.added \subseteq v.names
            <4>1. others = {}
                BY <2>3, <3>3
            <4> QED
                BY <2>4, <2>5, <4>1
        <3>4. CASE \E a \in Answers : \E n \in 0 .. Len(a.bytes) : \E q \in 0 .. n, start \in 2 .. Len(a.bytes) :
                       /\ Unread(v, a, q, n) /\ Body(a, start) /\ start <= q
                       /\ \E to \in start .. q : v.added = LinesIn(a.bytes, start, to)
            <4>1. PICK a \in Answers :
                       \E n \in 0 .. Len(a.bytes) : \E q \in 0 .. n, start \in 2 .. Len(a.bytes) :
                       /\ Unread(v, a, q, n) /\ Body(a, start) /\ start <= q
                       /\ \E to \in start .. q : v.added = LinesIn(a.bytes, start, to)
                BY <3>4
            <4>2. a.bytes \in Seq(Byte)
                BY AnswersAreBytes
            <4>3. PICK n \in 0 .. Len(a.bytes) : \E q \in 0 .. n, start \in 2 .. Len(a.bytes) :
                       /\ Unread(v, a, q, n) /\ Body(a, start) /\ start <= q
                       /\ \E to \in start .. q : v.added = LinesIn(a.bytes, start, to)
                BY <4>1
            <4>4. PICK q \in 0 .. n, start \in 2 .. Len(a.bytes) :
                       /\ Unread(v, a, q, n) /\ Body(a, start) /\ start <= q
                       /\ \E to \in start .. q : v.added = LinesIn(a.bytes, start, to)
                BY <4>3
            <4>5. PICK to \in start .. q : v.added = LinesIn(a.bytes, start, to)
                BY <4>4
            <4>6. Len(a.bytes) \in Nat /\ start \in Nat /\ to \in Nat /\ to <= Len(a.bytes)
                BY <4>2
            <4>7. LinesIn(a.bytes, start, to) \subseteq LinesIn(a.bytes, start, Len(a.bytes))
                BY <4>2, <4>6, MoreLines
            <4>8. v.names = LinesIn(a.bytes, start, Len(a.bytes))
                BY <4>4 DEF Unread, Body
            <4> QED
                BY <3>3, <4>5, <4>7, <4>8
        <3>5. CASE ~Broken(v)
            <4>1. PICK a \in Answers : \E n \in 0 .. Len(a.bytes) : \E q \in 0 .. n, start \in 2 .. Len(a.bytes) :
                    /\ Unread(v, a, q, n) /\ Body(a, start) /\ start <= q
                    /\ \/ v.added = LinesIn(a.bytes, start, q)
                       \/ \E from \in start .. q : v.added = LinesIn(a.bytes, start, from)
                BY <3>1, <3>5 DEF InNames
            <4>2. PICK n \in 0 .. Len(a.bytes) : \E q \in 0 .. n, start \in 2 .. Len(a.bytes) :
                    /\ Unread(v, a, q, n) /\ Body(a, start) /\ start <= q
                    /\ \/ v.added = LinesIn(a.bytes, start, q)
                       \/ \E from \in start .. q : v.added = LinesIn(a.bytes, start, from)
                BY <4>1
            <4>3. PICK q \in 0 .. n, start \in 2 .. Len(a.bytes) :
                    /\ Unread(v, a, q, n) /\ Body(a, start) /\ start <= q
                    /\ \/ v.added = LinesIn(a.bytes, start, q)
                       \/ \E from \in start .. q : v.added = LinesIn(a.bytes, start, from)
                BY <4>2
            <4>4. \E to \in start .. q : v.added = LinesIn(a.bytes, start, to)
                BY <4>3
            <4> QED
                BY <3>4, <4>3, <4>4
        <3>6. CASE Broken(v)
            BY <3>1, <3>2, <3>3, <3>4, <3>6 DEF InNames
        <3> QED
            BY <3>5, <3>6
    <2>6. CASE pc[c] \in {"V", "close"}
        <3>1. Done(v)
            BY <2>2, <2>6 DEF Introduces
        <3>2. PICK x : v.added \subseteq v.names \cup {x}
            BY <3>1 DEF Done
        <3>3. others \subseteq {x}
            BY <2>3, <3>2
        <3>4. Cardinality(others) <= 1
            BY <3>3, AtMostOne
        <3>5. answer[c].whole => befriended[c] = answer[c].names
            BY <2>3, <3>1 DEF Done
        <3>6. answer[c].whole => Cardinality(others) = 0
            BY <3>5, FS_EmptySet
        <3> HIDE DEF others
        <3>7. Cardinality(others) <= (IF answer[c].whole THEN 0 ELSE 1)
            BY <3>4, <3>6
        <3> QED
            BY <3>5, <3>7 DEF others
    <2>7. CASE pc[c] \notin {"names", "V", "close"}
        <3>1. v.added = {}
            BY <2>2, <2>7 DEF Introduces, InStatus, InRest
        <3>2. others = {}
            BY <2>3, <3>1
        <3> QED
            BY <2>4, <2>7, <3>2
    <2> QED
        BY <2>5, <2>6, <2>7
<1>2. IntroInv => AddsWhatWasReported
    BY <1>1 DEF AddsWhatWasReported
<1> QED
    BY <1>2, IntroStart, IntroStep, PTL DEF Spec
====
