---------------------------------- MODULE Rio ----------------------------------
(***************************************************************************)
(* The buffered reader of csapp.c, with which the friend server reads its  *)
(* connections: rio_readlineb takes one byte after the other from a        *)
(* buffer that read() fills with whatever has arrived.                     *)
(*                                                                         *)
(* How a connection ends is drawn when it is made, which no reader can     *)
(* tell from its being decided later.  The server handles no signals;      *)
(* a read() that is interrupted all the same is only called again.         *)
(***************************************************************************)
EXTENDS Integers, Sequences

CONSTANTS Reader,       \* a reader is a rio_t and the buffer its lines go to
          Byte, NL, NUL,
          MAXLINE,      \* size of the caller's buffer
          RIO_BUFSIZE   \* size of rio_buf

ASSUME RioAssumption == MAXLINE \in Nat \ {0, 1} /\ RIO_BUFSIZE \in Nat \ {0}

VARIABLES coming,       \* of each reader: the bytes that read() has yet to return
          ending,       \* what it returns after them: "closed" is 0 from then on,
                        \* "reset" is -1 and then 0, "unconnected" is -1 for ever;
                        \* "waits": the other end keeps the connection open
          rio_buf,      \* the rio_cnt bytes from rio_bufptr on
          calling,      \* whether rio_readlineb is being executed
          taken,        \* the bytes it has taken, n - 1 of them
          usrbuf,       \* the caller's buffer, as of the last return
          rc            \* what the last call returned

rio_vars == <<coming, ending, rio_buf, calling, taken, usrbuf, rc>>

NoCall == -2            \* rc before the first call
Uninitialised == [n \in 1 .. MAXLINE |-> NUL]

RioInit == /\ coming = [r \in Reader |-> <<>>]
           /\ ending = [r \in Reader |-> "closed"]
           /\ rio_buf = [r \in Reader |-> <<>>]
           /\ calling = [r \in Reader |-> FALSE]
           /\ taken = [r \in Reader |-> <<>>]
           /\ usrbuf = [r \in Reader |-> Uninitialised]
           /\ rc = [r \in Reader |-> NoCall]

\* The caller's buffer when bytes have been put in front of what it held.
Copied(bytes, old) ==
    [n \in 1 .. MAXLINE |-> IF n <= Len(bytes) THEN bytes[n] ELSE old[n]]

\* Rio_readinitb for a connection on which bytes will arrive, and the first
\* Rio_readlineb, into a new buffer with something old in it.
Rio_readinitb(r, bytes, end, old) ==
    /\ coming' = [coming EXCEPT ![r] = bytes]
    /\ ending' = [ending EXCEPT ![r] = end]
    /\ rio_buf' = [rio_buf EXCEPT ![r] = <<>>]
    /\ usrbuf' = [usrbuf EXCEPT ![r] = old]
    /\ calling' = [calling EXCEPT ![r] = TRUE]
    /\ taken' = [taken EXCEPT ![r] = <<>>]
    /\ rc' = [rc EXCEPT ![r] = NoCall]

\* The reader goes out of scope.
Rio_gone(r) ==
    /\ coming' = [coming EXCEPT ![r] = <<>>]
    /\ ending' = [ending EXCEPT ![r] = "closed"]
    /\ rio_buf' = [rio_buf EXCEPT ![r] = <<>>]
    /\ usrbuf' = [usrbuf EXCEPT ![r] = Uninitialised]
    /\ rc' = [rc EXCEPT ![r] = NoCall]
    /\ UNCHANGED <<calling, taken>>

\* A further call, with a buffer that holds buf.
Rio_readlineb(r, buf) ==
    /\ calling' = [calling EXCEPT ![r] = TRUE]
    /\ taken' = [taken EXCEPT ![r] = <<>>]
    /\ usrbuf' = [usrbuf EXCEPT ![r] = buf]
    /\ UNCHANGED <<coming, ending, rio_buf, rc>>

Return(r, buf, value) ==
    /\ calling' = [calling EXCEPT ![r] = FALSE]
    /\ taken' = [taken EXCEPT ![r] = <<>>]
    /\ usrbuf' = [usrbuf EXCEPT ![r] = buf]
    /\ rc' = [rc EXCEPT ![r] = value]

\* rio_read finds its buffer empty: read() returns any number of bytes that
\* have arrived and fit.
Refill(r) ==
    /\ calling[r] /\ rio_buf[r] = <<>> /\ coming[r] # <<>>
    /\ \E n \in 1 .. RIO_BUFSIZE :
        /\ n <= Len(coming[r])
        /\ rio_buf' = [rio_buf EXCEPT ![r] = SubSeq(coming[r], 1, n)]
        /\ coming' = [coming EXCEPT ![r] = SubSeq(@, n + 1, Len(@))]
    /\ UNCHANGED <<ending, calling, taken, usrbuf, rc>>

\* read() returns 0: the line is what there is of it.
EndOfFile(r) ==
    /\ calling[r] /\ rio_buf[r] = <<>> /\ coming[r] = <<>>
    /\ ending[r] = "closed"
    /\ Return(r, IF taken[r] = <<>> THEN usrbuf[r] ELSE Copied(Append(taken[r], NUL), usrbuf[r]),
              Len(taken[r]))
    /\ UNCHANGED <<coming, ending, rio_buf>>

\* read() returns -1: the buffer is left overwritten in part, unterminated.
Error(r) ==
    /\ calling[r] /\ rio_buf[r] = <<>> /\ coming[r] = <<>>
    /\ ending[r] \in {"reset", "unconnected"}
    /\ ending' = [ending EXCEPT ![r] = IF @ = "reset" THEN "closed" ELSE @]
    /\ Return(r, Copied(taken[r], usrbuf[r]), -1)
    /\ UNCHANGED <<coming, rio_buf>>

\* Mutant of Take: the rest of the buffer is dropped with the end of a line.
Take_drops(r) ==
    /\ calling[r] /\ rio_buf[r] # <<>>
    /\ LET c == Head(rio_buf[r])
           line == Append(taken[r], c) IN
        IF c = NL \/ Len(line) = MAXLINE - 1
        THEN /\ Return(r, Copied(Append(line, NUL), usrbuf[r]), Len(line))
             /\ rio_buf' = [rio_buf EXCEPT ![r] = <<>>]
        ELSE /\ taken' = [taken EXCEPT ![r] = line]
             /\ rio_buf' = [rio_buf EXCEPT ![r] = Tail(@)]
             /\ UNCHANGED <<calling, usrbuf, rc>>
    /\ UNCHANGED <<coming, ending>>

\* rio_read returns a byte, which ends the line or does not.
Take(r) ==
    /\ calling[r] /\ rio_buf[r] # <<>>
    /\ rio_buf' = [rio_buf EXCEPT ![r] = Tail(@)]
    /\ LET c == Head(rio_buf[r])
           line == Append(taken[r], c) IN
        IF c = NL \/ Len(line) = MAXLINE - 1
        THEN Return(r, Copied(Append(line, NUL), usrbuf[r]), Len(line))
        ELSE taken' = [taken EXCEPT ![r] = line] /\ UNCHANGED <<calling, usrbuf, rc>>
    /\ UNCHANGED <<coming, ending>>

\* A step of rio_readlineb, which returns with the last one.
rio_readlineb(r) == Refill(r) \/ EndOfFile(r) \/ Error(r) \/ Take(r)

-----------------------------------------------------------------------------
\* However the bytes of a connection are cut up by read(), its lines come out
\* whole and in order, and errors and the end where they belong.
Lines == INSTANCE LineStream WITH
    stream <- [r \in Reader |-> taken[r] \o rio_buf[r] \o coming[r]]

ReadsLines == Lines!Spec
=============================================================================
