------------------------------ MODULE LineStream ------------------------------
(***************************************************************************)
(* What Rio_readlineb promises to its caller (Concurrent_Server/csapp.c):  *)
(* the bytes of a connection, line by line, however they arrive; a last    *)
(* line without its newline if the connection is closed within it; 0 and   *)
(* the caller's buffer as it was once nothing is left; and -1, and a       *)
(* buffer partly overwritten, if the connection breaks within a line.      *)
(***************************************************************************)
EXTENDS Integers, Sequences

CONSTANTS Reader, NL, NUL, MAXLINE

VARIABLES stream,       \* of each reader: the bytes it has not handed out
          ending,       \* what comes after them
          usrbuf,       \* the caller's buffer
          rc            \* what the last call returned

stream_vars == <<stream, ending, usrbuf, rc>>

NoCall == -2            \* rc before the first call

\* The buffer with the bytes of a line written over what it held.
Overwritten(line, old) ==
    [n \in 1 .. MAXLINE |-> IF n <= Len(line) THEN line[n] ELSE old[n]]
\* And terminated.
Line(line, old) == Overwritten(Append(line, NUL), old)

\* How many bytes make a line, if so many are there.
LineLength(s) == LET ends == {n \in 1 .. Len(s) : s[n] = NL} \cup {MAXLINE - 1}
                 IN  CHOOSE n \in ends : \A m \in ends : n <= m

HasLine(s) == Len(s) >= LineLength(s)

Init == /\ stream = [r \in Reader |-> <<>>]
        /\ ending = [r \in Reader |-> "closed"]
        /\ usrbuf = [r \in Reader |-> [n \in 1 .. MAXLINE |-> NUL]]
        /\ rc = [r \in Reader |-> NoCall]

\* A reader is given a connection, and what is in its buffer is arbitrary.
Open(r) == /\ rc' = [rc EXCEPT ![r] = NoCall]
           /\ \A q \in Reader \ {r} : UNCHANGED <<stream[q], ending[q], usrbuf[q]>>

\* The caller uses its buffer, or another one.
Use(r) == /\ \A q \in Reader \ {r} : UNCHANGED usrbuf[q]
          /\ UNCHANGED <<stream, ending, rc>>

ReadLine(r) ==
    /\ HasLine(stream[r])
    /\ LET n == LineLength(stream[r]) IN
        /\ stream' = [stream EXCEPT ![r] = SubSeq(@, n + 1, Len(@))]
        /\ usrbuf' = [usrbuf EXCEPT ![r] = Line(SubSeq(stream[r], 1, n), @)]
        /\ rc' = [rc EXCEPT ![r] = n]
    /\ UNCHANGED ending

\* The end is reached: what is left is the last line, if it is anything.
ReadEnd(r) ==
    /\ ~HasLine(stream[r]) /\ ending[r] = "closed"
    /\ stream' = [stream EXCEPT ![r] = <<>>]
    /\ usrbuf' = IF stream[r] = <<>> THEN usrbuf
                 ELSE [usrbuf EXCEPT ![r] = Line(stream[r], @)]
    /\ rc' = [rc EXCEPT ![r] = Len(stream[r])]
    /\ UNCHANGED ending

\* A broken connection is reported once, one that was never made every time.
ReadError(r) ==
    /\ ~HasLine(stream[r]) /\ ending[r] \in {"reset", "unconnected"}
    /\ stream' = [stream EXCEPT ![r] = <<>>]
    /\ ending' = [ending EXCEPT ![r] = IF @ = "reset" THEN "closed" ELSE @]
    /\ usrbuf' = [usrbuf EXCEPT ![r] = Overwritten(stream[r], @)]
    /\ rc' = [rc EXCEPT ![r] = -1]

Next == \E r \in Reader : Open(r) \/ Use(r) \/ ReadLine(r) \/ ReadEnd(r) \/ ReadError(r)

Spec == Init /\ [][Next]_stream_vars
=============================================================================
