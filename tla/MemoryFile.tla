----------------------------- MODULE MemoryFile -----------------------------
(* What a file of the memory allocation driver promises its users: a read returns, part
   by part, what was written last to the cells it asks for, a write changes the cells it
   names and no others, and a change of the size keeps what lies below both the old and
   the new end.  What a growing file shows behind its old end is open: new memory, or
   what was there before the file was made smaller.  A request may be given up. *)
EXTENDS Naturals, Sequences

CONSTANTS Thread, Value, MaxSize

VARIABLES content,   \* the cells up to the end of the file
          ask,       \* each user's request: what is left of it
          out        \* what each user's read has returned so far

NoRequest == [kind |-> "none", from |-> 1, to |-> 0]
Kinds     == {"read", "write", "set", "load"}

Init == content = <<>> /\ ask = [t \in Thread |-> NoRequest] /\ out = [t \in Thread |-> <<>>]

Ask(t) ==
    /\ ask[t] = NoRequest
    /\ \E k \in Kinds, first \in 1 .. MaxSize, last \in 0 .. MaxSize :
         ask' = [ask EXCEPT ![t] = [kind |-> k, from |-> first, to |-> last]]
    /\ UNCHANGED <<content, out>>

\* A write makes the file larger only, and whoever asks for a size gets that size.
Resize(t) ==
    /\ ask[t].kind \in {"write", "set", "load"}
    /\ ask[t].kind = "write" => ask[t].to > Len(content)
    /\ content' \in [1 .. ask[t].to -> Value]
    /\ \A i \in DOMAIN content \cap DOMAIN content' : content'[i] = content[i]
    /\ ask' = IF ask[t].kind = "set" THEN [ask EXCEPT ![t] = NoRequest] ELSE ask
    /\ UNCHANGED out

Part(t, n) == n <= ask[t].to /\ n <= Len(content) /\ ask' = [ask EXCEPT ![t].from = n + 1]

Write(t) == \E n \in ask[t].from .. MaxSize, v \in Value :
    /\ ask[t].kind \in {"write", "load"} /\ Part(t, n)
    /\ content' = [i \in DOMAIN content |-> IF i \in ask[t].from .. n THEN v ELSE content[i]]
    /\ UNCHANGED out

Read(t) == \E n \in ask[t].from .. MaxSize :
    /\ ask[t].kind = "read" /\ Part(t, n)
    /\ out' = [out EXCEPT ![t] = @ \o SubSeq(content, ask[t].from, n)]
    /\ UNCHANGED content

Finish(t) ==
    /\ ask' = [ask EXCEPT ![t] = NoRequest] /\ out' = [out EXCEPT ![t] = <<>>]
    /\ UNCHANGED content

Close == content' = <<>> /\ ask = [t \in Thread |-> NoRequest] /\ UNCHANGED <<ask, out>>

Next == Close \/ \E t \in Thread : Ask(t) \/ Resize(t) \/ Write(t) \/ Read(t) \/ Finish(t)

Spec == Init /\ [][Next]_<<content, ask, out>>
=============================================================================
