---------------------------- MODULE PrivateBuffers ----------------------------
(* What the buffers of a library promise: every buffer holds values of its *)
(* own, a question about them is answered from them, and what is lent to a *)
(* consumer stays as it was lent. Nothing says how storage is shared.      *)
EXTENDS Naturals, Sequences

CONSTANTS Buffers, NoValues

VARIABLES
  content,   \* the values of every name; NoValues where it has none
  loaned,    \* the names a consumer holds
  reply      \* the answer to the last question

HasNan(s) == \E i \in DOMAIN s : s[i] = "nan"
HasNonfinite(s) == \E i \in DOMAIN s : s[i] # "number"

Init == content = [b \in Buffers |-> NoValues] /\ loaned = {} /\ reply = "none"

(* One buffer takes new values, hands them to another, or two are cut from *)
(* a third: no other name changes, and none that is lent.                  *)
Written(b) == content' = [content EXCEPT ![b] = content'[b]]
Copied(b, c) == \E i, j \in 0..Len(content[b]) : content' = [content EXCEPT ![c] = SubSeq(content[b], i + 1, j)]
Moved(b, c) == content' = [content EXCEPT ![b] = NoValues, ![c] = content[b]]
Cut(g, b, c) ==
  \E i, j, k \in 0..Len(content[g]) :
    /\ i <= j /\ j <= k
    /\ content' = [content EXCEPT ![b] = SubSeq(content[g], i + 1, j),
                                  ![c] = SubSeq(content[g], j + 1, k)]

Lend(b, c) == /\ content' = [content EXCEPT ![c] = content[b]]
              /\ loaned' = loaned \cup {c}
Return(c) == /\ content' = [content EXCEPT ![c] = NoValues]
             /\ loaned' = loaned \ {c}

Ask(b, holds) ==
  /\ reply' = IF holds THEN "yes" ELSE "no"
  /\ UNCHANGED <<content, loaned>>

Own == {b \in Buffers \ loaned : content[b] # NoValues}
Next ==
  \/ /\ reply' = "none"
     /\ \/ /\ UNCHANGED loaned
           /\ \/ \E b \in Buffers \ loaned : Written(b)
              \/ \E b \in Own, c \in Buffers \ loaned : Copied(b, c) \/ Moved(b, c)
              \/ \E g \in Own, b, c \in Buffers \ loaned : b # c /\ Cut(g, b, c)
        \/ \E b \in Own, c \in Buffers \ loaned : b # c /\ Lend(b, c)
        \/ \E c \in loaned : Return(c)
  \/ \E b \in Own : Ask(b, HasNan(content[b])) \/ Ask(b, HasNonfinite(content[b]))

Spec == Init /\ [][Next]_<<content, loaned, reply>>
=============================================================================
