----------------------------- MODULE MsgIdUtil -----------------------------
(****************************************************************************)
(* MsgIdUtil::GetMsgId (src/common/msg_id_util.cpp), the message ids of a   *)
(* client: a decimal number kept as a string of digits, which begins at     *)
(* random and counts up with a carry.  Threads take turns under its mutex.  *)
(****************************************************************************)
EXTENDS Integers, Sequences

CONSTANTS
    g_msg_id_length,    \* 10 in the code
    MaxDigit            \* 9 in the code

ASSUME IdAssumption == g_msg_id_length \in Nat \ {0} /\ MaxDigit \in 1..9

VARIABLE t_msg_id_no    \* the last id as a sequence of digits, <<>> before the first

Ids == [1 .. g_msg_id_length -> 0 .. MaxDigit]

t_max_msg_id_no == [i \in 1 .. g_msg_id_length |-> MaxDigit]

IdInit == t_msg_id_no = <<>>

\* Mutant: the digits after the carry stay.
NoZeros(id, i) == [id EXCEPT ![i] = @ + 1]

\* The digit at i goes up, those after it are 0 again.
Carry(id, i) == [j \in DOMAIN id |-> IF j < i THEN id[j] ELSE IF j = i THEN id[j] + 1 ELSE 0]

\* The last digit that is not the highest takes the carry.  There is one: the
\* code's index is unsigned, so its `i >= 0` would not stop it otherwise.
Incremented(id) ==
    Carry(id, CHOOSE i \in DOMAIN id :
                /\ id[i] # MaxDigit
                /\ \A j \in DOMAIN id : j > i => id[j] = MaxDigit)

GetMsgId ==
    \/ /\ t_msg_id_no = <<>> \/ t_msg_id_no = t_max_msg_id_no
       /\ t_msg_id_no' \in Ids
    \/ /\ ~(t_msg_id_no = <<>> \/ t_msg_id_no = t_max_msg_id_no)
       /\ t_msg_id_no' = Incremented(t_msg_id_no)

\* The reference: the number that the first n digits stand for.
Number(id) ==
    LET Value[n \in 0 .. Len(id)] ==
            IF n = 0 THEN 0 ELSE Value[n - 1] * (MaxDigit + 1) + id[n]
    IN Value[Len(id)]
=============================================================================
