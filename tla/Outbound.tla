------------------------------ MODULE Outbound ------------------------------
(****************************************************************************)
(* What a client sends: CallMethod and the keepalive task take an id from   *)
(* MsgIdUtil for every packet, and TinyPBCoder writes it to the stream and  *)
(* reads it back at the other side.                                         *)
(****************************************************************************)
EXTENDS TinyPBCoder, MsgIdUtil

\* pk_len is an int: no packet is longer than it can say, whichever id it gets.
ASSUME LengthAssumption ==
    \A p \in Packets : \A idlen \in {Len(DefaultId), g_msg_id_length} :
        3 + 4 * 5 + idlen + Len(p.name) + Len(p.data) <= INT32_MAX

outVars == <<coderVars, t_msg_id_no>>

OutInit == CoderInit /\ IdInit

\* The digits as characters.
Chars(id) == [i \in DOMAIN id |-> 48 + id[i]]

\* CallMethod, or a round of keepalives: a new id, then encode.
SendNumbered(p) ==
    /\ GetMsgId
    /\ Encode([p EXCEPT !.id = Chars(t_msg_id_no')])

\* A packet whose sender set no id.
SendWithoutId(p) == Encode([p EXCEPT !.id = <<>>]) /\ UNCHANGED t_msg_id_no

OutNext ==
    \/ \E p \in Packets : SendNumbered(p) \/ SendWithoutId(p)
    \/ \E n \in Noise : SendNoise(n) /\ UNCHANGED t_msg_id_no
    \/ \E k \in 1..Len(stream) : Arrive(k) /\ UNCHANGED t_msg_id_no
    \/ (DecodeOne \/ DecodeDone \/ Finished) /\ UNCHANGED t_msg_id_no

OutSpec == OutInit /\ [][OutNext]_outVars

-----------------------------------------------------------------------------
(* Properties *)

\* The carry over the digits is addition: unless the numbers are used up and
\* begin anew at random, GetMsgId gives the next number.  So two messages under
\* way at the same time have different ids, by which parseMsg finds their
\* callbacks.
IdsCount ==
    [][GetMsgId /\ t_msg_id_no \notin {<<>>, t_max_msg_id_no}
        => Number(t_msg_id_no') = Number(t_msg_id_no) + 1]_outVars
=============================================================================
