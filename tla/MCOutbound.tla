----------------------------- MODULE MCOutbound -----------------------------
(* A model-checking instance of Outbound: the numbers wrap in every run.    *)
EXTENDS Outbound

Items == ToSet(queue.crit \o queue.order) \cup {queue.writing, pump.item} \cup wire.items

(* Bound: a session that visits the world is sent small critical items      *)
(* only, since the window does not tell items apart.                        *)
WorldIsSmall ==
  visits > 0 => /\ dropped = {} 
                /\ \A s \in Senders : sender[s].size \in {0, 1}
                /\ \A item \in Items : item.key = Critical /\ item.size \in {0, 1}

MCNext == Next /\ WorldIsSmall'

MCSpec == Init /\ [][MCNext]_vars /\ WF_vars(Progress)

=============================================================================
