------------------------------ MODULE InboxLog ------------------------------
(***************************************************************************)
(* The inbox with the log of the posts it accepted: a history variable, of *)
(* which the dedup window and the sender's quota (check_id, check_rate)    *)
(* are the memory the code keeps.                                          *)
(***************************************************************************)
EXTENDS Inbox

VARIABLE log   \* accepted posts, oldest first: when, which id, from whom

logvars == <<inbox, stamp, now, log>>

Logged(id, from) == log' = Append(log, [at |-> now, id |-> id, from |-> from])

LogInit == Init /\ log = <<>>

LogNext ==
  \/ \E id \in Ids : DeckPost(id) /\ Logged(id, Unbound)
  \/ \E from \in Agents, id \in Ids : AgentPost(from, id) /\ Logged(id, from)
  \/ Upkeep /\ UNCHANGED log

LogSpec == LogInit /\ [][LogNext]_logvars

\* An id is accepted again only after the dedup window, or once DedupMaxIds
\* later ids pushed it out of memory (check_id, register_id, expire_dedup).
DedupHolds ==
  \A i, j \in DOMAIN log :
    i < j /\ log[i].id = log[j].id =>
      \/ log[j].at - log[i].at >= DedupWindow
      \/ j - i > DedupMaxIds

\* No RateWindow holds more than RatePerMinute accepted posts of one agent,
\* wherever it starts (check_rate, record_rate and the pruning of tick).
RateHolds ==
  \A i \in DOMAIN log :
    log[i].from \in Agents =>
      Cardinality({j \in DOMAIN log :
                     /\ log[j].from = log[i].from
                     /\ log[j].at \in log[i].at..(log[i].at + RateWindow - 1)})
        <= RatePerMinute

=============================================================================
