---------------------------- MODULE EngineLanes -----------------------------
(***************************************************************************)
(* What the inference lease promises, without locks, records or processes: *)
(* the engine works for Dream on one request per lane at most (one lane,   *)
(* for an engine without --parallel), a lane is free again only when its   *)
(* request is over, and no request is sent a second time.                  *)
(***************************************************************************)
CONSTANTS Requests, Lanes

VARIABLES lane,  \* lane[l]: what the engine is working on in lane l
          over   \* requests it answered, or lost when it ended

Carried == UNION {lane[l] : l \in Lanes}

Init == lane = [l \in Lanes |-> {}] /\ over = {}

Send(r, l) == /\ lane[l] = {}
              /\ r \notin Carried \cup over
              /\ lane' = [lane EXCEPT ![l] = {r}]
              /\ UNCHANGED over

Return(r, l) == /\ lane[l] = {r}
                /\ lane' = [lane EXCEPT ![l] = {}]
                /\ over' = over \cup {r}

Stop == lane' = [l \in Lanes |-> {}] /\ over' = over \cup Carried

Next == Stop \/ \E r \in Requests, l \in Lanes : Send(r, l) \/ Return(r, l)

Spec == Init /\ [][Next]_<<lane, over>>
=============================================================================
