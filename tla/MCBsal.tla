------------------------------- MODULE MCBsal -------------------------------
\* One interface of each supported band, and one of another band.
EXTENDS Bsal, TLC

MCBandOf == ("home24" :> "24G") @@ ("home50" :> "5G") @@ ("home60" :> "6G")

\* Bound.  The two parts share nothing but the restart: every state of either
\* part is reached while the other one has not been used.  Nothing is claimed
\* of neighbors after a search that was misled, so they are left there.
OnePartAtATime ==
    \/ neighbors = {} /\ adrift = {} /\ ~misled /\ \A a \in Ifnames : hwReports[a] = {}
    \/ /\ svars = <<FALSE, FALSE, FALSE, EmptyGroup, EmptyGroup, FALSE,
                    <<>>, Unset, <<>>, Unset, FALSE, FALSE>>
       /\ ~misled
=============================================================================
