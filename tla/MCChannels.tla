----------------------------- MODULE MCChannels -----------------------------
(***************************************************************************)
(* The two machines whose progress rests on the way Go serves a channel:   *)
(* the push and pull of Distribution, whose layers report through channels *)
(* of one slot, and the guard of the loader, a channel of one token.  A    *)
(* behaviour is one of one of them; the other stays in its initial state.  *)
(***************************************************************************)
EXTENDS MCDistribution, LoaderGuard

VARIABLE focus  \* the distribution, if it moves, or the guard's caller watched

channelVars == <<focus, distVars, guardVars>>

ChannelsInit == focus \in {"distribution"} \cup Entrants /\ Init /\ GuardInit

Distributing(A) == focus = "distribution" /\ A /\ UNCHANGED <<focus, guardVars>>
Guarding(A) == focus \in Entrants /\ A /\ UNCHANGED <<focus, distVars>>

\* Callers of the guard may all be stuck: see TokensCounted.
ChannelsNext ==
  \/ Distributing(Next)
  \/ Guarding(GuardNext)
  \/ Guarding(UNCHANGED guardVars)

\* Fairness of Distribution and GuardFairness, for the machine in focus.
Pushing(A) == Distributing(A /\ UNCHANGED pullVars)
Pulling(A) == Distributing(A /\ UNCHANGED pushVars)

ChannelsFairness ==
  /\ WF_channelVars(Pushing(LayersPushed \/ PushConfig \/ PushManifest))
  /\ \A l \in Layers :
       /\ WF_channelVars(Pushing(\/ StartLayer(l) \/ OpenLayer(l) \/ CommitLayer(l)
                                 \/ SendTotal(l) \/ LayerEnds(l)))
       /\ SF_channelVars(Pushing(ReadEOF(l)))
       /\ WF_channelVars(Pushing(Report(l)))
  /\ \A p \in Pullers : /\ WF_channelVars(Pulling(PullStep(p)))
                        /\ WF_channelVars(Pulling(Resolve(p)))
  /\ \A c \in Entrants :
       WF_channelVars(Guarding(Lock(c) \/ LockFails(c) \/ Leave(c) \/ Unlock(c)))

ChannelsSpec == ChannelsInit /\ [][ChannelsNext]_channelVars /\ ChannelsFairness

\* Who calls the loader gets in or gives up, and whoever is in gets out again,
\* unlock included, unless setRunnerConfig has gone on without the token.  (The
\* caller watched is any.)
Watched(places) == focus \in Entrants /\ place[focus] \in places
EveryCallEnds ==
  Watched({"locking", "inside", "unlocking"}) ~> Watched({"outside"}) \/ intrusions > 0
=============================================================================
