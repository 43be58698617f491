----------------------------- MODULE Negotiation -----------------------------
(***************************************************************************)
(* One NethernetStream::connect against a NethernetListener over LAN       *)
(* signalling: offer, answer and candidates, the candidate tasks of both   *)
(* ends, the maps of dispatchers and notifiers, the timeouts, and the      *)
(* queue of accepted sessions.                                             *)
(*                                                                         *)
(* There is one connection id, so a map keyed by it holds one entry, named *)
(* by the peer connection that made it: a duplicated offer makes a second  *)
(* peer connection.  WebRTC is external: ICE may connect two ends that     *)
(* have each other's description once one of them has a candidate of the   *)
(* other, and may fail at any time; the channels open after it connects.   *)
(***************************************************************************)
EXTENDS LanSignaling, Functions, FiniteSets

CONSTANTS
    Candidates,     \* candidates each end gathers
    MaxOffers       \* bound: offers the listener handles

ASSUME CandidatesAssumption == IsFiniteSet(Candidates)
ASSUME MaxOffersAssumption == MaxOffers \in Nat \ {0}

VARIABLES
    client,     \* connect: the step it is at, its description and candidates
    peer,       \* listener: the peer connection of each offer
    handling,   \* listener: the offer the signal loop is handling, or 0
    dispatcher, \* listener: signal_dispatchers, the owner of the entry or 0
    notifier,   \* listener: candidate_notifiers, the owner of the entry or 0
    ice,        \* ICE between the client and the peer connection it has
    incoming,   \* listener: sessions queued for accept()
    dropped     \* listener: dropped

negotiationVars == <<client, peer, handling, dispatcher, notifier, ice, incoming, dropped>>
allVars == <<lanVars, negotiationVars>>

Offers == 1 .. MaxOffers
Returned == {"ok", "error", "timeout", "closed"}

\* remote is the peer connection whose description the client has; added are the
\* candidates that add_ice_candidate took.
NoClient == [at |-> "new", gathering |-> {}, remote |-> 0, pending |-> {}, task |-> "none",
             added |-> {}]

\* A peer connection: how far handle_offer is, the signals of its candidate
\* task, the candidates add_ice_candidate took and turned down, whether its
\* session has both data channels, and the step of the task that queues it.
NoPeer == [at |-> "none", gathering |-> {}, remote |-> FALSE, inbox |-> <<>>, task |-> "none",
           added |-> {}, refused |-> {}, channels |-> "none", queue |-> "none"]

\* Candidate c of the client, or of the server's peer connection k.
CandidateOf(k, c) == Signal("Candidate", <<k, c>>)

Answered(k) == peer[k].at \in {"answered", "armed"}

-----------------------------------------------------------------------------
(* NethernetStream::connect *)

\* Channels, handlers, offer and local description: gathering begins.
SetLocalDescription ==
    /\ client.at = "new"
    /\ client' = [client EXCEPT !.at = "local", !.gathering = Candidates]
    /\ UNCHANGED <<lanVars, peer, handling, dispatcher, notifier, ice, incoming, dropped>>

\* on_ice_candidate: signalled at once, before the offer too; errors are ignored.
ClientCandidate(c) ==
    /\ c \in client.gathering
    /\ client' = [client EXCEPT !.gathering = @ \ {c}]
    /\ net' = IF CanSignal("client") THEN Signalled("client", CandidateOf(0, c)) ELSE net
    /\ UNCHANGED <<address, server_data, discovered, subscribed, signals, requests, lagged, incidents,
                   peer, handling, dispatcher, notifier, ice, incoming, dropped>>

\* The subscription, then the offer; an error gives the subscription up.
ClientOffer ==
    /\ client.at = "local"
    /\ IF CanSignal("client")
       THEN /\ subscribed' = [subscribed EXCEPT !["client"] = TRUE]
            /\ net' = Signalled("client", Signal("Offer", 0))
            /\ client' = [client EXCEPT !.at = "offered"]
       ELSE /\ client' = [client EXCEPT !.at = "error"]
            /\ UNCHANGED <<subscribed, net>>
    /\ UNCHANGED <<address, server_data, discovered, signals, requests, lagged, incidents,
                   peer, handling, dispatcher, notifier, ice, incoming, dropped>>

\* Waiting for the answer, without a limit: candidates are kept until the
\* remote description is set, then added, and the candidate task starts.
AfterSignal(s) ==
    CASE s.type = "Answer" ->
           [client EXCEPT !.at = "opening", !.remote = s.data, !.task = "running",
                          !.added = @ \cup client.pending, !.pending = {}]
      [] s.type = "Candidate" -> [client EXCEPT !.pending = @ \cup {s.data}]
      [] OTHER -> client

ClientSignal ==
    /\ client.at = "offered" /\ signals["client"] # <<>>
    /\ client' = AfterSignal(Head(signals["client"]))
    /\ signals' = [signals EXCEPT !["client"] = Tail(@)]
    /\ UNCHANGED <<net, address, server_data, discovered, subscribed, requests, lagged, incidents,
                   peer, handling, dispatcher, notifier, ice, incoming, dropped>>

\* The candidate task takes candidates only.
ClientCandidateTask ==
    /\ client.task = "running" /\ signals["client"] # <<>>
    /\ LET s == Head(signals["client"])
       IN  client' = IF s.type = "Candidate" THEN [client EXCEPT !.added = @ \cup {s.data}] ELSE client
    /\ signals' = [signals EXCEPT !["client"] = Tail(@)]
    /\ UNCHANGED <<net, address, server_data, discovered, subscribed, requests, lagged, incidents,
                   peer, handling, dispatcher, notifier, ice, incoming, dropped>>

\* The receiver of the signals is dropped with its owner.
Unsubscribe ==
    /\ subscribed' = [subscribed EXCEPT !["client"] = FALSE]
    /\ signals' = [signals EXCEPT !["client"] = <<>>]

\* A WebRTC call of connect fails, before the offer or on the answer it has
\* taken, and connect returns the error.
ConnectFails ==
    /\ Incident
    /\ \/ client.at = "new"
       \/ /\ client.at = "offered" /\ signals["client"] # <<>>
          /\ Head(signals["client"]).type = "Answer"
    /\ client' = [client EXCEPT !.at = "error"]
    /\ Unsubscribe
    /\ UNCHANGED <<net, address, server_data, discovered, requests, lagged,
                   peer, handling, dispatcher, notifier, ice, incoming, dropped>>

\* Both channels open, or the first 10 s pass, which leaves the task running.
ClientChannelsOpen ==
    /\ client.at = "opening"
    /\ \/ ice = "connected" /\ client' = [client EXCEPT !.at = "ice"]
       \/ client' = [client EXCEPT !.at = "timeout"]
    /\ UNCHANGED <<lanVars, peer, handling, dispatcher, notifier, ice, incoming, dropped>>

\* Mutant: the poll of the ICE state has no limit and goes on after a failure.
ClientIceWaitEndless ==
    /\ client.at = "ice"
    /\ ice = "connected" /\ client' = [client EXCEPT !.at = "ok", !.task = "cancelled"]
    /\ Unsubscribe
    /\ UNCHANGED <<net, address, server_data, discovered, requests, lagged, incidents,
                   peer, handling, dispatcher, notifier, ice, incoming, dropped>>

\* The ICE state decides, or the second 10 s pass; the task is cancelled.  A
\* signal that it may take before it ends is of no use to connect any more.
ClientIceWait ==
    /\ client.at = "ice"
    /\ \/ ice = "connected" /\ client' = [client EXCEPT !.at = "ok", !.task = "cancelled"]
       \/ ice = "failed" /\ client' = [client EXCEPT !.at = "closed", !.task = "cancelled"]
       \/ client' = [client EXCEPT !.at = "timeout", !.task = "cancelled"]
    /\ Unsubscribe
    /\ UNCHANGED <<net, address, server_data, discovered, requests, lagged, incidents,
                   peer, handling, dispatcher, notifier, ice, incoming, dropped>>

-----------------------------------------------------------------------------
(* NethernetListener: the signal loop *)

\* bind: the task subscribes when it first runs.
ListenerStart ==
    /\ ~subscribed["server"]
    /\ subscribed' = [subscribed EXCEPT !["server"] = TRUE]
    /\ UNCHANGED <<net, address, server_data, discovered, signals, requests, lagged, incidents, negotiationVars>>

\* Mutant: the loop takes the next signal while an offer is being handled.
LoopFreeAlways == TRUE

\* The loop awaits handle_offer before the next signal.  Once the listener is
\* dropped the select still may choose a signal that is ready before it stops.
LoopFree == handling = 0

\* An offer: the peer connection, the notifier and the dispatcher, whose
\* earlier owners lose their end, and the candidate task.
BeginOffer(k) ==
    /\ LoopFree /\ signals["server"] # <<>> /\ Head(signals["server"]).type = "Offer"
    /\ peer[k].at = "none" /\ \A j \in 1 .. k - 1 : peer[j].at # "none"
    /\ signals' = [signals EXCEPT !["server"] = Tail(@)]
    /\ handling' = k
    /\ peer' = [peer EXCEPT ![k] = [NoPeer EXCEPT !.at = "registered", !.task = "running"]]
    /\ dispatcher' = k /\ notifier' = k
    /\ UNCHANGED <<net, address, server_data, discovered, subscribed, requests, lagged, incidents,
                   client, ice, incoming, dropped>>

\* The peer connection of an offer cannot be made.
RejectOffer ==
    /\ LoopFree /\ signals["server"] # <<>> /\ Head(signals["server"]).type = "Offer"
    /\ Incident
    /\ signals' = [signals EXCEPT !["server"] = Tail(@)]
    /\ UNCHANGED <<net, address, server_data, discovered, subscribed, requests, lagged, negotiationVars>>

\* Any other signal goes to the dispatcher's owner, or nowhere.
Dispatch ==
    /\ LoopFree /\ signals["server"] # <<>> /\ Head(signals["server"]).type # "Offer"
    /\ signals' = [signals EXCEPT !["server"] = Tail(@)]
    /\ peer' = IF dispatcher = 0 THEN peer
               ELSE [peer EXCEPT ![dispatcher].inbox = Append(@, Head(signals["server"]))]
    /\ UNCHANGED <<net, address, server_data, discovered, subscribed, requests, lagged, incidents,
                   client, handling, dispatcher, notifier, ice, incoming, dropped>>

-----------------------------------------------------------------------------
(* NethernetListener: handle_offer, after the registrations *)

\* The descriptions, gathering, and the answer signalled: one step, as the client
\* cannot tell a candidate found before the answer left from one that overtook
\* it.  Without an address the offer fails, and the entries and the task stay.
Answer(k) ==
    /\ peer[k].at = "registered"
    /\ IF CanSignal("server")
       THEN /\ net' = Signalled("server", Signal("Answer", k))
            /\ peer' = [peer EXCEPT ![k].at = "answered", ![k].remote = TRUE, ![k].gathering = Candidates]
            /\ UNCHANGED handling
       ELSE /\ peer' = [peer EXCEPT ![k].at = "failed", ![k].remote = TRUE, ![k].gathering = Candidates]
            /\ handling' = 0
            /\ UNCHANGED net
    /\ UNCHANGED <<address, server_data, discovered, subscribed, signals, requests, lagged, incidents,
                   client, dispatcher, notifier, ice, incoming, dropped>>

\* A WebRTC call of handle_offer fails before the answer leaves.
FailOffer(k) ==
    /\ peer[k].at = "registered" /\ Incident
    /\ \E described \in BOOLEAN : peer' = [peer EXCEPT ![k].at = "failed", ![k].remote = described]
    /\ handling' = 0
    /\ UNCHANGED <<net, address, server_data, discovered, subscribed, signals, requests, lagged,
                   client, dispatcher, notifier, ice, incoming, dropped>>

\* The state and data channel handlers, and the task that queues the session.
Arm(k) ==
    /\ peer[k].at = "answered"
    /\ peer' = [peer EXCEPT ![k].at = "armed", ![k].queue = "candidate"]
    /\ handling' = 0
    /\ UNCHANGED <<lanVars, client, dispatcher, notifier, ice, incoming, dropped>>

ServerCandidate(k, c) ==
    /\ c \in peer[k].gathering
    /\ peer' = [peer EXCEPT ![k].gathering = @ \ {c}]
    /\ net' = IF CanSignal("server") THEN Signalled("server", CandidateOf(k, c)) ELSE net
    /\ UNCHANGED <<address, server_data, discovered, subscribed, signals, requests, lagged, incidents,
                   client, handling, dispatcher, notifier, ice, incoming, dropped>>

-----------------------------------------------------------------------------
(* NethernetListener: the candidate task of a peer connection *)

\* A candidate is added, or turned down without a remote description; the
\* first one added removes and wakes the notifier of the connection id.
ServerCandidateTask(k) ==
    /\ peer[k].task = "running" /\ peer[k].inbox # <<>>
    /\ LET s == Head(peer[k].inbox)
           rest == [peer[k] EXCEPT !.inbox = Tail(@)]
       IN  IF s.type # "Candidate"
           THEN peer' = [peer EXCEPT ![k] = rest] /\ UNCHANGED notifier
           ELSE IF peer[k].remote
           THEN /\ peer' = [peer EXCEPT ![k] = [rest EXCEPT !.added = @ \cup {s.data}]]
                /\ notifier' = IF peer[k].added = {} THEN 0 ELSE notifier
           ELSE /\ peer' = [peer EXCEPT ![k] = [rest EXCEPT !.refused = @ \cup {s.data}]]
                /\ UNCHANGED notifier
    /\ UNCHANGED <<lanVars, client, handling, dispatcher, ice, incoming, dropped>>

\* Its sender is gone with the map entry: the task removes whatever entries
\* the connection id has now, and ends.
ServerCandidateTaskEnds(k) ==
    /\ peer[k].task = "running" /\ peer[k].inbox = <<>> /\ dispatcher # k
    /\ peer' = [peer EXCEPT ![k].task = "ended"]
    /\ dispatcher' = 0 /\ notifier' = 0
    /\ UNCHANGED <<lanVars, client, handling, ice, incoming, dropped>>

-----------------------------------------------------------------------------
(* NethernetListener: the queue task and drop *)

Queued(k) == IF dropped THEN incoming ELSE Append(incoming, k)

\* The first candidate has been added, or the notifier of this peer connection
\* was removed or replaced: the wait for the channels begins.
FirstCandidate(k) ==
    /\ peer[k].queue = "candidate" /\ notifier # k
    /\ peer' = [peer EXCEPT ![k].queue = "channels"]
    /\ UNCHANGED <<lanVars, client, handling, dispatcher, notifier, ice, incoming, dropped>>

\* Mutant: without a candidate in time the session is forgotten.
CandidateTimeoutForgets(k) ==
    /\ peer[k].queue = "candidate"
    /\ peer' = [peer EXCEPT ![k].queue = "done"]
    /\ UNCHANGED <<lanVars, client, handling, dispatcher, notifier, ice, incoming, dropped>>

\* 5 s pass without either: the session is queued and the task ends.
CandidateTimeout(k) ==
    /\ peer[k].queue = "candidate"
    /\ peer' = [peer EXCEPT ![k].queue = "done"]
    /\ incoming' = Queued(k)
    /\ UNCHANGED <<lanVars, client, handling, dispatcher, notifier, ice, dropped>>

\* The session has both channels.
ChannelsReady(k) ==
    /\ peer[k].queue = "channels" /\ peer[k].channels = "ready"
    /\ peer' = [peer EXCEPT ![k].queue = "done"]
    /\ incoming' = Queued(k)
    /\ UNCHANGED <<lanVars, client, handling, dispatcher, notifier, ice, dropped>>

\* Another 5 s pass without them: the session is queued all the same.
ChannelsTimeout(k) ==
    /\ peer[k].queue = "channels"
    /\ peer' = [peer EXCEPT ![k].queue = "done"]
    /\ incoming' = Queued(k)
    /\ UNCHANGED <<lanVars, client, handling, dispatcher, notifier, ice, dropped>>

DropListener ==
    /\ ~dropped /\ Incident
    /\ dropped' = TRUE
    /\ incoming' = <<>>
    /\ UNCHANGED <<net, address, server_data, discovered, subscribed, signals, requests, lagged, client, peer, handling, dispatcher, notifier, ice>>

-----------------------------------------------------------------------------
(* WebRTC, as far as the handlers of both ends see it *)

\* ICE pairs the client with the peer connection whose answer it has.
IceConnect ==
    /\ ice = "new" /\ client.remote # 0
    /\ peer[client.remote].added # {} \/ \E c \in Candidates : <<client.remote, c>> \in client.added
    /\ ice' = "connected"
    /\ UNCHANGED <<lanVars, client, peer, handling, dispatcher, notifier, incoming, dropped>>

IceFail ==
    /\ ice # "failed" /\ client.remote # 0
    /\ ice' = "failed"
    /\ UNCHANGED <<lanVars, client, peer, handling, dispatcher, notifier, incoming, dropped>>

\* on_data_channel, for both channels: the session has them and is ready, unless
\* one was announced before the handler was set and is lost.
DataChannels(k) ==
    /\ ice = "connected" /\ client.remote = k /\ peer[k].channels = "none"
    /\ peer' = [peer EXCEPT ![k].channels = IF peer[k].at = "armed" THEN "ready" ELSE "lost"]
    /\ UNCHANGED <<lanVars, client, handling, dispatcher, notifier, ice, incoming, dropped>>

\* on_peer_connection_state_change: failed, disconnected or closed.  It takes
\* the entry of the connection id, whoever owns it; a peer connection that the
\* client does not know of can only fail.
PeerGone(k) ==
    /\ peer[k].at = "armed" /\ (client.remote = k => ice = "failed") /\ dispatcher # 0
    /\ dispatcher' = 0
    /\ UNCHANGED <<lanVars, client, peer, handling, notifier, ice, incoming, dropped>>

-----------------------------------------------------------------------------
NegotiationInit ==
    /\ LanInit
    /\ client = NoClient
    /\ peer = [k \in Offers |-> NoPeer]
    /\ handling = 0 /\ dispatcher = 0 /\ notifier = 0
    /\ ice = "new"
    /\ incoming = <<>> /\ dropped = FALSE

ClientNext ==
    \/ SetLocalDescription
    \/ \E c \in Candidates : ClientCandidate(c)
    \/ ClientOffer
    \/ ClientSignal
    \/ ConnectFails
    \/ ClientCandidateTask
    \/ ClientChannelsOpen
    \/ ClientIceWait

ListenerNext ==
    \/ ListenerStart
    \/ Dispatch
    \/ RejectOffer
    \/ DropListener
    \/ \E k \in Offers :
          \/ BeginOffer(k)
          \/ Answer(k)
          \/ FailOffer(k)
          \/ Arm(k)
          \/ \E c \in Candidates : ServerCandidate(k, c)
          \/ ServerCandidateTask(k)
          \/ ServerCandidateTaskEnds(k)
          \/ FirstCandidate(k)
          \/ CandidateTimeout(k)
          \/ ChannelsReady(k)
          \/ ChannelsTimeout(k)

WebRtcNext ==
    \/ IceConnect
    \/ IceFail
    \/ \E k \in Offers : PeerGone(k) \/ DataChannels(k)

NegotiationNext ==
    \/ LanStep /\ UNCHANGED negotiationVars
    \/ ClientNext
    \/ ListenerNext
    \/ WebRtcNext

SignalPackets ==
    {MessagePacket("server", Signal("Offer", 0))} \cup
    {MessagePacket("client", Signal("Answer", k)) : k \in Offers}

\* The two tasks whose steps come one after the other: connect, and the signal
\* loop with the offer it handles.
ConnectTask == ClientOffer \/ ClientSignal \/ ClientChannelsOpen \/ ClientIceWait

SignalLoop ==
    \/ ~dropped /\ (Dispatch \/ \E k \in Offers : BeginOffer(k))
    \/ \E k \in Offers : Answer(k) \/ Arm(k)

\* A task that can run does, the loop until the listener is dropped; the network
\* delivers what it does not lose, and the client's timers fire.  Nothing is
\* assumed of the intervals, of ICE, of when candidates are found, or of the
\* tasks and timers that only the listener's application waits for.
NegotiationFairness ==
    /\ WF_allVars(\E p \in SignalPackets : Deliver(p) /\ UNCHANGED negotiationVars)
    /\ WF_allVars(ConnectTask)
    /\ WF_allVars(SignalLoop)

NegotiationSpec == NegotiationInit /\ [][NegotiationNext]_allVars /\ NegotiationFairness

-----------------------------------------------------------------------------
(* Properties *)

\* Type invariant: the signals of a subscriber stay within the broadcast
\* channel, and every session queued is one whose offer was answered.
NegotiationTypeOK ==
    /\ \A n \in Nodes : Len(signals[n]) <= SignalCapacity /\ address[n] \in {"none", "fresh", "old"}
    /\ incidents \in 0 .. MaxIncidents
    /\ client.at \in {"new", "local", "offered", "opening", "ice"} \cup Returned
    /\ client.remote \in {0} \cup Offers
    /\ \A k \in Offers : peer[k].at \in {"none", "registered", "answered", "armed", "failed"}
    /\ {handling, dispatcher, notifier} \subseteq {0} \cup Offers
    /\ ice \in {"new", "connected", "failed"}
    /\ \A k \in Range(incoming) : Answered(k)

\* No end hands WebRTC a candidate before the remote description, which would
\* turn it down for good.  The client keeps candidates until the answer is set;
\* the listener's loop finishes an offer before it dispatches the next signal,
\* so that only an offer whose handling failed before its description was set
\* leaves a candidate task to which candidates are of no use.
NoCandidateRefused ==
    /\ client.remote = 0 => client.added = {}
    /\ \A k \in Offers : peer[k].refused # {} => peer[k].at = "failed" /\ ~peer[k].remote

\* No session of an offer that was answered is stranded: it is queued for
\* accept(), or its task waits for the channels, or for a first candidate that it
\* cannot have missed.  So the first candidate always wakes the task, also when
\* a duplicated offer has replaced the notifier of the connection id or another
\* candidate task removed it, and no timer that fires early loses the session
\* ("Still add to incoming queue, client will handle the error").
SessionNotStranded ==
    \A k \in Offers : peer[k].at = "armed" =>
        \/ dropped \/ k \in Range(incoming)
        \/ peer[k].queue = "channels"
        \/ peer[k].queue = "candidate" /\ (peer[k].added # {} => notifier # k)

Troubled == incidents > 0 \/ lagged \/ dropped

\* When no packet is lost, no entry expires and no subscriber lags, a connect
\* to a listener that runs returns: nothing the two ends do makes the answer
\* miss the client, and both waits after it are limited.
ConnectEnds ==
    (client.at = "local" /\ subscribed["server"] /\ ~Troubled) ~> (client.at \in Returned \/ Troubled)

\* connect returns whatever the network does ("may return Timeout if
\* signaling, channel opening, or ICE convergence does not complete").
ConnectAlwaysEnds == client.at = "offered" ~> client.at \in Returned

\* A peer connection that has answered, and that ICE has not lost, is the one
\* the candidates of its connection id are dispatched to.
CandidatesReachPeer ==
    \A k \in Offers : Answered(k) /\ client.remote = k /\ ice # "failed" => dispatcher = k

\* No data channel is announced to a peer connection before its handler is set
\* (handle_offer signals the answer first).
ChannelsKept == \A k \in Offers : peer[k].channels # "lost"
=============================================================================
