--------------------------- MODULE StreamedGateway ---------------------------
(***************************************************************************)
(* Gateway with forward_stream (app/__init__.py) in full: a streamed       *)
(* answer arrives in chunks, each is given to the tracker of Streaming and *)
(* passed on, and the tracker's verdict decides between settlement and     *)
(* reconciliation.  Every step is one of Gateway, or reads the stream.     *)
(***************************************************************************)
EXTENDS Gateway, Streaming

CONSTANT Texts  \* the streams a provider may send

ASSUME TextsAssumption == Texts \subseteq Seq(Pieces)

VARIABLES
    text,    \* what the provider of each request sends
    tracker  \* the tracker of each request's handler

streamVars == <<text, tracker>>

StreamTypeOK ==
    /\ text \in [Requests -> Texts \cup {<<>>}]
    /\ tracker \in [Requests -> Tracker]
    /\ \A r \in Requests :
          /\ tracker[r].fed <= Len(text[r])
          /\ tracker[r].at = "reading" => LineEnds(tracker[r].buffer) = {}

StreamedInit ==
    /\ GatewayInit
    /\ text = [r \in Requests |-> <<>>]
    /\ tracker = [r \in Requests |-> NewTracker]

Tracks(r, t) ==
    /\ tracker' = [tracker EXCEPT ![r] = t]
    /\ UNCHANGED <<gatewayVars, text>>

(* The upstream is open: another tracker, another text.                    *)
stream_opens(r) ==
    /\ ProviderReturns(r, "opened")
    /\ \E sent \in Texts : text' = [text EXCEPT ![r] = sent]
    /\ tracker' = [tracker EXCEPT ![r] = NewTracker]

receives(r) ==
    /\ pc[r] = "stream"
    /\ tracker[r].at = "reading"
    /\ \E n \in 1..(Len(text[r]) - tracker[r].fed) :
          Tracks(r, feed(tracker[r],
                         SubSeq(text[r], tracker[r].fed + 1, tracker[r].fed + n)))

parses(r) ==
    /\ pc[r] = "stream"
    /\ tracker[r].at = "parsing"
    /\ Tracks(r, parse_next(tracker[r]))

finishes(r) ==
    /\ pc[r] = "stream"
    /\ tracker[r].at = "reading"
    /\ tracker[r].fed = Len(text[r])
    /\ Tracks(r, finish(tracker[r]))

complete_if_closed(t) == t.at = "ended"
complete(t) == t.at = "ended" /\ t.done

stream_complete(r) ==
    /\ complete(tracker[r])
    /\ StreamDone(r)
    /\ UNCHANGED streamVars

stream_broken_unmarked(r) ==
    /\ tracker[r].at # "parsing"
    /\ ~complete(tracker[r])
    /\ StreamBroken_unmarked(r)
    /\ UNCHANGED streamVars

(* Incomplete, malformed or too long; or the upstream broke off or the     *)
(* client was cancelled while it was awaited.                              *)
stream_broken(r) ==
    /\ tracker[r].at # "parsing"
    /\ ~complete(tracker[r])
    /\ StreamBroken(r)
    /\ UNCHANGED streamVars

(* Suspended at the yield that follows feed, or never started.             *)
stream_abandoned(r) ==
    /\ tracker[r].at = "reading"
    /\ StreamAbandoned(r)
    /\ UNCHANGED streamVars

(* settlement_response: without a reported prompt count the input is the   *)
(* request's own estimate.                                                 *)
estimated_input(t) == ~t.prompt

settles(r) ==
    /\ pc[r] = "settling"
    /\ \E t \in open, response \in Responses, upstream_cost \in UpstreamCosts :
          /\ t.session = r
          /\ direct_upstream_stream(r) =>
                response.estimated = estimated_input(tracker[r])
          /\ settle_model_request(t, response, upstream_cost)
    /\ Goto(r, "done")
    /\ UNCHANGED <<index, outcome, attempts, billed, streamVars>>

(* The steps in which no stream is read.                                   *)
HandlerApart(r) ==
    /\ \/ Refuse(r) \/ Admit(r)
       \/ \E o \in Outcomes \ {"opened"} : ProviderReturns(r, o)
       \/ RecordAttempt(r) \/ RecordAttemptFails(r)
       \/ BeginSettle(r) \/ SettleFails(r)
       \/ BeginMark(r) \/ Mark(r)
       \/ BeginRelease(r) \/ Release(r) \/ ReleaseFails(r)
       \/ Crash(r)
    /\ UNCHANGED streamVars

(* The rest of Gateway's Surroundings (budgets, prices, the calendar, who  *)
(* is admissible) does not meet a stream and is left to Gateway.           *)
StreamedNext ==
    \/ \E r \in Requests :
          \/ stream_opens(r) \/ receives(r) \/ parses(r) \/ finishes(r)
          \/ stream_complete(r) \/ stream_broken(r) \/ stream_abandoned(r)
          \/ settles(r)
          \/ HandlerApart(r)
    \/ \E o \in Operators : reconcile_request(o) /\ UNCHANGED streamVars
    \/ \E stale \in SUBSET Requests : run_once(stale) /\ UNCHANGED streamVars

StreamedSpec == StreamedInit /\ [][StreamedNext]_<<gatewayVars, streamVars>>

(* Nothing more is assumed of a stream than of a handler.                  *)
FairStreamedSpec == StreamedSpec /\ MaintenanceRuns

-----------------------------------------------------------------------------
(* Properties                                                              *)

(* Wherever the network cuts the stream, inside [DONE], inside a usage     *)
(* object or before a last line that has no line end, the tracker finds    *)
(* what the stream says.                                                   *)
ChunksDoNotMatter == \A r \in Requests : ReadsAs(tracker[r], text[r])

(* The handler settles a streamed request only when the whole stream, to   *)
(* its [DONE], has come; and the input it charges is what the stream       *)
(* reports, or, only when it reports none, the request's own estimate.     *)
SettlesWholeStreams ==
    [][\A r \in Requests :
          /\ direct_upstream_stream(r)
          /\ pc[r] = "settling" /\ pc'[r] = "done"
          => /\ Says(text[r], IsDone) /\ ~Says(text[r], Malformed)
             /\ IF Says(text[r], GivesPrompt)
                THEN request'[r].input_tokens \in
                        {response.input : response \in {s \in Responses : ~s.estimated}}
                ELSE request'[r].input_tokens = request[r].input_tokens
      ]_<<gatewayVars, streamVars>>

(* The handlers with their streams do only what Gateway lets them do.      *)
ImplementsGateway == GatewaySpec
=============================================================================
