---------------------------- MODULE SupportPage ----------------------------
(***************************************************************************)
(* The support channels: the tab Messages of pages/support/SupportChat.tsx *)
(* against the inboxer (inboxer/app.py).                                   *)
(*                                                                         *)
(* handleSend belongs to the channel that was selected when it was called: *)
(* it loads that channel again, and it clears whatever the user has typed  *)
(* by the time of the answer.  Enter sends the same text again while it is *)
(* being sent.                                                             *)
(*                                                                         *)
(* Abstractions: a text is the number of the step in which it was typed,   *)
(* and 0 is an empty field; the recipient, which the inboxer only stores,  *)
(* is left out; an administrator's channels are the ones of the others.    *)
(***************************************************************************)
EXTENDS Fetch

CONSTANTS
  Names,         \* channels
  MaxSteps,      \* bound: what the user does
  MaxFlight,     \* bound: requests in flight when a handler starts
  MaxFaults      \* bound: requests that fail

VARIABLES server, view, flight, past

vars == <<server, view, flight, past>>

-----------------------------------------------------------------------------
(* The page. *)

MayAct == past.steps < MaxSteps /\ Len(flight) < MaxFlight

Acted == [past EXCEPT !.steps = @ + 1]

\* loadMessages of the render with this channel, up to its await.
LoadMessages(channel) == Request("messages", channel)

Load ==
  /\ MayAct /\ past' = Acted
  /\ flight' = Append(flight, LoadMessages(view.channel))
  /\ UNCHANGED <<server, view>>

\* Selecting a channel, and the effect on it.
SetChannel(channel) ==
  /\ channel # view.channel
  /\ MayAct /\ past' = Acted
  /\ view' = [view EXCEPT !.channel = channel]
  /\ flight' = Append(flight, LoadMessages(channel))
  /\ UNCHANGED server

\* Typing another text into the field; a text that was typed over is given up.
Type ==
  /\ MayAct
  /\ view' = [view EXCEPT !.body = past.steps + 1]
  /\ past' = [Acted EXCEPT !.typed = (@ \ {view.body}) \cup {past.steps + 1},
                           !.exposed = IF InFlight(flight, "send") THEN @ \cup {past.steps + 1} ELSE @]
  /\ UNCHANGED <<server, flight>>

\* handleSend, up to its await: the Send button and the Enter key.
Send ==
  /\ view.body # 0
  /\ MayAct /\ past' = Acted
  /\ flight' = Append(flight, Request("send", [channel |-> view.channel, body |-> view.body]))
  /\ UNCHANGED <<server, view>>

-----------------------------------------------------------------------------
(* The inboxer. *)

ServeMessages(i) ==
  /\ i \in Waiting(flight, "messages")
  /\ flight' = Served(flight, i, "ok", server[flight[i].arg])
  /\ UNCHANGED <<server, view, past>>

\* The newest message comes first.
ServeSend(i) ==
  LET r == flight[i].arg
  IN /\ i \in Waiting(flight, "send")
     /\ flight' = Served(flight, i, "ok", {})
     /\ server' = [server EXCEPT ![r.channel] = <<r.body>> \o @]
     /\ UNCHANGED <<view, past>>

Fail(i) ==
  /\ past.faults < MaxFaults
  /\ flight[i].outcome # "throws"
  /\ flight' = Served(flight, i, "throws", {})
  /\ past' = [past EXCEPT !.faults = @ + 1]
  /\ UNCHANGED <<server, view>>

-----------------------------------------------------------------------------
(* What the handlers do with the answers. *)

\* The rest of loadMessages, whichever channel is selected by then.
HandleMessages(i) ==
  LET r == flight[i]
      own == r.arg = view.channel
  IN /\ i \in Answers(flight, "messages")
     /\ view' = IF r.outcome = "ok" THEN [view EXCEPT !.shown = r.data] ELSE view
     /\ flight' = Handled(flight, i)
     /\ past' = [past EXCEPT !.stale = IF own THEN StaleAfterLoad(@, r) ELSE @ \cup {"messages"}]
     /\ UNCHANGED server

\* The rest of handleSend: the field is emptied and the channel of the call is loaded.
HandleSend(i) ==
  LET r == flight[i]
      good == r.outcome = "ok"
      rest == Handled(flight, i)
  IN /\ i \in Answers(flight, "send")
     /\ view' = IF good THEN [view EXCEPT !.body = 0] ELSE view
     /\ flight' = IF good THEN Append(rest, LoadMessages(r.arg.channel))
                  ELSE Outdated(rest, {"messages"})
     /\ past' = [past EXCEPT !.stale = IF good THEN @ ELSE @ \cup {"messages"}]
     /\ UNCHANGED server

-----------------------------------------------------------------------------
(* The specification. *)

\* Empty channels, one of which is selected.
Init ==
  /\ server = [channel \in Names |-> <<>>]
  /\ \E channel \in Names :
       /\ view = [channel |-> channel, shown |-> <<>>, body |-> 0]
       /\ flight = <<LoadMessages(channel)>>
  /\ past = [stale |-> {}, typed |-> {}, exposed |-> {}, steps |-> 0, faults |-> 0]

Next ==
  \/ Load \/ Type \/ Send
  \/ \E channel \in Names : SetChannel(channel)
  \/ \E i \in DOMAIN flight :
       ServeMessages(i) \/ ServeSend(i) \/ Fail(i) \/ HandleMessages(i) \/ HandleSend(i)

Spec == Init /\ [][Next]_vars

-----------------------------------------------------------------------------
(* Properties. *)

Stored == UNION {{server[channel][k] : k \in DOMAIN server[channel]} : channel \in Names}

Sending == {flight[i].arg.body : i \in {j \in DOMAIN flight : flight[j].op = "send"}}

\* Messages, the field and requests keep their types.
TypeOK ==
  /\ view.channel \in Names /\ view.body \in 0..MaxSteps
  /\ Stored \subseteq 1..MaxSteps
  /\ \A i \in DOMAIN flight : IsRequest(flight[i], {"messages", "send"})

\* When nothing is in flight the page shows the messages of the selected channel, unless
\* an answer was late or lost, or the last one was that of a channel left meanwhile.
ViewConverges ==
  flight = <<>> /\ past.stale = {} => view.shown = server[view.channel]

\* What the user typed last is in the field, on its way or stored, unless it was typed
\* while another text was being sent, whose answer empties the field.
TypedIsKept ==
  past.typed \ past.exposed \subseteq {view.body} \cup Sending \cup Stored
=============================================================================
