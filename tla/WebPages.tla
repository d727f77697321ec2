------------------------------ MODULE WebPages ------------------------------
(***************************************************************************)
(* The pages of the web console, one at a time: each behaviour picks a     *)
(* page and is a behaviour of that page's module.  The pages share their   *)
(* four variables, their bounds and the way they wait for requests         *)
(* (Fetch); the services behind them keep no state in common that a page   *)
(* shows.                                                                  *)
(***************************************************************************)
EXTENDS Integers, Sequences

CONSTANTS
  Accounts, Admins, Tabs,        \* of WebSession
  Names, None,                   \* of the other pages
  MaxSteps, MaxFlight, MaxFaults,\* bounds of the pages, one step more for three small ones
  SessionSteps, DocumentSteps    \* bounds on the steps of two larger ones

ASSUME BoundsAssumption == MaxSteps \in Nat /\ MaxFaults \in Nat
ASSUME NamesAssumption == Names # {}
ASSUME AdminsAssumption == Admins \subseteq Accounts
ASSUME NoneAssumption == None \notin Tabs \cup Names \cup Accounts
ASSUME DialogAssumption == None \notin {"template", "doc", "sig"}

VARIABLES page, server, view, flight, past

vars == <<page, server, view, flight, past>>

Session == INSTANCE WebSession WITH MaxSteps <- SessionSteps
Users == INSTANCE UsersPage
Brokers == INSTANCE BrokersPage
Settings == INSTANCE SettingsPage
Documents == INSTANCE DocumentsPage WITH MaxSteps <- DocumentSteps
Nodes == INSTANCE NodesPage
Templates == INSTANCE TemplatesPage
Keywords == INSTANCE KeywordsPage
Payments == INSTANCE PaymentsPage
Monitor == INSTANCE MonitorPages
Flasher == INSTANCE FlasherPage WITH MaxSteps <- MaxSteps + 1
Support == INSTANCE SupportPage WITH MaxSteps <- MaxSteps + 1
Mail == INSTANCE MailPage WITH MaxSteps <- MaxSteps + 1

-----------------------------------------------------------------------------

\* The route of App that is open.
Init ==
  \/ page = "session" /\ Session!Init
  \/ page = "users" /\ Users!Init
  \/ page = "brokers" /\ Brokers!Init
  \/ page = "settings" /\ Settings!Init
  \/ page = "documents" /\ Documents!Init
  \/ page = "nodes" /\ Nodes!Init
  \/ page = "templates" /\ Templates!Init
  \/ page = "flasher" /\ Flasher!Init
  \/ page = "keywords" /\ Keywords!Init
  \/ page = "support" /\ Support!Init
  \/ page = "mail" /\ Mail!Init
  \/ page = "payments" /\ Payments!Init
  \/ page = "monitor" /\ Monitor!Init

Next ==
  \/ page = "session" /\ Session!Next /\ UNCHANGED page
  \/ page = "users" /\ Users!Next /\ UNCHANGED page
  \/ page = "brokers" /\ Brokers!Next /\ UNCHANGED page
  \/ page = "settings" /\ Settings!Next /\ UNCHANGED page
  \/ page = "documents" /\ Documents!Next /\ UNCHANGED page
  \/ page = "nodes" /\ Nodes!Next /\ UNCHANGED page
  \/ page = "templates" /\ Templates!Next /\ UNCHANGED page
  \/ page = "flasher" /\ Flasher!Next /\ UNCHANGED page
  \/ page = "keywords" /\ Keywords!Next /\ UNCHANGED page
  \/ page = "support" /\ Support!Next /\ UNCHANGED page
  \/ page = "mail" /\ Mail!Next /\ UNCHANGED page
  \/ page = "payments" /\ Payments!Next /\ UNCHANGED page
  \/ page = "monitor" /\ Monitor!Next /\ UNCHANGED page

Spec == Init /\ [][Next]_vars

-----------------------------------------------------------------------------
(* Properties. *)

\* Every page, its dialogs and its requests keep their types, and so do the services.
TypeOK ==
  /\ page = "session" => Session!TypeOK
  /\ page = "users" => Users!TypeOK
  /\ page = "brokers" => Brokers!TypeOK
  /\ page = "settings" => Settings!TypeOK
  /\ page = "documents" => Documents!TypeOK
  /\ page = "nodes" => Nodes!TypeOK
  /\ page = "templates" => Templates!TypeOK
  /\ page = "flasher" => Flasher!TypeOK
  /\ page = "keywords" => Keywords!TypeOK
  /\ page = "support" => Support!TypeOK
  /\ page = "mail" => Mail!TypeOK
  /\ page = "payments" => Payments!TypeOK
  /\ page = "monitor" => Monitor!TypeOK

\* Once nothing is in flight a page shows what the service has, unless it missed an
\* answer, got one out of turn, or loaded before a change was committed: lists that are
\* loaded again after each change, and the key pair that UserSettings shows only once.
ViewsConverge ==
  /\ page = "users" => Users!ViewConverges
  /\ page = "brokers" => Brokers!ViewConverges
  /\ page = "settings" => Settings!KeypairShownIsRegistered
  /\ page = "documents" => Documents!ViewConverges
  /\ page = "nodes" => Nodes!ViewConverges
  /\ page = "templates" => Templates!ViewConverges
  /\ page = "keywords" => Keywords!ViewConverges
  /\ page = "support" => Support!ViewConverges
  /\ page = "mail" => Mail!ViewConverges
  /\ page = "payments" => Payments!ViewConverges
  /\ page = "monitor" => Monitor!ViewConverges

\* What the user edits goes where the page says: a template's text to its own name, the
\* rows of an import from the file that is named, the firmware that is shown to the board,
\* a mail to the relay, and neither a letter nor a message is lost with its form.
EditsLand ==
  /\ page = "brokers" => Brokers!ImportIsOfNamedFile
  /\ page = "documents" => Documents!LettersAreKept
  /\ page = "templates" => Templates!SavedUnderItsName
  /\ page = "flasher" => Flasher!FlashedAsShown
  /\ page = "support" => Support!TypedIsKept
  /\ page = "mail" => Mail!MailsGoOut

\* A blacklisted address stays until a row with its id is deleted on the page, unless the
\* director's threads overlapped.
RemovedAsAsked ==
  page = "nodes" => Nodes!RemovedAsAsked

\* A tab shows the profile of the account whose token it has, unless the session changed
\* while a profile was on its way, another tab changed the token that the request for it
\* carried, or such a request failed.
ProfileIsOfSession ==
  page = "session" => Session!ProfileIsOfSession
=============================================================================
