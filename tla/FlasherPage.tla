---------------------------- MODULE FlasherPage ----------------------------
(***************************************************************************)
(* Flashing a node from the browser: pages/Flasher.tsx, an ESP32 board on  *)
(* a serial port (esptool-js), and the site that serves the firmware.      *)
(*                                                                         *)
(* handleFlash is one long asynchronous function; `stage` is the await at  *)
(* which it stands.  It works with the firmware and the baud rate of the   *)
(* moment of the click, while the buttons that load a firmware or change   *)
(* the rate stay on.                                                       *)
(*                                                                         *)
(* Abstractions: a firmware is the name of its file, and the site serves   *)
(* one of them; baud rates are numbered from the slowest; the board is     *)
(* written in Chunks parts; the console and the reference form of the last *)
(* step, which nothing reads, are left out.                                *)
(***************************************************************************)
EXTENDS Fetch

CONSTANTS
  Names,         \* firmware files
  None,          \* no firmware
  MaxSteps,      \* bound: what the user does
  MaxFlight,     \* bound: downloads and file reads when a handler starts
  MaxFaults      \* bound: downloads, connections and writes that fail

VARIABLES server, view, flight, past

vars == <<server, view, flight, past>>

\* BAUD_RATES, slowest first.
Rates == 1..4

Chunks == 2

Statuses == {"idle", "connecting", "flashing", "done", "error"}

Stages == {"none", "port", "connect", "firmware", "erase", "write", "reset"}

-----------------------------------------------------------------------------
(* The page. *)

MayAct == past.steps < MaxSteps

Acted == [past EXCEPT !.steps = @ + 1]

MaySend == MayAct /\ Len(flight) < MaxFlight

\* The first step: the site's firmware, while there is none, or a file.
OffersDownload == view.firmware = None

\* loadFirmwareFromServer up to its await; `by` is the caller that gets the result.
Download(by) == Request("download", by)

FetchFirmware ==
  /\ OffersDownload /\ MaySend
  /\ flight' = Append(flight, Download("button"))
  /\ past' = Acted
  /\ UNCHANGED <<server, view>>

\* handleFileUpload.
FileUpload(file) ==
  /\ MaySend
  /\ flight' = Append(flight, Request("reader", file))
  /\ past' = Acted
  /\ UNCHANGED <<server, view>>

\* The second step: the rate of the next attempt.
SetBaudRate(rate) ==
  /\ MayAct /\ rate # view.rate
  /\ view' = [view EXCEPT !.rate = rate]
  /\ past' = Acted
  /\ UNCHANGED <<server, flight>>

\* The third step's button is off while an attempt runs.
OffersFlash == view.serial /\ view.status \notin {"connecting", "flashing"}

\* handleFlash, up to the dialog that asks for a port.  It tries its rate and then
\* every lower one.
Flash ==
  /\ OffersFlash /\ MayAct
  /\ view' = [view EXCEPT !.status = "connecting", !.progress = 0, !.stage = "port",
                          !.using = view.firmware, !.tries = view.rate]
  /\ past' = [Acted EXCEPT !.swapped = FALSE]
  /\ UNCHANGED <<server, flight>>

\* Continue under step `index` of the stepper.
Continue(index) ==
  /\ index < view.active /\ (index = 2 => view.status = "done")
  /\ index + 1 # view.active
  /\ MayAct /\ past' = Acted
  /\ view' = [view EXCEPT !.active = index + 1]
  /\ UNCHANGED <<server, flight>>

\* Flash Another Device: a board with its own firmware takes the place of this one.
FlashAnother ==
  /\ view.status = "done"
  /\ MayAct /\ past' = Acted
  /\ view' = [view EXCEPT !.active = 0, !.status = "idle", !.progress = 0, !.firmware = None]
  /\ server' = [erased |-> FALSE, has |-> None]
  /\ UNCHANGED flight

-----------------------------------------------------------------------------
(* handleFlash from await to await. *)

At(stage) == view.stage = stage

Goes(v) ==
  /\ view' = v
  /\ UNCHANGED <<server, flight, past>>

Thrown(status) == [view EXCEPT !.stage = "none", !.status = status]

PortChosen == At("port") /\ Goes([view EXCEPT !.stage = "connect"])

\* Closing the dialog of the browser is a NotFoundError.
NoPortChosen == At("port") /\ Goes(Thrown("idle"))

\* Another download only if there was no firmware at the click.
Connected ==
  LET next == [view EXCEPT !.status = "flashing", !.active = 2,
                           !.stage = IF view.using = None THEN "firmware" ELSE "erase"]
  IN /\ At("connect")
     /\ view' = next
     /\ flight' = IF view.using = None THEN Append(flight, Download("flash")) ELSE flight
     /\ UNCHANGED <<server, past>>

MayFault == past.faults < MaxFaults /\ past' = [past EXCEPT !.faults = @ + 1]

\* The last rate's error ends the attempt.
NotConnected ==
  /\ At("connect") /\ MayFault
  /\ view' = IF view.tries = 1 THEN Thrown("error") ELSE [view EXCEPT !.tries = @ - 1]
  /\ UNCHANGED <<server, flight>>

Erase ==
  /\ At("erase")
  /\ view' = [view EXCEPT !.stage = "write"]
  /\ server' = [erased |-> TRUE, has |-> None]
  /\ UNCHANGED <<flight, past>>

\* writeFlash reports its progress after each part.
Write ==
  /\ At("write")
  /\ view' = [view EXCEPT !.progress = @ + 1,
                          !.stage = IF view.progress + 1 = Chunks THEN "reset" ELSE "write"]
  /\ server' = IF view.progress + 1 = Chunks THEN [erased |-> FALSE, has |-> view.using] ELSE server
  /\ UNCHANGED <<flight, past>>

\* Reset and disconnect.
Restarted ==
  /\ At("reset")
  /\ Goes([view EXCEPT !.stage = "none", !.status = "done", !.active = 3])

\* An error of the board or of the cable.
BoardFails ==
  /\ view.stage \in {"port", "erase", "write", "reset"}
  /\ MayFault
  /\ view' = Thrown("error")
  /\ UNCHANGED <<server, flight>>

-----------------------------------------------------------------------------
(* Firmware that arrives. *)

\* The file at FIRMWARE_URL.
Site == CHOOSE file \in Names : TRUE

ServeDownload(i) ==
  /\ i \in Waiting(flight, "download")
  /\ flight' = Served(flight, i, "ok", Site)
  /\ UNCHANGED <<server, view, past>>

DownloadFails(i) ==
  /\ i \in Waiting(flight, "download") /\ MayFault
  /\ flight' = Served(flight, i, "throws", {})
  /\ UNCHANGED <<server, view>>

\* setFirmwareData, possibly while another firmware is on its way to the board.
Ready(v, file) == [v EXCEPT !.firmware = file]

Noted == [past EXCEPT !.swapped = @ \/ view.status \in {"connecting", "flashing", "done"}]

\* The rest of loadFirmwareFromServer.  handleFlash waits for its own download only.
HandleDownload(i) ==
  LET r == flight[i]
      mine == r.arg = "flash"
  IN /\ i \in Answers(flight, "download")
     /\ view' = CASE r.outcome = "ok" /\ mine ->
                       [Ready(view, r.data) EXCEPT !.using = r.data, !.stage = "erase"]
                  [] r.outcome = "ok" /\ ~mine -> Ready(view, r.data)
                  [] r.outcome # "ok" /\ mine -> Thrown("error")
                  [] OTHER -> view
     /\ flight' = Handled(flight, i)
     /\ past' = IF r.outcome = "ok" /\ ~mine THEN Noted ELSE past
     /\ UNCHANGED server

\* reader.onload.
ReaderLoads(i) ==
  /\ i \in Waiting(flight, "reader")
  /\ view' = Ready(view, flight[i].arg)
  /\ flight' = Handled(flight, i)
  /\ past' = Noted
  /\ UNCHANGED server

-----------------------------------------------------------------------------
(* The specification. *)

\* A browser that has WebSerial or not, and a board with the firmware it came with.
Init ==
  /\ server = [erased |-> FALSE, has |-> None]
  /\ \E serial \in BOOLEAN :
       view = [serial |-> serial, status |-> "idle", stage |-> "none", active |-> 0,
               progress |-> 0, firmware |-> None, using |-> None, rate |-> 3, tries |-> 0]
  /\ flight = <<>>
  /\ past = [swapped |-> FALSE, steps |-> 0, faults |-> 0]

Next ==
  \/ FetchFirmware \/ Flash \/ FlashAnother
  \/ \E file \in Names : FileUpload(file)
  \/ \E rate \in Rates : SetBaudRate(rate)
  \/ \E index \in 0..3 : Continue(index)
  \/ PortChosen \/ NoPortChosen \/ Connected \/ NotConnected
  \/ Erase \/ Write \/ Restarted \/ BoardFails
  \/ \E i \in DOMAIN flight :
       ServeDownload(i) \/ DownloadFails(i) \/ HandleDownload(i) \/ ReaderLoads(i)

Spec == Init /\ [][Next]_vars

-----------------------------------------------------------------------------
(* Properties. *)

\* The page keeps its types, and an attempt is running exactly while a stage is waited for.
TypeOK ==
  /\ server.erased \in BOOLEAN /\ server.has \in Names \cup {None}
  /\ view.status \in Statuses /\ view.stage \in Stages
  /\ view.status \in {"connecting", "flashing"} <=> view.stage # "none"
  /\ {view.firmware, view.using} \subseteq Names \cup {None}
  /\ view.active \in 0..3 /\ view.progress \in 0..Chunks /\ view.rate \in Rates
  /\ \A i \in DOMAIN flight : IsRequest(flight[i], {"download", "reader"})

\* A board is only ever erased with a firmware in hand, and the page still has one for the
\* next attempt as long as the board is erased.  Once it says that the node is ready, the
\* board has the firmware that the page shows, unless one was loaded after the click.
FlashedAsShown ==
  /\ server.erased => view.firmware # None
  /\ view.status = "done" => server.has # None /\ (server.has = view.firmware \/ past.swapped)
=============================================================================
