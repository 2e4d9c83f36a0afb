-------------------------------- MODULE Binkp --------------------------------
(***************************************************************************)
(* One BinkP session between two mailers (ftn/binkp.py): the handshake,    *)
(* then batches of files both ways at once.  Each side runs two            *)
(* coroutines, one that sends and one that receives, over the shared       *)
(* state of _Transfer.  The connection is one queue of frames per          *)
(* direction; it may break at any time, and the frames not yet read are    *)
(* lost with it.                                                           *)
(*                                                                         *)
(* A side in Foreign is another mailer: it follows the same protocol, but  *)
(* may refuse a file (M_SKIP), may hang up between two batches, and may    *)
(* fail to send the data it announced.                                     *)
(***************************************************************************)
EXTENDS Integers, Sequences, FiniteSets

CONSTANTS
    Files,      \* names of files, each of one side
    FilesOf,    \* FilesOf[s]: the files side s may come to send
    EmptyFiles, \* files of no bytes
    Foreign,    \* the sides that are not NetBBS
    Logins,     \* the cases of [password, expected], see below
    MaxBatches  \* MAX_BATCHES

NoFile == "none"
Sides == {"caller", "answerer"}
Other(s) == IF s = "caller" THEN "answerer" ELSE "caller"

ASSUME BinkpAssumption ==
    /\ FilesOf \in [Sides -> SUBSET Files]
    /\ FilesOf["caller"] \cap FilesOf["answerer"] = {}
    /\ IsFiniteSet(Files) /\ EmptyFiles \subseteq Files /\ NoFile \notin Files
    /\ Foreign \subseteq Sides
    /\ Logins \subseteq [password : {"none", "right", "wrong"}, expected : BOOLEAN]
    /\ MaxBatches \in Nat \ {0}

VARIABLES
    st,       \* st[s]: the state of side s
    chan,     \* chan[s]: frames on their way to side s
    late,     \* sides whose sending coroutine has found the session over while
              \* the receiving one waits for a frame: it may yet read one
    multi,    \* multi-batch mode is in force
    login,    \* the caller's password for the answerer: none, right or wrong,
              \* and whether the answerer expects one of the caller
    over,     \* over[s]: how side s ended, "no" while it runs
    skipped,  \* history: files a foreign side refused
    faulty,   \* history: the connection broke, or a foreign side hung up or
              \* cut a file short
    outrun    \* history: a side still read when its session was over, and read
              \* that the other had closed

vars == <<st, chan, late, multi, login, over, skipped, faulty, outrun>>

Frame == [t : {"ADR", "PWD", "OK", "ERR", "FILE", "DATA", "GOT", "SKIP", "EOB"},
          f : Files \cup {NoFile, "right", "wrong", "secure", "non-secure"}]
Msg(t) == [t |-> t, f |-> NoFile]
FileMsg(t, f) == [t |-> t, f |-> f]

\* phase: the coroutines of the handshake; then the sender's place in
\* _send_files.
Phase == {"start", "address", "auth", "files", "data", "wait", "hook", "stop"}

Batches == 1 .. MaxBatches + 1

Side == [phase    : Phase,
         secure   : BOOLEAN,
         files    : SUBSET Files,          \* names ever added
         toSend   : SUBSET Files,
         sending  : Files \cup {NoFile},   \* announced, its data not sent
         awaiting : SUBSET Files,
         eobSent  : BOOLEAN,
         batch    : Batches,
         rxBatch  : Batches,
         rxEnded  : SUBSET Batches,
         moved    : SUBSET Batches,        \* batches with a file, either way
         current  : Files \cup {NoFile},   \* the file being received
         owed     : {Msg("GOT")} \cup [t : {"GOT", "SKIP"}, f : Files],
         wake     : BOOLEAN,
         done     : BOOLEAN,
         failed   : BOOLEAN,               \* MAX_BATCHES
         hungUp   : BOOLEAN,
         batches  : 0 .. MaxBatches,       \* result.batches
         received : [Files -> Nat],        \* result.received, counted
         sent     : SUBSET Files]          \* result.sent

NothingOwed == Msg("GOT")

TypeOK ==
    /\ st \in [Sides -> Side]
    /\ chan \in [Sides -> Seq(Frame)]
    /\ late \subseteq Sides
    /\ multi \in BOOLEAN
    /\ login \in Logins
    /\ over \in [Sides -> {"no", "ok", "failed"}]
    /\ skipped \subseteq Files
    /\ faulty \in BOOLEAN /\ outrun \in BOOLEAN

Fresh ==
    [phase |-> "start", secure |-> FALSE, files |-> {}, toSend |-> {},
     sending |-> NoFile, awaiting |-> {}, eobSent |-> FALSE, batch |-> 1,
     rxBatch |-> 1, rxEnded |-> {}, moved |-> {}, current |-> NoFile,
     owed |-> NothingOwed, wake |-> FALSE, done |-> FALSE, failed |-> FALSE,
     hungUp |-> FALSE, batches |-> 0, received |-> [f \in Files |-> 0],
     sent |-> {}]

Init ==
    /\ st = [s \in Sides |-> Fresh]
    /\ chan = [s \in Sides |-> <<>>]
    /\ late = {}
    /\ multi \in BOOLEAN
    /\ login \in Logins
    /\ over = [s \in Sides |-> "no"]
    /\ skipped = {}
    /\ faulty = FALSE /\ outrun = FALSE

-----------------------------------------------------------------------------
(* Sending, ending, failing.                                               *)

Runs(s) == over[s] = "no"
Established(s) == st[s].phase \notin {"start", "address", "auth"}

\* What s writes reaches the other side unless it has closed the connection.
Send(s, m) ==
    chan' = IF Runs(Other(s)) THEN [chan EXCEPT ![Other(s)] = Append(@, m)] ELSE chan

Becomes(s, r) == st' = [st EXCEPT ![s] = r]
Settings == <<multi, login>>
Aside == <<Settings, late>>
History == <<skipped, faulty, outrun>>

Prefixes(q) == {SubSeq(q, 1, n) : n \in 0 .. Len(q)}

\* Side s closes its end.  Frames it has not read are dropped, and then the
\* frames on their way from it may be lost as well.
Closes(s, how, certain) ==
    /\ over' = [over EXCEPT ![s] = how]
    /\ \E q \in Prefixes(chan[Other(s)]) :
          /\ certain /\ chan[s] = <<>> => q = chan[Other(s)]
          /\ chan' = [chan EXCEPT ![s] = <<>>, ![Other(s)] = q]
    /\ UNCHANGED <<st, Aside>>

\* A reading coroutine raises BinkpError; run_session's caller closes.
Fails(s) == Closes(s, "failed", FALSE) /\ UNCHANGED History

\* The connection is lost, or nothing came for `timeout' seconds.
Break(s) ==
    /\ Runs(s)
    /\ Closes(s, "failed", FALSE)
    /\ faulty' = TRUE
    /\ UNCHANGED <<skipped, outrun>>

-----------------------------------------------------------------------------
(* The handshake: _run_session.                                            *)

\* M_NUL lines and M_ADR; the mode is decided by what they say.
SayHello(s) ==
    /\ Runs(s)
    /\ st[s].phase = "start"
    /\ Becomes(s, [st[s] EXCEPT !.phase = "address"])
    /\ Send(s, Msg("ADR"))
    /\ UNCHANGED <<Aside, over, History>>

Next1(s, t) == chan[s] # <<>> /\ Head(chan[s]).t = t
Consumed(s) == [chan EXCEPT ![s] = Tail(@)]
Reply(s, m) ==
    chan' = IF Runs(Other(s)) THEN [Consumed(s) EXCEPT ![Other(s)] = Append(@, m)]
            ELSE Consumed(s)

\* read_until_address; the caller sends its password.
ReadAddress(s) ==
    /\ Runs(s)
    /\ st[s].phase = "address"
    /\ Next1(s, "ADR")
    /\ Becomes(s, [st[s] EXCEPT !.phase = "auth"])
    /\ IF s = "caller" THEN Reply(s, FileMsg("PWD", login.password)) ELSE chan' = Consumed(s)
    /\ UNCHANGED <<Aside, over, History>>

\* Mutant: a missing password is taken as proof.
PasswordMatchesIfSent(offered) == offered \in {"right", "none"}

\* _password_matches
PasswordMatches(offered) == offered = "right"

\* The files each side has when the transfer begins: outgoing, outgoing_for.
Begin(r, G) == [r EXCEPT !.phase = "files", !.files = G, !.toSend = G]

CheckPassword ==
    /\ Runs("answerer")
    /\ st["answerer"].phase = "auth"
    /\ Next1("answerer", "PWD")
    /\ LET offered == Head(chan["answerer"]).f IN
       IF login.expected /\ ~PasswordMatches(offered)
       THEN /\ over' = [over EXCEPT !["answerer"] = "failed"]
            /\ Reply("answerer", Msg("ERR"))
            /\ UNCHANGED st
       ELSE /\ \E G \in SUBSET FilesOf["answerer"] :
                  Becomes("answerer", Begin([st["answerer"] EXCEPT !.secure = login.expected], G))
            /\ Reply("answerer", FileMsg("OK", IF login.expected THEN "secure" ELSE "non-secure"))
            /\ UNCHANGED over
    /\ UNCHANGED <<Aside, History>>

ReadOk ==
    /\ Runs("caller")
    /\ st["caller"].phase = "auth"
    /\ Next1("caller", "OK")
    /\ LET secure == login.password # "none" /\ Head(chan["caller"]).f # "non-secure" IN
       \E G \in SUBSET FilesOf["caller"] :
          Becomes("caller", Begin([st["caller"] EXCEPT !.secure = secure], G))
    /\ chan' = Consumed("caller")
    /\ UNCHANGED <<Aside, over, History>>

\* M_ERR, or the end of the connection, during the handshake
Refused(s) ==
    /\ Runs(s)
    /\ ~Established(s)
    /\ Next1(s, "ERR") \/ (chan[s] = <<>> /\ ~Runs(Other(s)))
    /\ Fails(s)

-----------------------------------------------------------------------------
(* _Transfer.                                                              *)

\* check_done's `another'
Another(r) == multi /\ (r.batch \in r.moved \/ r.rxBatch > r.batch)

\* Mutant: files not yet confirmed do not hold the batch open.
BatchOverUnconfirmed(r) ==
    r.eobSent /\ r.batch \in r.rxEnded /\ r.toSend = {}

BatchOver(r) ==
    /\ r.eobSent /\ r.batch \in r.rxEnded /\ r.awaiting = {} /\ r.toSend = {}
    /\ ~(r.current # NoFile /\ r.rxBatch = r.batch)

CheckDone(r) ==
    IF r.done \/ ~BatchOver(r) THEN r
    ELSE IF ~Another(r) THEN [r EXCEPT !.batches = r.batch, !.done = TRUE, !.wake = TRUE]
    ELSE IF r.batch >= MaxBatches
    THEN [r EXCEPT !.batches = r.batch, !.failed = TRUE, !.done = TRUE, !.wake = TRUE]
    ELSE [r EXCEPT !.batches = r.batch, !.batch = r.batch + 1, !.eobSent = FALSE,
                   !.wake = TRUE]

BetweenBatches(r) ==
    r.batch > 1 /\ r.awaiting = {} /\ r.toSend = {} /\ r.current = NoFile

\* Mutant: only files this side sends keep the session open.
AnnouncedUncounted(r) ==
    [r EXCEPT !.rxBatch = IF multi /\ @ \in r.rxEnded THEN @ + 1 ELSE @]

\* remote_file_announced
Announced(r) ==
    LET b == IF multi /\ r.rxBatch \in r.rxEnded THEN r.rxBatch + 1 ELSE r.rxBatch
    IN  [r EXCEPT !.rxBatch = b, !.moved = @ \cup {b}]

\* Mutant: an M_EOB never opens a batch of its own.
EndedOnce(r) == [r EXCEPT !.rxEnded = @ \cup {r.rxBatch}]

\* remote_end_of_batch
Ended(r) ==
    LET b == IF multi /\ r.rxBatch \in r.rxEnded THEN r.rxBatch + 1 ELSE r.rxBatch
    IN  [r EXCEPT !.rxBatch = b, !.rxEnded = @ \cup {b}]

\* Mutant: a refused file is reported as sent.
ConfirmedAny(r, m) ==
    [r EXCEPT !.awaiting = @ \ {m.f},
              !.sent = IF m.f \in r.awaiting THEN @ \cup {m.f} ELSE @]

\* confirm, skip
Confirmed(r, m) ==
    [r EXCEPT !.awaiting = @ \ {m.f},
              !.sent = IF m.f \in r.awaiting /\ m.t = "GOT" THEN @ \cup {m.f} ELSE @]

-----------------------------------------------------------------------------
(* _send_files.                                                            *)

\* M_FILE of a file that is to be sent
AnnounceFile(s, f) ==
    /\ Runs(s) /\ ~st[s].done
    /\ st[s].phase = "files"
    /\ f \in st[s].toSend
    /\ Becomes(s, [st[s] EXCEPT !.toSend = @ \ {f}, !.awaiting = @ \cup {f},
                      !.moved = @ \cup {st[s].batch},
                      !.sending = IF f \in EmptyFiles THEN NoFile ELSE f,
                      !.phase = IF f \in EmptyFiles THEN "files" ELSE "data"])
    /\ Send(s, FileMsg("FILE", f))
    /\ UNCHANGED <<Aside, over, History>>

SendData(s) ==
    /\ Runs(s) /\ ~st[s].done
    /\ st[s].phase = "data"
    /\ Becomes(s, [st[s] EXCEPT !.sending = NoFile, !.phase = "files"])
    /\ Send(s, FileMsg("DATA", st[s].sending))
    /\ UNCHANGED <<Aside, over, History>>

\* M_EOB, noted as sent when the write has drained: until then it is behind
\* the data in this side's buffer, and the remote has not seen it.
SendEob(s) ==
    /\ Runs(s) /\ ~st[s].done
    /\ st[s].phase = "files"
    /\ st[s].toSend = {}
    /\ LET r == CheckDone([st[s] EXCEPT !.phase = "wait", !.eobSent = TRUE]) IN
       /\ Becomes(s, r)
       /\ late' = IF r.done /\ r.owed = NothingOwed THEN late \cup {s} ELSE late
    /\ Send(s, Msg("EOB"))
    /\ UNCHANGED <<Settings, over, History>>

Wake(s) ==
    /\ Runs(s)
    /\ st[s].phase = "wait"
    /\ st[s].wake
    /\ Becomes(s, [st[s] EXCEPT !.wake = FALSE,
                      !.phase = IF st[s].done THEN "stop" ELSE "hook"])
    /\ UNCHANGED <<chan, Aside, over, History>>

\* _ask_next_batch, then add: a name already sent is left out
AskNextBatch(s) ==
    /\ Runs(s) /\ ~st[s].done
    /\ st[s].phase = "hook"
    /\ \E G \in SUBSET FilesOf[s] :
          Becomes(s, [st[s] EXCEPT !.phase = "files", !.files = @ \cup G,
                         !.toSend = @ \cup (G \ st[s].files)])
    /\ UNCHANGED <<chan, Aside, over, History>>

-----------------------------------------------------------------------------
(* _receive.                                                               *)

\* The coroutine waits for a frame.  A frame, or the end of the connection,
\* that comes together with `done' is still handled, and is the last.
Listens(s) ==
    /\ Runs(s) /\ Established(s)
    /\ ~st[s].done \/ s \in late
    /\ st[s].owed = NothingOwed

Takes(s) == chan' = Consumed(s) /\ late' = late \ {s}

\* _finish_file: the file is kept, and its M_GOT is owed; a foreign side may
\* refuse it instead.
Finished(s, r, f) ==
    \/ /\ Becomes(s, [r EXCEPT !.current = NoFile, !.owed = FileMsg("GOT", f),
                               !.received[f] = @ + 1])
       /\ UNCHANGED skipped
    \/ /\ s \in Foreign
       /\ Becomes(s, [r EXCEPT !.current = NoFile, !.owed = FileMsg("SKIP", f)])
       /\ skipped' = skipped \cup {f}

\* M_FILE: _start_file
ReceiveFile(s) ==
    /\ Listens(s)
    /\ Next1(s, "FILE")
    /\ st[s].current = NoFile
    /\ LET f == Head(chan[s]).f IN
       IF f \in EmptyFiles THEN Finished(s, Announced(st[s]), f)
       ELSE /\ Becomes(s, [Announced(st[s]) EXCEPT !.current = f])
            /\ UNCHANGED skipped
    /\ Takes(s)
    /\ UNCHANGED <<Settings, over, faulty, outrun>>

ReceiveData(s) ==
    /\ Listens(s)
    /\ Next1(s, "DATA")
    /\ st[s].current = Head(chan[s]).f
    /\ Finished(s, st[s], st[s].current)
    /\ Takes(s)
    /\ UNCHANGED <<Settings, over, faulty, outrun>>

\* The M_GOT of a file received whole
SendGot(s) ==
    /\ Runs(s)
    /\ st[s].owed # NothingOwed
    /\ Becomes(s, CheckDone([st[s] EXCEPT !.owed = NothingOwed]))
    /\ Send(s, st[s].owed)
    /\ UNCHANGED <<Aside, over, History>>

ReceiveAnswer(s) ==
    /\ Listens(s)
    /\ Next1(s, "GOT") \/ Next1(s, "SKIP")
    /\ Becomes(s, CheckDone(Confirmed(st[s], Head(chan[s]))))
    /\ Takes(s)
    /\ UNCHANGED <<Settings, over, History>>

ReceiveEob(s) ==
    /\ Listens(s)
    /\ Next1(s, "EOB")
    /\ st[s].current = NoFile
    /\ Becomes(s, CheckDone(Ended(st[s])))
    /\ Takes(s)
    /\ UNCHANGED <<Settings, over, History>>

\* A frame that is out of place ends the session.
ReceiveMisplaced(s) ==
    /\ Listens(s)
    /\ chan[s] # <<>>
    /\ LET m == Head(chan[s]) IN
       \/ m.t \in {"FILE", "EOB"} /\ st[s].current # NoFile
       \/ m.t = "DATA" /\ st[s].current # m.f
    /\ Fails(s)

\* The remote has closed: between batches that ends the session, anywhere
\* else it breaks it, though the session may be over by then.
RemoteClosed(s) ==
    /\ Listens(s)
    /\ chan[s] = <<>> /\ ~Runs(Other(s))
    /\ IF BetweenBatches(st[s])
       THEN /\ Becomes(s, [st[s] EXCEPT !.hungUp = TRUE, !.done = TRUE, !.wake = TRUE])
            /\ late' = late \ {s}
            /\ UNCHANGED <<chan, Settings, over>>
       ELSE Closes(s, "failed", FALSE)
    /\ outrun' = (outrun \/ st[s].done)
    /\ UNCHANGED <<skipped, faulty>>

\* transfer returns or raises what stopped it
Finish(s) ==
    /\ Runs(s)
    /\ st[s].done /\ st[s].owed = NothingOwed
    /\ Closes(s, IF st[s].failed THEN "failed" ELSE "ok", TRUE)
    /\ UNCHANGED History

\* Another mailer ends after a complete batch, though it had agreed to more.
HangUp(s) ==
    /\ s \in Foreign
    /\ Runs(s) /\ ~st[s].done
    /\ st[s].phase = "hook"
    /\ BetweenBatches(st[s]) /\ st[s].owed = NothingOwed
    /\ Closes(s, "ok", TRUE)
    /\ faulty' = TRUE
    /\ UNCHANGED <<skipped, outrun>>

\* Another mailer goes on without the data of a file it announced.
CutShort(s) ==
    /\ s \in Foreign
    /\ Runs(s) /\ ~st[s].done
    /\ st[s].phase = "data"
    /\ Becomes(s, [st[s] EXCEPT !.sending = NoFile, !.phase = "files"])
    /\ faulty' = TRUE
    /\ UNCHANGED <<chan, Aside, over, skipped, outrun>>

-----------------------------------------------------------------------------
(* The specification.                                                      *)

SenderStep(s) ==
    \/ \E f \in st[s].toSend : AnnounceFile(s, f)
    \/ SendData(s) \/ SendEob(s) \/ Wake(s) \/ AskNextBatch(s)

ReceiverStep(s) ==
    \/ ReceiveFile(s) \/ ReceiveData(s) \/ SendGot(s)
    \/ ReceiveAnswer(s) \/ ReceiveEob(s)
    \/ ReceiveMisplaced(s) \/ RemoteClosed(s) \/ Finish(s)

HandshakeStep(s) ==
    \/ SayHello(s) \/ ReadAddress(s) \/ Refused(s)
    \/ s = "answerer" /\ CheckPassword
    \/ s = "caller" /\ ReadOk

Next ==
    \E s \in Sides :
        HandshakeStep(s) \/ SenderStep(s) \/ ReceiverStep(s) \/ HangUp(s) \/ CutShort(s) \/ Break(s)

Spec == Init /\ [][Next]_vars

\* Both coroutines of a side run, and what is written arrives or is lost.
Fairness ==
    \A s \in Sides :
        WF_vars(HandshakeStep(s)) /\ WF_vars(SenderStep(s)) /\ WF_vars(ReceiverStep(s))

FairSpec == Spec /\ Fairness

-----------------------------------------------------------------------------
(* Properties.                                                             *)

\* A name in result.sent is a file the other side has received whole, so the
\* mail in it may be forgotten wherever the session broke; and no file
\* arrives twice in a session (confirm, _finish_file, add).
ConfirmedIsReceived ==
    \A s \in Sides :
        /\ \A f \in st[s].sent : st[Other(s)].received[f] = 1
        /\ \A f \in Files : st[s].received[f] <= 1

\* A session that ends well on both sides has moved everything: each file is
\* confirmed or was refused, and without a fault both count the same batches
\* (transfer, check_done, between_batches).
CleanEnd ==
    (\A s \in Sides : over[s] = "ok") =>
        \A s \in Sides :
            /\ st[s].files \subseteq st[s].sent \cup skipped
            /\ faulty \/ st[s].batches = st[Other(s)].batches

\* Both sides of an established session agree whether it is secure.
SecureAgrees ==
    (\A s \in Sides : Established(s)) => st["caller"].secure = st["answerer"].secure

\* Both sides have found the last batch over, and the same one.
Complete ==
    \A s \in Sides :
        /\ st[s].done /\ st[s].batches = st[s].batch
        /\ st[s].batches = st[Other(s)].batches
        /\ st[s].files \subseteq st[s].sent \cup skipped

\* An established session fails, or is taken to have been hung up, only for
\* a fault of the other mailer or of the line, by the limit of batches, or
\* when everything has moved and the other side closes before this one has
\* noticed: two mailers that keep to the protocol never take each other's
\* frames for misplaced ones, and neither closes while the other has more to
\* say (_receive, check_done).
OnlyFaultsFail ==
    (\E s \in Sides : Established(s) /\ (over[s] = "failed" \/ st[s].hungUp)) =>
        faulty \/ (outrun /\ Complete) \/ \E s \in Sides : st[s].failed

\* Every session ends, on both sides, with or without faults.
SessionEnds == <>(\A s \in Sides : over[s] # "no")
=============================================================================
