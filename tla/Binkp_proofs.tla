---------------------------- MODULE Binkp_proofs ----------------------------
(* Proofs about Binkp, for any files, logins and number of batches, and with *)
(* either mailer, both or none of them another program than NetBBS.          *)
EXTENDS Binkp, SequenceTheorems, TLAPS

-----------------------------------------------------------------------------
(* Frames on their way.                                                      *)

Has(q, m) == \E i \in 1 .. Len(q) : q[i] = m
Once(q, m) == \A i, k \in 1 .. Len(q) : q[i] = m /\ q[k] = m => i = k

LEMMA HasAppend ==
    ASSUME NEW q \in Seq(Frame), NEW x \in Frame
    PROVE  /\ Append(q, x) \in Seq(Frame)
           /\ \A m : Has(Append(q, x), m) <=> Has(q, m) \/ m = x
           /\ \A m : Once(q, m) /\ ~(m = x /\ Has(q, m)) => Once(Append(q, x), m)
<1>. DEFINE longer == Append(q, x)
<1>1. /\ longer \in Seq(Frame) /\ Len(q) \in Nat /\ Len(longer) = Len(q) + 1
      /\ \A i \in 1 .. Len(q) : longer[i] = q[i]
      /\ longer[Len(q) + 1] = x
  OBVIOUS
<1>. HIDE DEF longer
<1>2. \A i : i \in 1 .. Len(longer) <=> i \in 1 .. Len(q) \/ i = Len(q) + 1
  BY <1>1
<1>3. \A m : Has(longer, m) <=> Has(q, m) \/ m = x
  BY <1>1, <1>2 DEF Has
<1>4. \A m : Once(q, m) /\ ~(m = x /\ Has(q, m)) => Once(longer, m)
  <2>. SUFFICES ASSUME NEW m, Once(q, m), ~(m = x /\ Has(q, m)),
                       NEW i \in 1 .. Len(longer), NEW k \in 1 .. Len(longer),
                       longer[i] = m, longer[k] = m
                PROVE  i = k
    BY DEF Once
  <2>1. CASE m = x
    <3>1. \A h \in 1 .. Len(q) : longer[h] # m
      BY <1>1, <2>1 DEF Has
    <3>. QED  BY <1>2, <3>1
  <2>2. CASE m # x
    <3>1. i \in 1 .. Len(q) /\ k \in 1 .. Len(q)
      BY <1>1, <1>2, <2>2
    <3>. QED  BY <1>1, <3>1 DEF Once
  <2>. QED  BY <2>1, <2>2
<1>. QED  BY <1>1, <1>3, <1>4 DEF longer

LEMMA HasTail ==
    ASSUME NEW q \in Seq(Frame), q # <<>>
    PROVE  /\ Tail(q) \in Seq(Frame) /\ Head(q) \in Frame
           /\ Has(q, Head(q))
           /\ \A m : Has(Tail(q), m) => Has(q, m)
           /\ \A m : Once(q, m) => Once(Tail(q), m)
           /\ Once(q, Head(q)) => ~Has(Tail(q), Head(q))
<1>. DEFINE rest == Tail(q)
<1>1. /\ rest \in Seq(Frame) /\ Head(q) = q[1] /\ Len(q) \in Nat \ {0} /\ Len(rest) = Len(q) - 1
      /\ \A i \in 1 .. Len(rest) : rest[i] = q[i + 1]
  OBVIOUS
<1>2. q[1] \in Frame
  BY <1>1
<1>. HIDE DEF rest
<1>3. \A i \in 1 .. Len(rest) : i \in Int /\ i + 1 \in 1 .. Len(q) /\ i + 1 # 1 /\ rest[i] = q[i + 1]
  BY <1>1
<1>4. 1 \in 1 .. Len(q)
  BY <1>1
<1>5. \A m : Once(q, m) => Once(rest, m)
  <2>. SUFFICES ASSUME NEW m, Once(q, m), NEW i \in 1 .. Len(rest), NEW k \in 1 .. Len(rest),
                       rest[i] = m, rest[k] = m
                PROVE  i = k
    BY DEF Once
  <2>1. i + 1 = k + 1
    BY <1>3 DEF Once
  <2>. QED  BY <1>3, <2>1
<1>6. \A m : Has(rest, m) => Has(q, m)
  BY <1>3 DEF Has
<1>7. Once(q, q[1]) => ~Has(rest, q[1])
  BY <1>3, <1>4 DEF Has, Once
<1>. QED  BY <1>1, <1>2, <1>4, <1>5, <1>6, <1>7 DEF rest, Has

LEMMA HasPrefix ==
    ASSUME NEW q \in Seq(Frame), NEW p \in Prefixes(q)
    PROVE  /\ p \in Seq(Frame)
           /\ \A m : Has(p, m) => Has(q, m)
           /\ \A m : Once(q, m) => Once(p, m)
<1>1. PICK n \in 0 .. Len(q) : p = SubSeq(q, 1, n)
  BY DEF Prefixes
<1>2. /\ p \in Seq(Frame) /\ Len(q) \in Nat /\ Len(p) = n
      /\ \A i \in 1 .. n : p[i] = q[i]
  BY <1>1
<1>3. \A i \in 1 .. Len(p) : i \in 1 .. Len(q) /\ p[i] = q[i]
  BY <1>2
<1>. QED  BY <1>2, <1>3 DEF Has, Once

LEMMA HasEmpty == \A m : ~Has(<<>>, m) /\ Once(<<>>, m)
BY DEF Has, Once

LEMMA TwoSides ==
    ASSUME NEW s \in Sides
    PROVE  Other(s) \in Sides /\ Other(s) # s /\ Other(Other(s)) = s /\ Sides = {s, Other(s)}
BY DEF Sides, Other

\* The frames N, each with the side it is on the way to, are all that a step
\* adds; it may take or lose frames.
Flow(N) ==
    /\ chan' \in [Sides -> Seq(Frame)]
    /\ \A k \in Sides : \A m : Has(chan'[k], m) => Has(chan[k], m) \/ <<k, m>> \in N
    /\ \A k \in Sides : \A m :
          Once(chan[k], m) /\ ~(<<k, m>> \in N /\ Has(chan[k], m)) => Once(chan'[k], m)

LEMMA SendFlows ==
    ASSUME chan \in [Sides -> Seq(Frame)], NEW s \in Sides, NEW m \in Frame, Send(s, m)
    PROVE  Flow({<<Other(s), m>>})
<1>1. Other(s) \in Sides /\ chan[Other(s)] \in Seq(Frame)
  BY TwoSides
<1>2. CASE chan' = chan
  BY <1>2 DEF Flow
<1>3. CASE chan' = [chan EXCEPT ![Other(s)] = Append(@, m)]
  <2>1. /\ chan'[Other(s)] = Append(chan[Other(s)], m)
        /\ \A k \in Sides \ {Other(s)} : chan'[k] = chan[k]
    BY <1>1, <1>3
  <2>2. chan' \in [Sides -> Seq(Frame)]
    BY <1>1, <1>3, HasAppend
  <2>. QED  BY <1>1, <2>1, <2>2, HasAppend DEF Flow
<1>. QED  BY <1>2, <1>3 DEF Send

LEMMA ReadingFlows ==
    ASSUME chan \in [Sides -> Seq(Frame)], NEW s \in Sides, chan[s] # <<>>
    PROVE  /\ Consumed(s) \in [Sides -> Seq(Frame)]
           /\ Head(chan[s]) \in Frame /\ Has(chan[s], Head(chan[s]))
           /\ chan' = Consumed(s) =>
                 /\ Flow({})
                 /\ Once(chan[s], Head(chan[s])) => ~Has(chan'[s], Head(chan[s]))
<1>1. chan[s] \in Seq(Frame)
  OBVIOUS
<1>2. /\ Consumed(s)[s] = Tail(chan[s]) /\ \A k \in Sides \ {s} : Consumed(s)[k] = chan[k]
      /\ Consumed(s) \in [Sides -> Seq(Frame)]
  BY <1>1, HasTail DEF Consumed
<1>3. ASSUME chan' = Consumed(s) PROVE Flow({})
  <2>1. chan'[s] = Tail(chan[s]) /\ \A k \in Sides \ {s} : chan'[k] = chan[k]
    BY <1>2, <1>3
  <2>2. \A m : /\ Has(Tail(chan[s]), m) => Has(chan[s], m)
               /\ Once(chan[s], m) => Once(Tail(chan[s]), m)
    BY <1>1, HasTail
  <2>. QED  BY <1>2, <1>3, <2>1, <2>2 DEF Flow
<1>. QED  BY <1>1, <1>2, <1>3, HasTail

LEMMA ReplyFlows ==
    ASSUME chan \in [Sides -> Seq(Frame)], NEW s \in Sides, chan[s] # <<>>, NEW m \in Frame,
           Reply(s, m)
    PROVE  Flow({<<Other(s), m>>})
<1>1. /\ chan[s] \in Seq(Frame) /\ Other(s) \in Sides /\ Other(s) # s
      /\ chan[Other(s)] \in Seq(Frame)
  BY TwoSides
<1>2. /\ Consumed(s)[s] = Tail(chan[s]) /\ \A k \in Sides \ {s} : Consumed(s)[k] = chan[k]
      /\ Consumed(s) \in [Sides -> Seq(Frame)]
  BY <1>1, HasTail DEF Consumed
<1>3. CASE chan' = Consumed(s)
  <2>1. chan'[s] = Tail(chan[s]) /\ \A k \in Sides \ {s} : chan'[k] = chan[k]
    BY <1>2, <1>3
  <2>2. \A x : /\ Has(Tail(chan[s]), x) => Has(chan[s], x)
               /\ Once(chan[s], x) => Once(Tail(chan[s]), x)
    BY <1>1, HasTail
  <2>. QED  BY <1>2, <1>3, <2>1, <2>2 DEF Flow
<1>4. CASE chan' = [Consumed(s) EXCEPT ![Other(s)] = Append(@, m)]
  <2>1. /\ chan'[s] = Tail(chan[s]) /\ chan'[Other(s)] = Append(chan[Other(s)], m)
        /\ chan' \in [Sides -> Seq(Frame)]
    BY <1>1, <1>2, <1>4, HasAppend
  <2>2. \A k \in Sides : k = s \/ k = Other(s)
    BY TwoSides
  <2>3. ASSUME NEW x PROVE /\ Has(chan'[s], x) => Has(chan[s], x)
                           /\ Once(chan[s], x) => Once(chan'[s], x)
    BY <1>1, <2>1, HasTail
  <2>4. ASSUME NEW x
        PROVE  /\ Has(chan'[Other(s)], x) => Has(chan[Other(s)], x) \/ x = m
               /\ Once(chan[Other(s)], x) /\ ~(x = m /\ Has(chan[Other(s)], x)) => Once(chan'[Other(s)], x)
    BY <1>1, <2>1, HasAppend
  <2>. QED  BY <2>1, <2>2, <2>3, <2>4 DEF Flow
<1>. QED  BY <1>3, <1>4 DEF Reply

LEMMA ClosingFlows ==
    ASSUME chan \in [Sides -> Seq(Frame)], NEW s \in Sides, NEW how, NEW certain,
           Closes(s, how, certain)
    PROVE  Flow({}) /\ chan'[s] = <<>>
<1>1. /\ chan[s] \in Seq(Frame) /\ Other(s) \in Sides /\ Other(s) # s
      /\ chan[Other(s)] \in Seq(Frame)
  BY TwoSides
<1>2. PICK q \in Prefixes(chan[Other(s)]) : chan' = [chan EXCEPT ![s] = <<>>, ![Other(s)] = q]
  BY DEF Closes
<1>3. /\ chan'[s] = <<>> /\ chan'[Other(s)] = q
      /\ \A k \in Sides : k = s \/ k = Other(s)
  BY <1>1, <1>2, TwoSides
<1>4. <<>> \in Seq(Frame) /\ q \in Seq(Frame)
  BY <1>1, HasPrefix
<1>5. chan' \in [Sides -> Seq(Frame)]
  BY <1>2, <1>4
<1>6. /\ \A m : Has(q, m) => Has(chan[Other(s)], m)
      /\ \A m : Once(chan[Other(s)], m) => Once(q, m)
  BY <1>1, HasPrefix
<1>. QED  BY <1>3, <1>5, <1>6, HasEmpty DEF Flow

LEMMA FrameParts ==
    /\ \A t, f, u, g : FileMsg(t, f) = FileMsg(u, g) <=> t = u /\ f = g
    /\ \A t, f : FileMsg(t, f).t = t /\ FileMsg(t, f).f = f
    /\ \A m \in Frame : m = FileMsg(m.t, m.f)
    /\ \A t : Msg(t) = FileMsg(t, NoFile)
BY DEF FileMsg, Msg, Frame

-----------------------------------------------------------------------------
(* The invariant: where a file is on its way, and what the password proved.  *)

SideRec == [phase    : Phase,
            secure   : BOOLEAN,
            files    : SUBSET Files,
            toSend   : SUBSET Files,
            sending  : Files \cup {NoFile},
            awaiting : SUBSET Files,
            eobSent  : BOOLEAN,
            batch    : Nat,
            rxBatch  : Nat,
            rxEnded  : SUBSET Nat,
            moved    : SUBSET Nat,
            current  : Files \cup {NoFile},
            owed     : {Msg("GOT")} \cup [t : {"GOT", "SKIP"}, f : Files],
            wake     : BOOLEAN,
            done     : BOOLEAN,
            failed   : BOOLEAN,
            hungUp   : BOOLEAN,
            batches  : Nat,
            received : [Files -> Nat],
            sent     : SUBSET Files]

SessionType ==
    /\ st \in [Sides -> SideRec]
    /\ chan \in [Sides -> Seq(Frame)]
    /\ login \in Logins
    /\ over \in [Sides -> {"no", "ok", "failed"}]
    /\ skipped \subseteq Files

\* A file of side s is to be sent; or its M_FILE is on the way, or it is
\* being received, or it was received, once; and only what was received is
\* confirmed, what was refused is not.
FileInv(s, f) ==
    LET me == st[s]
        remote == st[Other(s)]
        announced == f \in me.files \ me.toSend
    IN  /\ Once(chan[Other(s)], FileMsg("FILE", f))
        /\ Has(chan[Other(s)], FileMsg("FILE", f)) =>
              announced /\ remote.received[f] = 0 /\ remote.current # f
        /\ remote.current = f => announced /\ remote.received[f] = 0
        /\ remote.received[f] = 0 \/ (remote.received[f] = 1 /\ announced)
        /\ remote.owed = FileMsg("GOT", f) => remote.received[f] = 1
        /\ Has(chan[s], FileMsg("GOT", f)) => remote.received[f] = 1
        /\ f \in me.sent => remote.received[f] = 1
        /\ remote.owed = FileMsg("SKIP", f) => f \in skipped
        /\ Has(chan[s], FileMsg("SKIP", f)) => f \in skipped
        /\ f \in me.files => f \in me.toSend \cup me.awaiting \cup me.sent \cup skipped

SideInv(s) ==
    /\ st[s].toSend \subseteq st[s].files
    /\ ~Established(s) => st[s].files = {} /\ ~st[s].done /\ st[s].owed = NothingOwed
    /\ st[s].done \/ over[s] = "ok" => st[s].toSend = {} /\ st[s].awaiting = {}
    /\ st[s].phase = "data" => st[s].sending \in Files
    /\ \A w : Has(chan[s], FileMsg("FILE", w)) \/ Has(chan[s], FileMsg("DATA", w)) => w \in Files

FilesInv == \A s \in Sides : SideInv(s) /\ \A f \in Files : FileInv(s, f)

SecureInv ==
    /\ \A w : Has(chan["answerer"], FileMsg("PWD", w)) => w = login.password
    /\ \A w : Has(chan["caller"], FileMsg("OK", w)) =>
          /\ w = (IF login.expected THEN "secure" ELSE "non-secure")
          /\ login.expected => login.password = "right"
    /\ Established("answerer") =>
          /\ st["answerer"].secure = login.expected
          /\ login.expected => login.password = "right"
    /\ Established("caller") => st["caller"].secure = login.expected

SessionInv == SessionType /\ FilesInv /\ SecureInv

\* Frames that no part of the invariant but the names and the password is about.
Harmless(n) ==
    \E k \in Sides : \E t, w :
        /\ n = <<k, FileMsg(t, w)>>
        /\ t \in {"ADR", "EOB"} \/ (t = "DATA" /\ w \in Files)
              \/ (k = "answerer" /\ t = "PWD" /\ w = login.password)

\* A step of side s that moves no file.
LEMMA Quiet ==
    ASSUME SessionInv, NEW s \in Sides, NEW r \in SideRec, NEW N,
           st' = [st EXCEPT ![s] = r], Flow(N), \A n \in N : Harmless(n),
           UNCHANGED <<login, over, skipped>>,
           r.files = st[s].files, r.toSend = st[s].toSend, r.awaiting = st[s].awaiting,
           r.sent = st[s].sent, r.current = st[s].current, r.owed = st[s].owed,
           r.received = st[s].received, r.secure = st[s].secure,
           Established(s) <=> r.phase \notin {"start", "address", "auth"},
           r.phase = "data" => r.sending \in Files,
           r.done => Established(s) /\ (st[s].done \/ (r.toSend = {} /\ r.awaiting = {}))
    PROVE  SessionInv'
<1>. DEFINE o == Other(s)
<1>1. /\ o \in Sides /\ o # s /\ Other(o) = s /\ \A k \in Sides : k = s \/ k = o
  BY TwoSides
<1>2. st'[s] = r /\ st'[o] = st[o] /\ st' \in [Sides -> SideRec]
  BY <1>1 DEF SessionInv, SessionType
<1>. HIDE DEF o
<1>3. SessionType'
  BY <1>2 DEF SessionInv, SessionType, Flow
<1>4. \A k \in Sides : /\ st'[k].files = st[k].files /\ st'[k].toSend = st[k].toSend
                       /\ st'[k].awaiting = st[k].awaiting /\ st'[k].sent = st[k].sent
                       /\ st'[k].current = st[k].current /\ st'[k].owed = st[k].owed
                       /\ st'[k].received = st[k].received /\ st'[k].secure = st[k].secure
                       /\ Established(k)' <=> Established(k)
                       /\ st'[k].done =>
                             Established(k) /\ (st[k].done \/ (st[k].toSend = {} /\ st[k].awaiting = {}))
  BY <1>1, <1>2 DEF Established, SessionInv, FilesInv, SideInv
<1>5. \A k \in Sides : \A t, w : t \in {"FILE", "GOT", "SKIP", "OK"} => <<k, FileMsg(t, w)>> \notin N
  BY FrameParts DEF Harmless
<1>6. \A k \in Sides : \A w : <<k, FileMsg("DATA", w)>> \in N => w \in Files
  BY FrameParts DEF Harmless
<1>7. \A k \in Sides : \A w : <<k, FileMsg("PWD", w)>> \in N => w = login.password
  BY FrameParts DEF Harmless
<1>8. \A k \in Sides : \A t, w : t \in {"FILE", "GOT", "SKIP", "OK"} =>
         /\ Has(chan'[k], FileMsg(t, w)) => Has(chan[k], FileMsg(t, w))
         /\ Once(chan[k], FileMsg(t, w)) => Once(chan'[k], FileMsg(t, w))
  <2>. SUFFICES ASSUME NEW k \in Sides, NEW t \in {"FILE", "GOT", "SKIP", "OK"}, NEW w, NEW m,
                       m = FileMsg(t, w)
                PROVE  /\ Has(chan'[k], m) => Has(chan[k], m)
                       /\ Once(chan[k], m) => Once(chan'[k], m)
    OBVIOUS
  <2>1. <<k, m>> \notin N
    BY <1>5
  <2>. QED  BY <2>1 DEF Flow
<1>9. \A k \in Sides : \A f \in Files : FileInv(k, f)'
  <2>. SUFFICES ASSUME NEW k \in Sides, NEW f \in Files PROVE FileInv(k, f)'
    OBVIOUS
  <2>1. FileInv(k, f) /\ Other(k) \in Sides
    BY TwoSides DEF SessionInv, FilesInv
  <2>. QED  BY <1>4, <1>8, <2>1 DEF FileInv
<1>10. \A k \in Sides : SideInv(k)'
  <2>. SUFFICES ASSUME NEW k \in Sides PROVE SideInv(k)'
    OBVIOUS
  <2>1. SideInv(k)
    BY DEF SessionInv, FilesInv
  <2>2. \A w : Has(chan'[k], FileMsg("FILE", w)) \/ Has(chan'[k], FileMsg("DATA", w)) => w \in Files
    <3>. SUFFICES ASSUME NEW w, Has(chan'[k], FileMsg("FILE", w)) \/ Has(chan'[k], FileMsg("DATA", w))
                  PROVE  w \in Files
      OBVIOUS
    <3>1. CASE Has(chan'[k], FileMsg("FILE", w))
      BY <1>8, <2>1, <3>1 DEF SideInv
    <3>2. CASE Has(chan'[k], FileMsg("DATA", w))
      <4>1. Has(chan[k], FileMsg("DATA", w)) \/ <<k, FileMsg("DATA", w)>> \in N
        BY <3>2 DEF Flow
      <4>. QED  BY <1>6, <2>1, <4>1 DEF SideInv
    <3>. QED  BY <3>1, <3>2
  <2>3. st'[k].phase = "data" => st'[k].sending \in Files
    BY <1>1, <1>2, <2>1 DEF SideInv
  <2>. QED  BY <1>4, <2>1, <2>2, <2>3 DEF SideInv
<1>11. SecureInv'
  <2>1. \A w : Has(chan'["answerer"], FileMsg("PWD", w)) => w = login.password
    BY <1>7 DEF SessionInv, SecureInv, Flow, Sides
  <2>. QED  BY <1>4, <1>8, <2>1 DEF SessionInv, SecureInv, Sides
<1>. QED  BY <1>3, <1>9, <1>10, <1>11 DEF SessionInv, FilesInv

\* A side closes its end.
LEMMA Ending ==
    ASSUME SessionInv, NEW s \in Sides, UNCHANGED <<st, login, skipped>>, Flow({}),
           NEW how \in {"ok", "failed"}, over' = [over EXCEPT ![s] = how],
           how = "ok" => st[s].toSend = {} /\ st[s].awaiting = {}
    PROVE  SessionInv'
<1>1. /\ \A k \in Sides : \A m : Has(chan'[k], m) => Has(chan[k], m)
      /\ \A k \in Sides : \A m : Once(chan[k], m) => Once(chan'[k], m)
  BY DEF Flow
<1>2. SessionType'
  BY DEF SessionInv, SessionType, Flow
<1>3. \A k \in Sides : over'[k] = "ok" => over[k] = "ok" \/ (st[k].toSend = {} /\ st[k].awaiting = {})
  BY DEF SessionInv, SessionType
<1>4. \A k \in Sides : SideInv(k)'
  BY <1>1, <1>3 DEF SessionInv, FilesInv, SideInv, Established
<1>5. \A k \in Sides : \A f \in Files : FileInv(k, f)'
  <2>. SUFFICES ASSUME NEW k \in Sides, NEW f \in Files PROVE FileInv(k, f)'
    OBVIOUS
  <2>1. FileInv(k, f) /\ Other(k) \in Sides
    BY TwoSides DEF SessionInv, FilesInv
  <2>. QED  BY <1>1, <2>1 DEF FileInv
<1>6. SecureInv'
  BY <1>1 DEF SessionInv, SecureInv, Established, Sides
<1>. QED  BY <1>2, <1>4, <1>5, <1>6 DEF SessionInv, FilesInv

\* What a step of an established side s that moves files leaves to show.
LEMMA Moving ==
    ASSUME SessionInv, NEW s \in Sides, Established(s), NEW r \in SideRec, NEW N,
           st' = [st EXCEPT ![s] = r], Flow(N),
           \A n \in N : \E k \in Sides, t \in {"FILE", "GOT", "SKIP"}, f \in Files : n = <<k, FileMsg(t, f)>>,
           UNCHANGED <<login, over>>, skipped \subseteq skipped', skipped' \subseteq Files,
           r.secure = st[s].secure, r.phase \notin {"start", "address", "auth"},
           r.phase = "data" => r.sending \in Files,
           r.toSend \subseteq r.files,
           r.done \/ over[s] = "ok" => r.toSend = {} /\ r.awaiting = {},
           \A f \in Files : FileInv(s, f)' /\ FileInv(Other(s), f)'
    PROVE  SessionInv'
<1>. DEFINE o == Other(s)
<1>1. /\ o \in Sides /\ o # s /\ Other(o) = s /\ \A k \in Sides : k = s \/ k = o
  BY TwoSides
<1>2. st'[s] = r /\ st'[o] = st[o] /\ st' \in [Sides -> SideRec]
  BY <1>1 DEF SessionInv, SessionType
<1>3. SessionType'
  BY <1>2 DEF SessionInv, SessionType, Flow
<1>4. \A k \in Sides : \A f \in Files : FileInv(k, f)'
  <2>1. (\A f \in Files : FileInv(o, f)) '
    OBVIOUS
  <2>2. ASSUME NEW k \in Sides PROVE (\A f \in Files : FileInv(k, f))'
    BY <1>1, <2>1
  <2>. QED  BY <2>2
<1>. HIDE DEF o
<1>5. \A k \in Sides : (Established(k)' <=> Established(k)) /\ st'[k].secure = st[k].secure
  BY <1>1, <1>2 DEF Established
<1>6. \A k \in Sides : \A t, w : t \in {"DATA", "PWD", "OK"} => <<k, FileMsg(t, w)>> \notin N
  BY FrameParts
<1>7. \A k \in Sides : \A w : <<k, FileMsg("FILE", w)>> \in N => w \in Files
  BY FrameParts
<1>8. \A k \in Sides : \A t, w : t \in {"DATA", "PWD", "OK"} =>
         (Has(chan'[k], FileMsg(t, w)) => Has(chan[k], FileMsg(t, w)))
  <2>. SUFFICES ASSUME NEW k \in Sides, NEW t \in {"DATA", "PWD", "OK"}, NEW w, NEW m,
                       m = FileMsg(t, w)
                PROVE  Has(chan'[k], m) => Has(chan[k], m)
    OBVIOUS
  <2>1. <<k, m>> \notin N
    BY <1>6
  <2>. QED  BY <2>1 DEF Flow
<1>9. \A k \in Sides : SideInv(k)'
  <2>. SUFFICES ASSUME NEW k \in Sides PROVE SideInv(k)'
    OBVIOUS
  <2>1. SideInv(k)
    BY DEF SessionInv, FilesInv
  <2>2. \A w : Has(chan'[k], FileMsg("FILE", w)) \/ Has(chan'[k], FileMsg("DATA", w)) => w \in Files
    <3>. SUFFICES ASSUME NEW w, Has(chan'[k], FileMsg("FILE", w)) \/ Has(chan'[k], FileMsg("DATA", w))
                  PROVE  w \in Files
      OBVIOUS
    <3>1. CASE Has(chan'[k], FileMsg("DATA", w))
      BY <1>8, <2>1, <3>1 DEF SideInv
    <3>2. CASE Has(chan'[k], FileMsg("FILE", w))
      <4>1. Has(chan[k], FileMsg("FILE", w)) \/ <<k, FileMsg("FILE", w)>> \in N
        BY <3>2 DEF Flow
      <4>. QED  BY <1>7, <2>1, <4>1 DEF SideInv
    <3>. QED  BY <3>1, <3>2
  <2>. QED  BY <1>1, <1>2, <1>5, <2>1, <2>2 DEF SideInv
<1>10. SecureInv'
  BY <1>5, <1>8 DEF SessionInv, SecureInv, Sides
<1>. QED  BY <1>3, <1>4, <1>9, <1>10 DEF SessionInv, FilesInv

\* A side offers files of its own that it has not offered before.
LEMMA Offering ==
    ASSUME SessionInv, NEW s \in Sides, NEW r \in SideRec, NEW G \in SUBSET Files,
           st' = [st EXCEPT ![s] = r], UNCHANGED skipped,
           \A k \in Sides : \A t, w : t \in {"FILE", "GOT", "SKIP"} =>
              /\ Has(chan'[k], FileMsg(t, w)) => Has(chan[k], FileMsg(t, w))
              /\ Once(chan[k], FileMsg(t, w)) => Once(chan'[k], FileMsg(t, w)),
           r.files = st[s].files \cup G, r.toSend = st[s].toSend \cup (G \ st[s].files),
           r.awaiting = st[s].awaiting, r.sent = st[s].sent, r.current = st[s].current,
           r.owed = st[s].owed, r.received = st[s].received
    PROVE  \A k \in Sides : \A f \in Files : FileInv(k, f)'
<1>. SUFFICES ASSUME NEW k \in Sides, NEW f \in Files PROVE FileInv(k, f)'
  OBVIOUS
<1>1. FileInv(k, f) /\ Other(k) \in Sides /\ st[k].toSend \subseteq st[k].files
  BY TwoSides DEF SessionInv, FilesInv, SideInv
<1>2. \A h \in Sides : /\ st'[h].awaiting = st[h].awaiting /\ st'[h].sent = st[h].sent
                       /\ st'[h].current = st[h].current /\ st'[h].owed = st[h].owed
                       /\ st'[h].received = st[h].received
  BY DEF SessionInv, SessionType
<1>3. /\ f \in st[k].files \ st[k].toSend => f \in st'[k].files \ st'[k].toSend
      /\ f \in st'[k].files => f \in st[k].files \/ f \in st'[k].toSend
      /\ f \in st[k].toSend => f \in st'[k].toSend
  BY <1>1 DEF SessionInv, SessionType
<1>. QED  BY <1>1, <1>2, <1>3 DEF FileInv

\* The handshake is over for side s.
LEMMA Beginning ==
    ASSUME SessionInv, NEW s \in Sides, ~Established(s), Runs(s), NEW G \in SUBSET Files,
           NEW sec \in BOOLEAN, sec = login.expected, login.expected => login.password = "right",
           Becomes(s, Begin([st[s] EXCEPT !.secure = sec], G)), UNCHANGED <<login, over, skipped>>,
           NEW N, Flow(N),
           \A n \in N : n = <<"caller", FileMsg("OK", IF login.expected THEN "secure" ELSE "non-secure")>>
    PROVE  SessionInv'
<1>. DEFINE r == Begin([st[s] EXCEPT !.secure = sec], G)
<1>1. st[s] \in SideRec /\ st \in [Sides -> SideRec]
  BY DEF SessionInv, SessionType
<1>2. /\ r \in SideRec /\ r.phase = "files" /\ r.secure = sec /\ r.files = G /\ r.toSend = G
      /\ r.awaiting = st[s].awaiting /\ r.sent = st[s].sent /\ r.current = st[s].current
      /\ r.owed = st[s].owed /\ r.received = st[s].received /\ r.done = st[s].done
  BY <1>1 DEF Begin, SideRec, Phase
<1>3. st' = [st EXCEPT ![s] = r]
  BY DEF Becomes
<1>. HIDE DEF r
<1>4. st'[s] = r /\ (\A k \in Sides \ {s} : st'[k] = st[k]) /\ st' \in [Sides -> SideRec]
  BY <1>1, <1>2, <1>3
<1>5. st[s].files = {} /\ st[s].toSend = {} /\ ~st[s].done /\ over[s] # "ok"
  BY DEF SessionInv, FilesInv, SideInv, Runs
<1>6. \A k \in Sides : \A t, w : t \in {"FILE", "GOT", "SKIP", "DATA", "PWD"} => <<k, FileMsg(t, w)>> \notin N
  BY FrameParts
<1>7. \A k \in Sides : \A t, w : t \in {"FILE", "GOT", "SKIP", "DATA", "PWD"} =>
         /\ Has(chan'[k], FileMsg(t, w)) => Has(chan[k], FileMsg(t, w))
         /\ Once(chan[k], FileMsg(t, w)) => Once(chan'[k], FileMsg(t, w))
  <2>. SUFFICES ASSUME NEW k \in Sides, NEW t \in {"FILE", "GOT", "SKIP", "DATA", "PWD"}, NEW w, NEW m,
                       m = FileMsg(t, w)
                PROVE  /\ Has(chan'[k], m) => Has(chan[k], m)
                       /\ Once(chan[k], m) => Once(chan'[k], m)
    OBVIOUS
  <2>1. <<k, m>> \notin N
    BY <1>6
  <2>. QED  BY <2>1 DEF Flow
<1>8. \A k \in Sides : \A f \in Files : FileInv(k, f)'
  <2>1. r.files = st[s].files \cup G /\ r.toSend = st[s].toSend \cup (G \ st[s].files)
    BY <1>2, <1>5
  <2>2. \A k \in Sides : \A t, w : t \in {"FILE", "GOT", "SKIP"} =>
           /\ Has(chan'[k], FileMsg(t, w)) => Has(chan[k], FileMsg(t, w))
           /\ Once(chan[k], FileMsg(t, w)) => Once(chan'[k], FileMsg(t, w))
    BY <1>7
  <2>3. UNCHANGED skipped
    OBVIOUS
  <2>. QED  BY <1>2, <1>3, <2>1, <2>2, <2>3, Offering
<1>9. SessionType'
  BY <1>4 DEF SessionInv, SessionType, Flow
<1>10. \A k \in Sides : SideInv(k)'
  <2>. SUFFICES ASSUME NEW k \in Sides PROVE SideInv(k)'
    OBVIOUS
  <2>1. SideInv(k)
    BY DEF SessionInv, FilesInv
  <2>2. \A w : Has(chan'[k], FileMsg("FILE", w)) \/ Has(chan'[k], FileMsg("DATA", w)) => w \in Files
    BY <1>7, <2>1 DEF SideInv
  <2>. QED  BY <1>2, <1>4, <1>5, <2>1, <2>2 DEF SideInv, Established
<1>11. SecureInv'
  <2>1. \A w : Has(chan'["caller"], FileMsg("OK", w)) =>
           Has(chan["caller"], FileMsg("OK", w)) \/ w = (IF login.expected THEN "secure" ELSE "non-secure")
    <3>. SUFFICES ASSUME NEW w, Has(chan'["caller"], FileMsg("OK", w))
                  PROVE  Has(chan["caller"], FileMsg("OK", w)) \/ w = (IF login.expected THEN "secure" ELSE "non-secure")
      OBVIOUS
    <3>1. Has(chan["caller"], FileMsg("OK", w)) \/ <<"caller", FileMsg("OK", w)>> \in N
      BY DEF Flow, Sides
    <3>. QED  BY <3>1, FrameParts
  <2>2. \A w : Has(chan'["answerer"], FileMsg("PWD", w)) => w = login.password
    BY <1>7 DEF SessionInv, SecureInv, Sides
  <2>. QED  BY <1>2, <1>4, <2>1, <2>2 DEF SessionInv, SecureInv, Established, Sides
<1>. QED  BY <1>8, <1>9, <1>10, <1>11 DEF SessionInv, FilesInv

LEMMA CheckingDone ==
    ASSUME NEW r \in SideRec
    PROVE  /\ CheckDone(r) \in SideRec
           /\ CheckDone(r).files = r.files /\ CheckDone(r).toSend = r.toSend
           /\ CheckDone(r).awaiting = r.awaiting /\ CheckDone(r).sent = r.sent
           /\ CheckDone(r).current = r.current /\ CheckDone(r).owed = r.owed
           /\ CheckDone(r).received = r.received /\ CheckDone(r).secure = r.secure
           /\ CheckDone(r).phase = r.phase /\ CheckDone(r).sending = r.sending
           /\ CheckDone(r).done => r.done \/ (r.toSend = {} /\ r.awaiting = {})
<1>1. CASE CheckDone(r) = r
  BY <1>1
<1>2. CASE ~r.done /\ BatchOver(r)
  <2>1. /\ r.toSend = {} /\ r.awaiting = {} /\ r.batch \in Nat /\ r.batch + 1 \in Nat
    BY <1>2 DEF BatchOver, SideRec
  <2>2. \/ CheckDone(r) = [r EXCEPT !.batches = r.batch, !.done = TRUE, !.wake = TRUE]
        \/ CheckDone(r) = [r EXCEPT !.batches = r.batch, !.failed = TRUE, !.done = TRUE, !.wake = TRUE]
        \/ CheckDone(r) = [r EXCEPT !.batches = r.batch, !.batch = r.batch + 1, !.eobSent = FALSE,
                                    !.wake = TRUE]
    BY <1>2 DEF CheckDone
  <2>3. CASE CheckDone(r) = [r EXCEPT !.batches = r.batch, !.done = TRUE, !.wake = TRUE]
    BY <2>1, <2>3, ZenonT(60) DEF SideRec
  <2>4. CASE CheckDone(r) = [r EXCEPT !.batches = r.batch, !.failed = TRUE, !.done = TRUE, !.wake = TRUE]
    BY <2>1, <2>4, ZenonT(60) DEF SideRec
  <2>5. CASE CheckDone(r) = [r EXCEPT !.batches = r.batch, !.batch = r.batch + 1, !.eobSent = FALSE,
                                      !.wake = TRUE]
    BY <2>1, <2>5, ZenonT(60) DEF SideRec
  <2>. QED  BY <2>2, <2>3, <2>4, <2>5
<1>. QED  BY <1>1, <1>2 DEF CheckDone

LEMMA CountingBatches ==
    ASSUME NEW r \in SideRec
    PROVE  /\ \E b \in Nat : Announced(r) = [r EXCEPT !.rxBatch = b, !.moved = @ \cup {b}]
           /\ \E b \in Nat : Ended(r) = [r EXCEPT !.rxBatch = b, !.rxEnded = @ \cup {b}]
<1>1. r.rxBatch \in Nat /\ r.rxBatch + 1 \in Nat
  BY DEF SideRec
<1>. QED  BY <1>1 DEF Announced, Ended

-----------------------------------------------------------------------------
(* The steps.                                                                *)

LEMMA HandshakeKeeps ==
    ASSUME SessionInv, NEW s \in Sides, HandshakeStep(s)
    PROVE  SessionInv'
<1>0. /\ st \in [Sides -> SideRec] /\ st[s] \in SideRec /\ chan \in [Sides -> Seq(Frame)]
      /\ login \in [password : {"none", "right", "wrong"}, expected : BOOLEAN]
      /\ "caller" \in Sides /\ "answerer" \in Sides
  BY BinkpAssumption DEF SessionInv, SessionType, BinkpAssumption, Sides
<1>1. CASE SayHello(s)
  <2>. DEFINE r == [st[s] EXCEPT !.phase = "address"]
  <2>1. /\ r \in SideRec /\ st' = [st EXCEPT ![s] = r] /\ UNCHANGED <<login, over, skipped>>
        /\ Send(s, Msg("ADR")) /\ ~Established(s) /\ ~st[s].done
    BY <1>0, <1>1 DEF SayHello, Becomes, SideRec, Phase, Aside, Settings, History, Established,
                      SessionInv, FilesInv, SideInv
  <2>2. Msg("ADR") \in Frame
    BY DEF Msg, Frame
  <2>3. Flow({<<Other(s), Msg("ADR")>>})
    BY <1>0, <2>1, <2>2, SendFlows
  <2>4. Harmless(<<Other(s), Msg("ADR")>>)
    BY FrameParts, TwoSides DEF Harmless
  <2>5. /\ r.files = st[s].files /\ r.toSend = st[s].toSend /\ r.awaiting = st[s].awaiting
        /\ r.sent = st[s].sent /\ r.current = st[s].current /\ r.owed = st[s].owed
        /\ r.received = st[s].received /\ r.secure = st[s].secure /\ r.done = st[s].done
        /\ r.phase = "address"
    BY <1>0 DEF SideRec
  <2>. HIDE DEF r
  <2>. QED  BY <2>1, <2>3, <2>4, <2>5, Quiet
<1>2. CASE ReadAddress(s)
  <2>. DEFINE r == [st[s] EXCEPT !.phase = "auth"]
  <2>1. /\ r \in SideRec /\ st' = [st EXCEPT ![s] = r] /\ UNCHANGED <<login, over, skipped>>
        /\ ~Established(s) /\ ~st[s].done /\ chan[s] # <<>>
        /\ IF s = "caller" THEN Reply(s, FileMsg("PWD", login.password)) ELSE chan' = Consumed(s)
    BY <1>0, <1>2 DEF ReadAddress, Next1, Becomes, SideRec, Phase, Aside, Settings, History, Established,
                      SessionInv, FilesInv, SideInv
  <2>2. FileMsg("PWD", login.password) \in Frame
    BY <1>0 DEF FileMsg, Frame, NoFile
  <2>3. \E N : Flow(N) /\ \A n \in N : Harmless(n)
    <3>1. CASE s = "caller"
      <4>1. Flow({<<Other(s), FileMsg("PWD", login.password)>>})
        BY <1>0, <2>1, <2>2, <3>1, ReplyFlows
      <4>2. Harmless(<<Other(s), FileMsg("PWD", login.password)>>)
        BY <3>1, TwoSides DEF Harmless, Other
      <4>. QED  BY <4>1, <4>2
    <3>2. CASE s # "caller"
      <4>1. Flow({})
        BY <1>0, <2>1, <3>2, ReadingFlows
      <4>. QED  BY <4>1
    <3>. QED  BY <3>1, <3>2
  <2>5. /\ r.files = st[s].files /\ r.toSend = st[s].toSend /\ r.awaiting = st[s].awaiting
        /\ r.sent = st[s].sent /\ r.current = st[s].current /\ r.owed = st[s].owed
        /\ r.received = st[s].received /\ r.secure = st[s].secure /\ r.done = st[s].done
        /\ r.phase = "auth"
    BY <1>0 DEF SideRec
  <2>. HIDE DEF r
  <2>. QED  BY <2>1, <2>3, <2>5, Quiet
<1>3. CASE s = "answerer" /\ CheckPassword
  <2>1. /\ Runs("answerer") /\ ~Established("answerer") /\ chan["answerer"] # <<>>
        /\ UNCHANGED <<login, skipped>>
    BY <1>3 DEF CheckPassword, Established, Next1, Aside, Settings, History
  <2>2. Head(chan["answerer"]).f = login.password
    <3>1. /\ Head(chan["answerer"]) \in Frame /\ Has(chan["answerer"], Head(chan["answerer"]))
          /\ Head(chan["answerer"]).t = "PWD"
      BY <1>0, <1>3, <2>1, ReadingFlows DEF CheckPassword, Next1
    <3>2. Has(chan["answerer"], FileMsg("PWD", Head(chan["answerer"]).f))
      BY <3>1, FrameParts
    <3>. QED  BY <3>2 DEF SessionInv, SecureInv
  <2>3. CASE login.expected /\ ~PasswordMatches(Head(chan["answerer"]).f)
    <3>1. /\ over' = [over EXCEPT !["answerer"] = "failed"] /\ UNCHANGED st
          /\ Reply("answerer", Msg("ERR"))
      BY <1>3, <2>3 DEF CheckPassword
    <3>2. Msg("ERR") \in Frame
      BY DEF Msg, Frame
    <3>3. Flow({<<"caller", FileMsg("ERR", NoFile)>>})
      BY <1>0, <2>1, <3>1, <3>2, ReplyFlows, FrameParts DEF Other
    <3>4. \A k \in Sides : \A t, w : t # "ERR" =>
             /\ Has(chan'[k], FileMsg(t, w)) => Has(chan[k], FileMsg(t, w))
             /\ Once(chan[k], FileMsg(t, w)) => Once(chan'[k], FileMsg(t, w))
      <4>. SUFFICES ASSUME NEW k \in Sides, NEW t, t # "ERR", NEW w, NEW m, m = FileMsg(t, w)
                    PROVE  /\ Has(chan'[k], m) => Has(chan[k], m)
                           /\ Once(chan[k], m) => Once(chan'[k], m)
        OBVIOUS
      <4>1. <<k, m>> \notin {<<"caller", FileMsg("ERR", NoFile)>>}
        BY FrameParts
      <4>. QED  BY <3>3, <4>1 DEF Flow
    <3>5. SessionType'
      BY <2>1, <3>1, <3>3 DEF SessionInv, SessionType, Flow
    <3>6. \A k \in Sides : over'[k] = "ok" => over[k] = "ok"
      BY <3>1 DEF SessionInv, SessionType
    <3>7. \A k \in Sides : SideInv(k)'
      BY <3>1, <3>4, <3>6 DEF SessionInv, FilesInv, SideInv, Established
    <3>8. \A k \in Sides : \A f \in Files : FileInv(k, f)'
      <4>. SUFFICES ASSUME NEW k \in Sides, NEW f \in Files PROVE FileInv(k, f)'
        OBVIOUS
      <4>1. FileInv(k, f) /\ Other(k) \in Sides
        BY TwoSides DEF SessionInv, FilesInv
      <4>. QED  BY <2>1, <3>1, <3>4, <4>1 DEF FileInv
    <3>9. SecureInv'
      BY <1>0, <2>1, <3>1, <3>4 DEF SessionInv, SecureInv, Established
    <3>. QED  BY <3>5, <3>7, <3>8, <3>9 DEF SessionInv, FilesInv
  <2>4. CASE ~(login.expected /\ ~PasswordMatches(Head(chan["answerer"]).f))
    <3>. DEFINE m == FileMsg("OK", IF login.expected THEN "secure" ELSE "non-secure")
    <3>1. PICK G \in SUBSET FilesOf["answerer"] :
             Becomes("answerer", Begin([st["answerer"] EXCEPT !.secure = login.expected], G))
      BY <1>3, <2>4 DEF CheckPassword
    <3>2. Reply("answerer", m) /\ UNCHANGED over
      BY <1>3, <2>4 DEF CheckPassword
    <3>3. m \in Frame
      BY <1>0 DEF FileMsg, Frame
    <3>4. Flow({<<"caller", m>>})
      BY <1>0, <2>1, <3>2, <3>3, ReplyFlows DEF Other
    <3>5. login.expected \in BOOLEAN /\ (login.expected => login.password = "right")
      BY <1>0, <2>2, <2>4 DEF PasswordMatches
    <3>6. G \in SUBSET Files
      BY <1>0, BinkpAssumption DEF BinkpAssumption
    <3>7. \A n \in {<<"caller", m>>} :
             n = <<"caller", FileMsg("OK", IF login.expected THEN "secure" ELSE "non-secure")>>
      OBVIOUS
    <3>. HIDE DEF m
    <3>. QED  BY <1>0, <2>1, <3>1, <3>2, <3>4, <3>5, <3>6, <3>7, Beginning
  <2>. QED  BY <2>3, <2>4
<1>4. CASE s = "caller" /\ ReadOk
  <2>. DEFINE sec == login.password # "none" /\ Head(chan["caller"]).f # "non-secure"
  <2>1. /\ Runs("caller") /\ ~Established("caller") /\ chan["caller"] # <<>>
        /\ UNCHANGED <<login, over, skipped>> /\ chan' = Consumed("caller")
    BY <1>4 DEF ReadOk, Established, Next1, Aside, Settings, History
  <2>2. PICK G \in SUBSET FilesOf["caller"] : Becomes("caller", Begin([st["caller"] EXCEPT !.secure = sec], G))
    BY <1>4 DEF ReadOk
  <2>3. Flow({})
    BY <1>0, <2>1, ReadingFlows
  <2>4. Has(chan["caller"], FileMsg("OK", Head(chan["caller"]).f))
    <3>1. /\ Head(chan["caller"]) \in Frame /\ Has(chan["caller"], Head(chan["caller"]))
          /\ Head(chan["caller"]).t = "OK"
      BY <1>0, <1>4, <2>1, ReadingFlows DEF ReadOk, Next1
    <3>. QED  BY <3>1, FrameParts
  <2>5. sec \in BOOLEAN /\ sec = login.expected /\ (login.expected => login.password = "right")
    BY <1>0, <2>4 DEF SessionInv, SecureInv
  <2>6. G \in SUBSET Files
    BY <1>0, BinkpAssumption DEF BinkpAssumption
  <2>. HIDE DEF sec
  <2>. QED  BY <1>0, <2>1, <2>2, <2>3, <2>5, <2>6, Beginning
<1>5. CASE Refused(s)
  <2>1. Closes(s, "failed", FALSE) /\ UNCHANGED History
    BY <1>5 DEF Refused, Fails
  <2>2. Flow({})
    BY <1>0, <2>1, ClosingFlows
  <2>. QED  BY <2>1, <2>2, Ending DEF Closes, Aside, Settings, History
<1>. QED  BY <1>1, <1>2, <1>3, <1>4, <1>5 DEF HandshakeStep

LEMMA NothingFlows ==
    ASSUME chan \in [Sides -> Seq(Frame)], UNCHANGED chan
    PROVE  Flow({})
BY DEF Flow

LEMMA SenderKeeps ==
    ASSUME SessionInv, NEW s \in Sides, SenderStep(s)
    PROVE  SessionInv'
<1>0. /\ st \in [Sides -> SideRec] /\ st[s] \in SideRec /\ chan \in [Sides -> Seq(Frame)]
      /\ SideInv(s)
  BY DEF SessionInv, SessionType, FilesInv
<1>1. ASSUME NEW f \in st[s].toSend, AnnounceFile(s, f) PROVE SessionInv'
  <2>. DEFINE r == [st[s] EXCEPT !.toSend = @ \ {f}, !.awaiting = @ \cup {f},
                      !.moved = @ \cup {st[s].batch},
                      !.sending = IF f \in EmptyFiles THEN NoFile ELSE f,
                      !.phase = IF f \in EmptyFiles THEN "files" ELSE "data"]
              o == Other(s)
  <2>1. f \in Files /\ f \in st[s].files /\ st[s].batch \in Nat
    BY <1>0 DEF SideRec, SideInv
  <2>2. /\ st' = [st EXCEPT ![s] = r] /\ UNCHANGED <<login, over, skipped>>
        /\ Send(s, FileMsg("FILE", f)) /\ Runs(s) /\ ~st[s].done /\ Established(s)
    BY <1>1 DEF AnnounceFile, Becomes, Aside, Settings, History, Established
  <2>3. r \in SideRec
    BY <1>0, <2>1, ZenonT(60) DEF SideRec, Phase
  <2>4. /\ r.files = st[s].files /\ r.toSend = st[s].toSend \ {f} /\ r.awaiting = st[s].awaiting \cup {f}
        /\ r.sent = st[s].sent /\ r.current = st[s].current /\ r.owed = st[s].owed
        /\ r.received = st[s].received /\ r.secure = st[s].secure /\ r.done = st[s].done
        /\ r.phase \notin {"start", "address", "auth"}
        /\ r.phase = "data" => r.sending \in Files
    BY <1>0, <2>1 DEF SideRec
  <2>5. FileMsg("FILE", f) \in Frame
    BY <2>1 DEF FileMsg, Frame
  <2>6. Flow({<<o, FileMsg("FILE", f)>>})
    BY <1>0, <2>2, <2>5, SendFlows
  <2>. HIDE DEF r
  <2>7. o \in Sides /\ o # s /\ Other(o) = s /\ o = Other(s)
    BY TwoSides
  <2>. HIDE DEF o
  <2>8. st'[s] = r /\ st'[o] = st[o]
    BY <1>0, <2>2, <2>7
  <2>9. \A k \in Sides : \A t, w : <<k, t, w>> # <<o, "FILE", f>> =>
           /\ Has(chan'[k], FileMsg(t, w)) => Has(chan[k], FileMsg(t, w))
           /\ Once(chan[k], FileMsg(t, w)) => Once(chan'[k], FileMsg(t, w))
    <3>. SUFFICES ASSUME NEW k \in Sides, NEW t, NEW w, <<k, t, w>> # <<o, "FILE", f>>,
                         NEW m, m = FileMsg(t, w)
                  PROVE  /\ Has(chan'[k], m) => Has(chan[k], m)
                         /\ Once(chan[k], m) => Once(chan'[k], m)
      OBVIOUS
    <3>1. <<k, m>> \notin {<<o, FileMsg("FILE", f)>>}
      BY FrameParts
    <3>. QED  BY <2>6, <3>1 DEF Flow
  <2>10. /\ ~Has(chan[o], FileMsg("FILE", f)) /\ st[o].received[f] = 0 /\ st[o].current # f
         /\ Once(chan[o], FileMsg("FILE", f))
    <3>1. FileInv(s, f) /\ st[o].received \in [Files -> Nat] /\ f \in st[s].toSend
      BY <1>0, <2>1, <2>7 DEF SessionInv, FilesInv, SideRec
    <3>. QED  BY <2>7, <3>1 DEF FileInv
  <2>11. Once(chan'[o], FileMsg("FILE", f))
    BY <2>6, <2>7, <2>10 DEF Flow
  <2>12. ASSUME NEW g \in Files PROVE FileInv(s, g)'
    <3>1. FileInv(s, g)
      BY DEF SessionInv, FilesInv
    <3>2. CASE g = f
      BY <2>1, <2>2, <2>4, <2>7, <2>8, <2>9, <2>10, <2>11, <3>1, <3>2 DEF FileInv, SideInv
    <3>3. CASE g # f
      BY <2>2, <2>4, <2>7, <2>8, <2>9, <3>1, <3>3 DEF FileInv
    <3>. QED  BY <3>2, <3>3
  <2>13. ASSUME NEW g \in Files PROVE FileInv(o, g)'
    <3>1. FileInv(o, g)
      BY <2>7 DEF SessionInv, FilesInv
    <3>. QED  BY <2>2, <2>4, <2>7, <2>8, <2>9, <3>1 DEF FileInv
  <2>14. r.toSend \subseteq r.files /\ (r.done \/ over[s] = "ok" => r.toSend = {} /\ r.awaiting = {})
    BY <1>0, <2>2, <2>4 DEF SideInv, Runs
  <2>15. \A n \in {<<o, FileMsg("FILE", f)>>} :
            \E k \in Sides, t \in {"FILE", "GOT", "SKIP"}, g \in Files : n = <<k, FileMsg(t, g)>>
    BY <2>1, <2>7
  <2>16. skipped \subseteq skipped' /\ skipped' \subseteq Files
    BY <2>2 DEF SessionInv, SessionType
  <2>17. \A g \in Files : FileInv(s, g)' /\ FileInv(Other(s), g)'
    BY <2>12, <2>13 DEF o
  <2>. QED  BY <2>2, <2>3, <2>4, <2>6, <2>14, <2>15, <2>16, <2>17, Moving
<1>2. CASE SendData(s) \/ SendEob(s)
  <2>1. PICK r0 \in {[st[s] EXCEPT !.sending = NoFile, !.phase = "files"],
                     CheckDone([st[s] EXCEPT !.phase = "wait", !.eobSent = TRUE])},
             m \in {FileMsg("DATA", st[s].sending), Msg("EOB")} :
           /\ st' = [st EXCEPT ![s] = r0] /\ Send(s, m)
           /\ m # Msg("EOB") => st[s].phase = "data"
           /\ UNCHANGED <<login, over, skipped>> /\ Runs(s) /\ ~st[s].done /\ Established(s)
    BY <1>2, FrameParts DEF SendData, SendEob, Becomes, Aside, Settings, History, Established
  <2>2. /\ r0 \in SideRec
        /\ r0.files = st[s].files /\ r0.toSend = st[s].toSend /\ r0.awaiting = st[s].awaiting
        /\ r0.sent = st[s].sent /\ r0.current = st[s].current /\ r0.owed = st[s].owed
        /\ r0.received = st[s].received /\ r0.secure = st[s].secure
        /\ r0.phase \in {"files", "wait"} /\ (r0.done => r0.toSend = {} /\ r0.awaiting = {})
    <3>1. CASE r0 = [st[s] EXCEPT !.sending = NoFile, !.phase = "files"]
      BY <1>0, <2>1, <3>1 DEF SideRec, Phase
    <3>2. CASE r0 = CheckDone([st[s] EXCEPT !.phase = "wait", !.eobSent = TRUE])
      <4>. DEFINE x == [st[s] EXCEPT !.phase = "wait", !.eobSent = TRUE]
      <4>1. /\ x \in SideRec /\ x.phase = "wait"
            /\ x.files = st[s].files /\ x.toSend = st[s].toSend /\ x.awaiting = st[s].awaiting
            /\ x.sent = st[s].sent /\ x.current = st[s].current /\ x.owed = st[s].owed
            /\ x.received = st[s].received /\ x.secure = st[s].secure /\ x.done = st[s].done
        BY <1>0 DEF SideRec, Phase
      <4>. HIDE DEF x
      <4>. QED  BY <2>1, <3>2, <4>1, CheckingDone DEF x
    <3>. QED  BY <3>1, <3>2
  <2>3. m # Msg("EOB") => m = FileMsg("DATA", st[s].sending) /\ st[s].sending \in Files
    BY <1>0, <2>1 DEF SideInv
  <2>4. m \in Frame
    BY <2>3 DEF Frame, FileMsg, Msg
  <2>5. Flow({<<Other(s), m>>})
    BY <1>0, <2>1, <2>4, SendFlows
  <2>6. Harmless(<<Other(s), m>>)
    BY <2>3, FrameParts, TwoSides DEF Harmless
  <2>. QED  BY <2>1, <2>2, <2>5, <2>6, Quiet
<1>3. CASE Wake(s)
  <2>. DEFINE r == [st[s] EXCEPT !.wake = FALSE, !.phase = IF st[s].done THEN "stop" ELSE "hook"]
  <2>1. /\ st' = [st EXCEPT ![s] = r] /\ UNCHANGED <<chan, login, over, skipped>> /\ Established(s)
    BY <1>3 DEF Wake, Becomes, Aside, Settings, History, Established
  <2>2. /\ r \in SideRec
        /\ r.files = st[s].files /\ r.toSend = st[s].toSend /\ r.awaiting = st[s].awaiting
        /\ r.sent = st[s].sent /\ r.current = st[s].current /\ r.owed = st[s].owed
        /\ r.received = st[s].received /\ r.secure = st[s].secure /\ r.done = st[s].done
        /\ r.phase \in {"stop", "hook"}
    <3>1. PICK p \in {"stop", "hook"} : r = [st[s] EXCEPT !.wake = FALSE, !.phase = p]
      OBVIOUS
    <3>. HIDE DEF r
    <3>. QED  BY <1>0, <3>1 DEF SideRec, Phase
  <2>. HIDE DEF r
  <2>. QED  BY <1>0, <2>1, <2>2, NothingFlows, Quiet
<1>4. CASE AskNextBatch(s)
  <2>1. PICK G \in SUBSET FilesOf[s] :
           Becomes(s, [st[s] EXCEPT !.phase = "files", !.files = @ \cup G,
                         !.toSend = @ \cup (G \ st[s].files)])
    BY <1>4 DEF AskNextBatch
  <2>. DEFINE r == [st[s] EXCEPT !.phase = "files", !.files = @ \cup G, !.toSend = @ \cup (G \ st[s].files)]
  <2>2. /\ st' = [st EXCEPT ![s] = r] /\ UNCHANGED <<chan, login, over, skipped>> /\ Established(s)
        /\ ~st[s].done /\ Runs(s)
    BY <1>4, <2>1 DEF AskNextBatch, Becomes, Aside, Settings, History, Established
  <2>3. G \in SUBSET Files
    BY BinkpAssumption DEF BinkpAssumption
  <2>4. /\ r \in SideRec /\ r.phase = "files" /\ r.done = st[s].done /\ r.secure = st[s].secure
        /\ r.files = st[s].files \cup G /\ r.toSend = st[s].toSend \cup (G \ st[s].files)
        /\ r.awaiting = st[s].awaiting /\ r.sent = st[s].sent /\ r.current = st[s].current
        /\ r.owed = st[s].owed /\ r.received = st[s].received
    BY <1>0, <2>3 DEF SideRec, Phase
  <2>. HIDE DEF r
  <2>5. \A k \in Sides : \A f \in Files : FileInv(k, f)'
    <3>1. \A k \in Sides : \A t, w : t \in {"FILE", "GOT", "SKIP"} =>
              /\ Has(chan'[k], FileMsg(t, w)) => Has(chan[k], FileMsg(t, w))
              /\ Once(chan[k], FileMsg(t, w)) => Once(chan'[k], FileMsg(t, w))
      BY <2>2
    <3>2. UNCHANGED skipped /\ st' = [st EXCEPT ![s] = r]
      BY <2>2
    <3>. QED  BY <2>3, <2>4, <3>1, <3>2, Offering
  <2>6. \A f \in Files : FileInv(s, f)' /\ FileInv(Other(s), f)'
    <3>1. \A f \in Files : FileInv(s, f)'
      BY <2>5
    <3>2. Other(s) \in Sides
      BY TwoSides
    <3>3. \A k \in {Other(s)} : \A f \in Files : FileInv(k, f)'
      BY <2>5, <3>2
    <3>. QED  BY <3>1, <3>3
  <2>7. r.toSend \subseteq r.files /\ (r.done \/ over[s] = "ok" => r.toSend = {} /\ r.awaiting = {})
    BY <1>0, <2>2, <2>4 DEF SideInv, Runs
  <2>8. Flow({})
    BY <1>0, <2>2, NothingFlows
  <2>9. skipped \subseteq skipped' /\ skipped' \subseteq Files
    BY <2>2 DEF SessionInv, SessionType
  <2>. QED  BY <2>2, <2>4, <2>6, <2>7, <2>8, <2>9, Moving
<1>. QED  BY <1>1, <1>2, <1>3, <1>4 DEF SenderStep

\* A file announced by the other side is over: kept, or refused.
LEMMA Finishing ==
    ASSUME SessionInv, NEW s \in Sides, Established(s), NEW r \in SideRec, NEW f \in Files,
           r.files = st[s].files, r.toSend = st[s].toSend, r.awaiting = st[s].awaiting,
           r.sent = st[s].sent, r.received = st[s].received, r.owed = st[s].owed,
           r.secure = st[s].secure, r.done = st[s].done, r.phase = st[s].phase,
           r.sending = st[s].sending, r.current = st[s].current,
           f \in st[Other(s)].files \ st[Other(s)].toSend, st[s].received[f] = 0,
           Flow({}), ~Has(chan'[s], FileMsg("FILE", f)), Finished(s, r, f),
           UNCHANGED <<login, over>>
    PROVE  SessionInv'
<1>. DEFINE o == Other(s)
<1>1. o \in Sides /\ o # s /\ Other(o) = s /\ o = Other(s)
  BY TwoSides
<1>. HIDE DEF o
<1>2. /\ st \in [Sides -> SideRec] /\ skipped \subseteq Files /\ SideInv(s)
  BY DEF SessionInv, SessionType, FilesInv
<1>3. PICK x \in SideRec :
         /\ st' = [st EXCEPT ![s] = x]
         /\ x.files = r.files /\ x.toSend = r.toSend /\ x.awaiting = r.awaiting /\ x.sent = r.sent
         /\ x.secure = r.secure /\ x.done = r.done /\ x.phase = r.phase /\ x.sending = r.sending
         /\ x.current = NoFile
         /\ \/ /\ x.owed = FileMsg("GOT", f) /\ UNCHANGED skipped
               /\ x.received[f] = 1 /\ \A g \in Files \ {f} : x.received[g] = r.received[g]
            \/ /\ x.owed = FileMsg("SKIP", f) /\ skipped' = skipped \cup {f}
               /\ x.received = r.received
  <2>1. CASE /\ Becomes(s, [r EXCEPT !.current = NoFile, !.owed = FileMsg("GOT", f), !.received[f] = @ + 1])
             /\ UNCHANGED skipped
    <3>. DEFINE x == [r EXCEPT !.current = NoFile, !.owed = FileMsg("GOT", f), !.received[f] = @ + 1]
    <3>1. FileMsg("GOT", f) \in [t : {"GOT", "SKIP"}, f : Files] /\ r.received \in [Files -> Nat]
      BY DEF FileMsg, SideRec
    <3>2. /\ x = [r EXCEPT !.current = NoFile, !.owed = FileMsg("GOT", f),
                          !.received = [r.received EXCEPT ![f] = @ + 1]]
          /\ [r.received EXCEPT ![f] = @ + 1] \in [Files -> Nat]
      <4>1. [r.received EXCEPT ![f] = @ + 1] \in [Files -> Nat]
        BY <3>1
      <4>2. /\ r = [r EXCEPT !.current = r.current] /\ DOMAIN r = DOMAIN [r EXCEPT !.current = NoFile, !.owed = FileMsg("GOT", f)]
            /\ "received" \in DOMAIN r /\ [r EXCEPT !.current = NoFile, !.owed = FileMsg("GOT", f)].received = r.received
        BY DEF SideRec
      <4>. QED  BY <4>1, <4>2
    <3>3. /\ [r.received EXCEPT ![f] = @ + 1][f] = 1
          /\ \A g \in Files \ {f} : [r.received EXCEPT ![f] = @ + 1][g] = r.received[g]
      BY <3>1
    <3>4. /\ x \in SideRec
          /\ x.files = r.files /\ x.toSend = r.toSend /\ x.awaiting = r.awaiting /\ x.sent = r.sent
          /\ x.secure = r.secure /\ x.done = r.done /\ x.phase = r.phase /\ x.sending = r.sending
          /\ x.current = NoFile /\ x.owed = FileMsg("GOT", f)
          /\ x.received = [r.received EXCEPT ![f] = @ + 1]
      <4>. DEFINE c == [r.received EXCEPT ![f] = @ + 1]
      <4>1. c \in [Files -> Nat] /\ x = [r EXCEPT !.current = NoFile, !.owed = FileMsg("GOT", f), !.received = c]
        BY <3>2
      <4>. HIDE DEF c, x
      <4>2. /\ x \in SideRec
            /\ x.files = r.files /\ x.toSend = r.toSend /\ x.awaiting = r.awaiting /\ x.sent = r.sent
            /\ x.secure = r.secure /\ x.done = r.done /\ x.phase = r.phase /\ x.sending = r.sending
            /\ x.current = NoFile /\ x.owed = FileMsg("GOT", f)
            /\ x.received = c
        BY <3>1, <4>1 DEF SideRec
      <4>. QED  BY <4>2 DEF c
    <3>. HIDE DEF x
    <3>5. st' = [st EXCEPT ![s] = x]
      BY <2>1 DEF Becomes, x
    <3>6. x.received[f] = 1 /\ \A g \in Files \ {f} : x.received[g] = r.received[g]
      BY <3>3, <3>4
    <3>. QED  BY <2>1, <3>4, <3>5, <3>6
  <2>2. CASE /\ Becomes(s, [r EXCEPT !.current = NoFile, !.owed = FileMsg("SKIP", f)])
             /\ skipped' = skipped \cup {f}
    <3>. DEFINE x == [r EXCEPT !.current = NoFile, !.owed = FileMsg("SKIP", f)]
    <3>1. FileMsg("SKIP", f) \in [t : {"GOT", "SKIP"}, f : Files]
      BY DEF FileMsg
    <3>2. /\ x \in SideRec
          /\ x.files = r.files /\ x.toSend = r.toSend /\ x.awaiting = r.awaiting /\ x.sent = r.sent
          /\ x.secure = r.secure /\ x.done = r.done /\ x.phase = r.phase /\ x.sending = r.sending
          /\ x.current = NoFile /\ x.owed = FileMsg("SKIP", f) /\ x.received = r.received
      BY <3>1 DEF SideRec
    <3>. HIDE DEF x
    <3>3. st' = [st EXCEPT ![s] = x]
      BY <2>2 DEF Becomes, x
    <3>. QED  BY <2>2, <3>2, <3>3
  <2>. QED  BY <2>1, <2>2 DEF Finished
<1>4. st'[s] = x /\ st'[o] = st[o]
  BY <1>1, <1>2, <1>3
<1>5. /\ \A k \in Sides : \A m : Has(chan'[k], m) => Has(chan[k], m)
      /\ \A k \in Sides : \A m : Once(chan[k], m) => Once(chan'[k], m)
  BY DEF Flow
<1>6. skipped \subseteq skipped' /\ skipped' \subseteq Files
  BY <1>2, <1>3
<1>7. ASSUME NEW g \in Files PROVE FileInv(s, g)'
  <2>1. FileInv(s, g)
    BY DEF SessionInv, FilesInv
  <2>. QED  BY <1>1, <1>3, <1>4, <1>5, <1>6, <2>1 DEF FileInv
<1>8. ASSUME NEW g \in Files PROVE FileInv(o, g)'
  <2>1. FileInv(o, g) /\ g # NoFile
    BY <1>1, BinkpAssumption DEF SessionInv, FilesInv, BinkpAssumption
  <2>2. CASE g = f
    <3>1. /\ x.owed = FileMsg("GOT", f) => x.received[f] = 1
          /\ x.owed = FileMsg("SKIP", f) => x.received[f] = 0 /\ f \in skipped'
          /\ x.received[f] = 0 \/ x.received[f] = 1
          /\ st[s].received[f] = 0
      BY <1>3, FrameParts
    <3>. QED  BY <1>1, <1>3, <1>4, <1>5, <1>6, <2>1, <2>2, <3>1 DEF FileInv
  <2>3. CASE g # f
    <3>1. x.received[g] = st[s].received[g]
      BY <1>3, <2>3
    <3>2. x.owed # FileMsg("GOT", g) /\ x.owed # FileMsg("SKIP", g)
      BY <1>3, <2>3, FrameParts
    <3>. QED  BY <1>1, <1>3, <1>4, <1>5, <1>6, <2>1, <2>3, <3>1, <3>2 DEF FileInv
  <2>. QED  BY <2>2, <2>3
<1>9. /\ x.secure = st[s].secure /\ x.phase \notin {"start", "address", "auth"}
      /\ x.phase = "data" => x.sending \in Files
      /\ x.toSend \subseteq x.files
      /\ x.done \/ over[s] = "ok" => x.toSend = {} /\ x.awaiting = {}
  BY <1>2, <1>3 DEF SideInv, Established
<1>10. \A g \in Files : FileInv(s, g)' /\ FileInv(Other(s), g)'
  BY <1>7, <1>8 DEF o
<1>. QED  BY <1>3, <1>6, <1>9, <1>10, Moving

\* What the frame at the head of side s's connection tells.
LEMMA Arrived ==
    ASSUME SessionInv, NEW s \in Sides, chan[s] # <<>>
    PROVE  LET m == Head(chan[s]) IN
           /\ m \in Frame /\ m = FileMsg(m.t, m.f) /\ Has(chan[s], FileMsg(m.t, m.f))
           /\ m.t \in {"FILE", "DATA"} => m.f \in Files
           /\ m.t = "FILE" =>
                 /\ m.f \in st[Other(s)].files \ st[Other(s)].toSend
                 /\ st[s].received[m.f] = 0 /\ st[s].current # m.f
                 /\ chan' = Consumed(s) => ~Has(chan'[s], FileMsg("FILE", m.f))
           /\ m.t = "GOT" /\ m.f \in Files => st[Other(s)].received[m.f] = 1
           /\ m.t = "SKIP" /\ m.f \in Files => m.f \in skipped
<1>. DEFINE m == Head(chan[s])
<1>1. chan \in [Sides -> Seq(Frame)]
  BY DEF SessionInv, SessionType
<1>2. /\ m \in Frame /\ Has(chan[s], m)
      /\ chan' = Consumed(s) /\ Once(chan[s], m) => ~Has(chan'[s], m)
  BY <1>1, ReadingFlows
<1>. HIDE DEF m
<1>3. m = FileMsg(m.t, m.f)
  BY <1>2, FrameParts
<1>4. m.t \in {"FILE", "DATA"} => m.f \in Files
  BY <1>2, <1>3 DEF SessionInv, FilesInv, SideInv
<1>5. Other(s) \in Sides /\ Other(Other(s)) = s
  BY TwoSides
<1>6. ASSUME m.t = "FILE"
      PROVE  /\ m.f \in st[Other(s)].files \ st[Other(s)].toSend
             /\ st[s].received[m.f] = 0 /\ st[s].current # m.f
             /\ chan' = Consumed(s) => ~Has(chan'[s], FileMsg("FILE", m.f))
  <2>1. FileInv(Other(s), m.f)
    BY <1>4, <1>5, <1>6 DEF SessionInv, FilesInv
  <2>2. Has(chan[s], FileMsg("FILE", m.f)) /\ Once(chan[s], FileMsg("FILE", m.f)) /\ m = FileMsg("FILE", m.f)
    BY <1>2, <1>3, <1>5, <1>6, <2>1 DEF FileInv
  <2>. QED  BY <1>2, <1>5, <2>1, <2>2 DEF FileInv
<1>7. ASSUME m.t \in {"GOT", "SKIP"}, m.f \in Files
      PROVE  (m.t = "GOT" => st[Other(s)].received[m.f] = 1) /\ (m.t = "SKIP" => m.f \in skipped)
  <2>1. FileInv(s, m.f)
    BY <1>7 DEF SessionInv, FilesInv
  <2>. QED  BY <1>2, <1>3, <2>1 DEF FileInv
<1>. QED  BY <1>2, <1>3, <1>4, <1>6, <1>7 DEF m

\* What an answer about a file changes in the record of a side.
LEMMA AnswerTaken ==
    ASSUME NEW q \in SideRec, NEW m
    PROVE  /\ Confirmed(q, m) \in SideRec
           /\ Confirmed(q, m).files = q.files /\ Confirmed(q, m).toSend = q.toSend
           /\ Confirmed(q, m).awaiting = q.awaiting \ {m.f}
           /\ Confirmed(q, m).sent = IF m.f \in q.awaiting /\ m.t = "GOT" THEN q.sent \cup {m.f} ELSE q.sent
           /\ Confirmed(q, m).received = q.received /\ Confirmed(q, m).owed = q.owed
           /\ Confirmed(q, m).secure = q.secure /\ Confirmed(q, m).done = q.done
           /\ Confirmed(q, m).phase = q.phase
           /\ Confirmed(q, m).sending = q.sending /\ Confirmed(q, m).current = q.current
<1>1. q.awaiting \subseteq Files /\ q.sent \subseteq Files
  BY DEF SideRec
<1>. DEFINE A == q.awaiting \ {m.f}
            S == IF m.f \in q.awaiting /\ m.t = "GOT" THEN q.sent \cup {m.f} ELSE q.sent
<1>2. A \in SUBSET Files /\ S \in SUBSET Files
  BY <1>1
<1>3. Confirmed(q, m) = [q EXCEPT !.awaiting = A, !.sent = S]
  BY DEF Confirmed, SideRec
<1>. HIDE DEF A, S
<1>4. [q EXCEPT !.awaiting = A, !.sent = S] \in SideRec
  BY <1>2 DEF SideRec
<1>5. /\ [q EXCEPT !.awaiting = A, !.sent = S].awaiting = A
      /\ [q EXCEPT !.awaiting = A, !.sent = S].sent = S
  BY DEF SideRec
<1>. QED  BY <1>3, <1>4, <1>5 DEF A, S, SideRec

LEMMA ReceivingKeeps ==
    ASSUME SessionInv, NEW s \in Sides,
           ReceiveFile(s) \/ ReceiveData(s) \/ SendGot(s) \/ ReceiveAnswer(s) \/ ReceiveEob(s)
    PROVE  SessionInv'
<1>. DEFINE o == Other(s)
<1>0. /\ st \in [Sides -> SideRec] /\ st[s] \in SideRec /\ chan \in [Sides -> Seq(Frame)]
      /\ SideInv(s) /\ skipped \subseteq Files
      /\ \A n \in {} : Harmless(n)
  BY DEF SessionInv, SessionType, FilesInv
<1>x. o \in Sides /\ o # s /\ Other(o) = s /\ o = Other(s)
  BY TwoSides
<1>. HIDE DEF o
<1>1. CASE ReceiveFile(s)
  <2>. DEFINE f == Head(chan[s]).f
              r == Announced(st[s])
  <2>1. /\ Established(s) /\ chan[s] # <<>> /\ Head(chan[s]).t = "FILE" /\ st[s].current = NoFile
        /\ chan' = Consumed(s) /\ UNCHANGED <<login, over>>
        /\ \/ Finished(s, r, f)
           \/ Becomes(s, [r EXCEPT !.current = f]) /\ UNCHANGED skipped
    BY <1>1 DEF ReceiveFile, Takes, Listens, Next1, Aside, Settings
  <2>2. /\ f \in Files /\ f \in st[o].files \ st[o].toSend /\ st[s].received[f] = 0
        /\ ~Has(chan'[s], FileMsg("FILE", f))
    BY <1>x, <2>1, Arrived
  <2>3. Flow({})
    BY <1>0, <2>1, ReadingFlows
  <2>4. /\ r \in SideRec
        /\ r.files = st[s].files /\ r.toSend = st[s].toSend /\ r.awaiting = st[s].awaiting
        /\ r.sent = st[s].sent /\ r.received = st[s].received /\ r.owed = st[s].owed
        /\ r.secure = st[s].secure /\ r.done = st[s].done /\ r.phase = st[s].phase
        /\ r.sending = st[s].sending /\ r.current = st[s].current
    <3>1. PICK b \in Nat : r = [st[s] EXCEPT !.rxBatch = b, !.moved = @ \cup {b}]
      BY <1>0, CountingBatches
    <3>. HIDE DEF r
    <3>. QED  BY <1>0, <3>1 DEF SideRec
  <2>. HIDE DEF f, r
  <2>5. CASE Finished(s, r, f)
    BY <1>x, <2>1, <2>2, <2>3, <2>4, <2>5, Finishing
  <2>6. CASE Becomes(s, [r EXCEPT !.current = f]) /\ UNCHANGED skipped
    <3>. DEFINE x == [r EXCEPT !.current = f]
    <3>1. /\ x \in SideRec
          /\ x.files = st[s].files /\ x.toSend = st[s].toSend /\ x.awaiting = st[s].awaiting
          /\ x.sent = st[s].sent /\ x.received = st[s].received /\ x.owed = st[s].owed
          /\ x.secure = st[s].secure /\ x.done = st[s].done /\ x.phase = st[s].phase
          /\ x.sending = st[s].sending /\ x.current = f
      BY <2>2, <2>4 DEF SideRec
    <3>2. st' = [st EXCEPT ![s] = x]
      BY <2>6 DEF Becomes
    <3>. HIDE DEF x
    <3>3. st'[s] = x /\ st'[o] = st[o]
      BY <1>0, <1>x, <3>2
    <3>4. /\ \A k \in Sides : \A m : Has(chan'[k], m) => Has(chan[k], m)
          /\ \A k \in Sides : \A m : Once(chan[k], m) => Once(chan'[k], m)
      BY <2>3 DEF Flow
    <3>5. ASSUME NEW g \in Files PROVE FileInv(s, g)'
      <4>1. FileInv(s, g)
        BY DEF SessionInv, FilesInv
      <4>. QED  BY <1>x, <2>6, <3>1, <3>3, <3>4, <4>1 DEF FileInv
    <3>6. ASSUME NEW g \in Files PROVE FileInv(o, g)'
      <4>1. FileInv(o, g)
        BY <1>x DEF SessionInv, FilesInv
      <4>2. CASE g = f
        BY <1>x, <2>2, <2>6, <3>1, <3>3, <3>4, <4>1, <4>2 DEF FileInv
      <4>3. CASE g # f
        BY <1>x, <2>6, <3>1, <3>3, <3>4, <4>1, <4>3 DEF FileInv
      <4>. QED  BY <4>2, <4>3
    <3>7. /\ x.phase \notin {"start", "address", "auth"} /\ (x.phase = "data" => x.sending \in Files)
          /\ x.toSend \subseteq x.files
          /\ x.done \/ over[s] = "ok" => x.toSend = {} /\ x.awaiting = {}
      BY <1>0, <2>1, <3>1 DEF SideInv, Established
    <3>8. \A g \in Files : FileInv(s, g)' /\ FileInv(Other(s), g)'
      BY <3>5, <3>6 DEF o
    <3>9. skipped \subseteq skipped' /\ skipped' \subseteq Files
      BY <1>0, <2>6
    <3>. QED  BY <2>1, <2>3, <3>1, <3>2, <3>7, <3>8, <3>9, Moving
  <2>. QED  BY <2>1, <2>5, <2>6 DEF f, r
<1>2. CASE ReceiveData(s)
  <2>. DEFINE f == st[s].current
  <2>1. /\ Established(s) /\ chan[s] # <<>> /\ Head(chan[s]).t = "DATA" /\ f = Head(chan[s]).f
        /\ chan' = Consumed(s) /\ UNCHANGED <<login, over>> /\ Finished(s, st[s], f)
    BY <1>2 DEF ReceiveData, Takes, Listens, Next1, Aside, Settings
  <2>2. f \in Files
    BY <2>1, Arrived
  <2>3. Flow({})
    BY <1>0, <2>1, ReadingFlows
  <2>4. FileInv(o, f)
    BY <1>x, <2>2 DEF SessionInv, FilesInv
  <2>5. /\ f \in st[o].files \ st[o].toSend /\ st[s].received[f] = 0
        /\ ~Has(chan[s], FileMsg("FILE", f))
    BY <1>x, <2>4 DEF FileInv
  <2>6. ~Has(chan'[s], FileMsg("FILE", f))
    BY <2>3, <2>5 DEF Flow
  <2>. QED  BY <1>0, <1>x, <2>1, <2>2, <2>3, <2>5, <2>6, Finishing
<1>3. CASE SendGot(s)
  <2>. DEFINE r0 == [st[s] EXCEPT !.owed = NothingOwed]
              r == CheckDone(r0)
              m == st[s].owed
  <2>1. /\ m # NothingOwed /\ st' = [st EXCEPT ![s] = r] /\ Send(s, m)
        /\ UNCHANGED <<login, over, skipped>>
    BY <1>3 DEF SendGot, Becomes, Aside, Settings, History
  <2>2. Established(s)
    BY <1>0, <2>1 DEF SideInv
  <2>3. PICK t \in {"GOT", "SKIP"}, f \in Files : m = FileMsg(t, f)
    BY <1>0, <2>1 DEF SideRec, FileMsg, NothingOwed
  <2>4. m \in Frame
    BY <2>3 DEF FileMsg, Frame
  <2>5. Flow({<<o, m>>})
    BY <1>0, <1>x, <2>1, <2>4, SendFlows
  <2>6. /\ r0 \in SideRec
        /\ r0.files = st[s].files /\ r0.toSend = st[s].toSend /\ r0.awaiting = st[s].awaiting
        /\ r0.sent = st[s].sent /\ r0.received = st[s].received /\ r0.owed = NothingOwed
        /\ r0.secure = st[s].secure /\ r0.done = st[s].done /\ r0.phase = st[s].phase
        /\ r0.sending = st[s].sending /\ r0.current = st[s].current
    BY <1>0 DEF SideRec, NothingOwed
  <2>. HIDE DEF r0, m
  <2>7. /\ r \in SideRec
        /\ r.files = st[s].files /\ r.toSend = st[s].toSend /\ r.awaiting = st[s].awaiting
        /\ r.sent = st[s].sent /\ r.received = st[s].received /\ r.owed = NothingOwed
        /\ r.secure = st[s].secure /\ r.phase = st[s].phase
        /\ r.sending = st[s].sending /\ r.current = st[s].current
        /\ r.done => st[s].done \/ (r.toSend = {} /\ r.awaiting = {})
    BY <2>6, CheckingDone
  <2>. HIDE DEF r
  <2>8. st'[s] = r /\ st'[o] = st[o]
    BY <1>0, <1>x, <2>1
  <2>9. \A k \in Sides : \A u, w : <<k, u, w>> # <<o, t, f>> =>
           /\ Has(chan'[k], FileMsg(u, w)) => Has(chan[k], FileMsg(u, w))
           /\ Once(chan[k], FileMsg(u, w)) => Once(chan'[k], FileMsg(u, w))
    <3>. SUFFICES ASSUME NEW k \in Sides, NEW u, NEW w, <<k, u, w>> # <<o, t, f>>,
                         NEW n, n = FileMsg(u, w)
                  PROVE  /\ Has(chan'[k], n) => Has(chan[k], n)
                         /\ Once(chan[k], n) => Once(chan'[k], n)
      OBVIOUS
    <3>1. <<k, n>> \notin {<<o, m>>}
      BY <2>3, FrameParts
    <3>. QED  BY <2>5, <3>1 DEF Flow
  <2>10. ASSUME NEW g \in Files PROVE FileInv(s, g)'
    <3>1. FileInv(s, g)
      BY DEF SessionInv, FilesInv
    <3>. QED  BY <1>x, <2>1, <2>7, <2>8, <2>9, <3>1 DEF FileInv
  <2>11. ASSUME NEW g \in Files PROVE FileInv(o, g)'
    <3>1. FileInv(o, g)
      BY <1>x DEF SessionInv, FilesInv
    <3>2. /\ r.received = st[s].received /\ r.current = st[s].current
          /\ r.owed # FileMsg("GOT", g) /\ r.owed # FileMsg("SKIP", g)
      BY <2>7, FrameParts, BinkpAssumption DEF NothingOwed, BinkpAssumption
    <3>3. CASE g = f
      <4>1. /\ t = "GOT" => st[s].received[f] = 1
            /\ t = "SKIP" => f \in skipped
        BY <1>x, <2>3, <3>1, <3>3 DEF FileInv, m
      <4>. QED  BY <1>x, <2>1, <2>8, <2>9, <3>1, <3>2, <3>3, <4>1 DEF FileInv
    <3>4. CASE g # f
      BY <1>x, <2>1, <2>8, <2>9, <3>1, <3>2, <3>4 DEF FileInv
    <3>. QED  BY <3>3, <3>4
  <2>12. /\ r.phase \notin {"start", "address", "auth"} /\ (r.phase = "data" => r.sending \in Files)
         /\ r.toSend \subseteq r.files
         /\ r.done \/ over[s] = "ok" => r.toSend = {} /\ r.awaiting = {}
    BY <1>0, <2>2, <2>7 DEF SideInv, Established
  <2>13. \A g \in Files : FileInv(s, g)' /\ FileInv(Other(s), g)'
    BY <2>10, <2>11 DEF o
  <2>14. skipped \subseteq skipped' /\ skipped' \subseteq Files
    BY <1>0, <2>1
  <2>15. \A n \in {<<o, m>>} :
            \E k \in Sides, u \in {"FILE", "GOT", "SKIP"}, g \in Files : n = <<k, FileMsg(u, g)>>
    BY <1>x, <2>3
  <2>. QED  BY <2>1, <2>2, <2>5, <2>7, <2>12, <2>13, <2>14, <2>15, Moving
<1>4. CASE ReceiveAnswer(s)
  <2>. DEFINE m == Head(chan[s])
              r0 == Confirmed(st[s], m)
              r == CheckDone(r0)
  <2>1. /\ Established(s) /\ chan[s] # <<>> /\ m.t \in {"GOT", "SKIP"} /\ chan' = Consumed(s)
        /\ st' = [st EXCEPT ![s] = r] /\ UNCHANGED <<login, over, skipped>>
    BY <1>4 DEF ReceiveAnswer, Takes, Listens, Next1, Becomes, Aside, Settings, History
  <2>2. /\ m.t = "GOT" /\ m.f \in Files => st[o].received[m.f] = 1
        /\ m.t = "SKIP" /\ m.f \in Files => m.f \in skipped
    BY <1>x, <2>1, Arrived
  <2>3. Flow({})
    BY <1>0, <2>1, ReadingFlows
  <2>. HIDE DEF m
  <2>4. /\ r0 \in SideRec
        /\ r0.files = st[s].files /\ r0.toSend = st[s].toSend /\ r0.awaiting = st[s].awaiting \ {m.f}
        /\ r0.sent = IF m.f \in st[s].awaiting /\ m.t = "GOT" THEN st[s].sent \cup {m.f} ELSE st[s].sent
        /\ r0.received = st[s].received /\ r0.owed = st[s].owed
        /\ r0.secure = st[s].secure /\ r0.done = st[s].done /\ r0.phase = st[s].phase
        /\ r0.sending = st[s].sending /\ r0.current = st[s].current
    <3>1. st[s] \in SideRec
      BY <1>0
    <3>. QED  BY <3>1, AnswerTaken, Zenon
  <2>. HIDE DEF r0
  <2>5. /\ r \in SideRec
        /\ r.files = st[s].files /\ r.toSend = st[s].toSend /\ r.awaiting = st[s].awaiting \ {m.f}
        /\ r.sent = IF m.f \in st[s].awaiting /\ m.t = "GOT" THEN st[s].sent \cup {m.f} ELSE st[s].sent
        /\ r.received = st[s].received /\ r.owed = st[s].owed
        /\ r.secure = st[s].secure /\ r.phase = st[s].phase
        /\ r.sending = st[s].sending /\ r.current = st[s].current
        /\ r.done => st[s].done \/ (r.toSend = {} /\ r.awaiting = {})
    BY <2>4, CheckingDone
  <2>. HIDE DEF r
  <2>6. st'[s] = r /\ st'[o] = st[o]
    BY <1>0, <1>x, <2>1
  <2>7. /\ \A k \in Sides : \A n : Has(chan'[k], n) => Has(chan[k], n)
        /\ \A k \in Sides : \A n : Once(chan[k], n) => Once(chan'[k], n)
    BY <2>3 DEF Flow
  <2>8. ASSUME NEW g \in Files PROVE FileInv(s, g)'
    <3>1. FileInv(s, g)
      BY DEF SessionInv, FilesInv
    <3>2. /\ g \in r.sent => g \in st[s].sent \/ (g = m.f /\ m.t = "GOT")
          /\ g \in st[s].sent => g \in r.sent
          /\ g \in st[s].awaiting => g \in r.awaiting \/ g \in r.sent \/ (g = m.f /\ m.t = "SKIP")
      BY <2>1, <2>5
    <3>. QED  BY <1>x, <2>1, <2>2, <2>5, <2>6, <2>7, <3>1, <3>2 DEF FileInv
  <2>9. ASSUME NEW g \in Files PROVE FileInv(o, g)'
    <3>1. FileInv(o, g)
      BY <1>x DEF SessionInv, FilesInv
    <3>2. r.received = st[s].received /\ r.owed = st[s].owed /\ r.current = st[s].current
      BY <2>5
    <3>. QED  BY <1>x, <2>1, <2>6, <2>7, <3>1, <3>2 DEF FileInv
  <2>10. /\ r.phase \notin {"start", "address", "auth"} /\ (r.phase = "data" => r.sending \in Files)
         /\ r.toSend \subseteq r.files
         /\ r.done \/ over[s] = "ok" => r.toSend = {} /\ r.awaiting = {}
    BY <1>0, <2>1, <2>5 DEF SideInv, Established
  <2>11. \A g \in Files : FileInv(s, g)' /\ FileInv(Other(s), g)'
    BY <2>8, <2>9 DEF o
  <2>12. skipped \subseteq skipped' /\ skipped' \subseteq Files
    BY <1>0, <2>1
  <2>. QED  BY <2>1, <2>3, <2>5, <2>10, <2>11, <2>12, Moving
<1>5. CASE ReceiveEob(s)
  <2>. DEFINE r0 == Ended(st[s])
              r == CheckDone(r0)
  <2>1. /\ Established(s) /\ chan[s] # <<>> /\ chan' = Consumed(s)
        /\ st' = [st EXCEPT ![s] = r] /\ UNCHANGED <<login, over, skipped>>
    BY <1>5 DEF ReceiveEob, Takes, Listens, Next1, Becomes, Aside, Settings, History
  <2>2. /\ r0 \in SideRec
        /\ r0.files = st[s].files /\ r0.toSend = st[s].toSend /\ r0.awaiting = st[s].awaiting
        /\ r0.sent = st[s].sent /\ r0.received = st[s].received /\ r0.owed = st[s].owed
        /\ r0.secure = st[s].secure /\ r0.done = st[s].done /\ r0.phase = st[s].phase
        /\ r0.sending = st[s].sending /\ r0.current = st[s].current
    <3>1. PICK b \in Nat : r0 = [st[s] EXCEPT !.rxBatch = b, !.rxEnded = @ \cup {b}]
      BY <1>0, CountingBatches
    <3>. HIDE DEF r0
    <3>. QED  BY <1>0, <3>1 DEF SideRec
  <2>. HIDE DEF r0
  <2>3. /\ r \in SideRec
        /\ r.files = st[s].files /\ r.toSend = st[s].toSend /\ r.awaiting = st[s].awaiting
        /\ r.sent = st[s].sent /\ r.received = st[s].received /\ r.owed = st[s].owed
        /\ r.secure = st[s].secure /\ r.phase = st[s].phase
        /\ r.sending = st[s].sending /\ r.current = st[s].current
        /\ r.done => st[s].done \/ (r.toSend = {} /\ r.awaiting = {})
    BY <2>2, CheckingDone
  <2>. HIDE DEF r
  <2>4. Flow({})
    BY <1>0, <2>1, ReadingFlows
  <2>5. /\ Established(s) <=> r.phase \notin {"start", "address", "auth"}
        /\ r.phase = "data" => r.sending \in Files
    BY <1>0, <2>3 DEF Established, SideInv
  <2>. QED  BY <1>0, <2>1, <2>3, <2>4, <2>5, Quiet
<1>. QED  BY <1>1, <1>2, <1>3, <1>4, <1>5

LEMMA SessionStep == SessionInv /\ [Next]_vars => SessionInv'
<1>. SUFFICES ASSUME SessionInv, [Next]_vars PROVE SessionInv'
  OBVIOUS
<1>0. st \in [Sides -> SideRec] /\ chan \in [Sides -> Seq(Frame)] /\ \A s \in Sides : st[s] \in SideRec
  BY DEF SessionInv, SessionType
<1>1. ASSUME NEW s \in Sides, NEW how \in {"ok", "failed"}, NEW certain, Closes(s, how, certain),
             UNCHANGED skipped, how = "ok" => st[s].toSend = {} /\ st[s].awaiting = {}
      PROVE  SessionInv'
  <2>1. Flow({})
    BY <1>0, <1>1, ClosingFlows
  <2>. QED  BY <1>1, <2>1, Ending DEF Closes, Aside, Settings
<1>2. ASSUME NEW s \in Sides, ReceiveMisplaced(s) \/ Break(s) PROVE SessionInv'
  BY <1>1, <1>2 DEF ReceiveMisplaced, Break, Fails, History
<1>3. ASSUME NEW s \in Sides, RemoteClosed(s) PROVE SessionInv'
  <2>1. CASE ~BetweenBatches(st[s])
    BY <1>1, <1>3, <2>1 DEF RemoteClosed
  <2>2. CASE BetweenBatches(st[s])
    <3>. DEFINE r == [st[s] EXCEPT !.hungUp = TRUE, !.done = TRUE, !.wake = TRUE]
    <3>1. /\ Established(s) /\ st' = [st EXCEPT ![s] = r] /\ UNCHANGED <<chan, login, over, skipped>>
          /\ st[s].toSend = {} /\ st[s].awaiting = {}
      BY <1>3, <2>2 DEF RemoteClosed, BetweenBatches, Listens, Becomes, Aside, Settings, History
    <3>2. /\ r \in SideRec
          /\ r.files = st[s].files /\ r.toSend = st[s].toSend /\ r.awaiting = st[s].awaiting
          /\ r.sent = st[s].sent /\ r.received = st[s].received /\ r.owed = st[s].owed
          /\ r.secure = st[s].secure /\ r.phase = st[s].phase
          /\ r.sending = st[s].sending /\ r.current = st[s].current
      <4>1. st[s] \in SideRec
        BY <1>0
      <4>. QED  BY <4>1 DEF SideRec
    <3>. HIDE DEF r
    <3>3. /\ Established(s) <=> r.phase \notin {"start", "address", "auth"}
          /\ r.phase = "data" => r.sending \in Files
      BY <3>2 DEF Established, SessionInv, FilesInv, SideInv
    <3>. QED  BY <1>0, <3>1, <3>2, <3>3, NothingFlows, Quiet
  <2>. QED  BY <2>1, <2>2
<1>4. ASSUME NEW s \in Sides, Finish(s) \/ HangUp(s) PROVE SessionInv'
  <2>1. st[s].toSend = {} /\ st[s].awaiting = {}
    BY <1>4 DEF Finish, HangUp, BetweenBatches, SessionInv, FilesInv, SideInv
  <2>. QED  BY <1>1, <1>4, <2>1 DEF Finish, HangUp, History
<1>5. ASSUME NEW s \in Sides, CutShort(s) PROVE SessionInv'
  <2>. DEFINE r == [st[s] EXCEPT !.sending = NoFile, !.phase = "files"]
  <2>1. /\ Established(s) /\ st' = [st EXCEPT ![s] = r] /\ UNCHANGED <<chan, login, over, skipped>>
        /\ ~st[s].done
    BY <1>5 DEF CutShort, Established, Becomes, Aside, Settings
  <2>2. /\ r \in SideRec
        /\ r.files = st[s].files /\ r.toSend = st[s].toSend /\ r.awaiting = st[s].awaiting
        /\ r.sent = st[s].sent /\ r.received = st[s].received /\ r.owed = st[s].owed
        /\ r.secure = st[s].secure /\ r.phase = "files" /\ r.done = st[s].done
        /\ r.current = st[s].current
    <3>1. st[s] \in SideRec
      BY <1>0
    <3>. QED  BY <3>1 DEF SideRec, Phase
  <2>. HIDE DEF r
  <2>. QED  BY <1>0, <2>1, <2>2, NothingFlows, Quiet
<1>6. CASE UNCHANGED vars
  BY <1>6 DEF vars, Aside, Settings, History, SessionInv, SessionType, FilesInv, SideInv, FileInv, SecureInv,
              Established
<1>. QED  BY <1>2, <1>3, <1>4, <1>5, <1>6, HandshakeKeeps, SenderKeeps, ReceivingKeeps
          DEF Next, ReceiverStep

LEMMA SessionAlways == Spec => []SessionInv
<1>1. Init => SessionInv
  <2>. SUFFICES ASSUME Init PROVE SessionInv
    OBVIOUS
  <2>1. Fresh \in SideRec
    BY DEF Fresh, SideRec, Phase, NothingOwed
  <2>2. \A s \in Sides : st[s] = Fresh /\ chan[s] = <<>> /\ over[s] = "no"
    BY DEF Init
  <2>3. SessionType
    BY <2>1 DEF Init, SessionType
  <2>4. /\ Fresh.files = {} /\ Fresh.toSend = {} /\ Fresh.awaiting = {} /\ Fresh.sent = {}
        /\ Fresh.current = NoFile /\ Fresh.owed = NothingOwed /\ ~Fresh.done
        /\ Fresh.phase = "start" /\ \A f \in Files : Fresh.received[f] = 0
    BY DEF Fresh
  <2>5. \A f \in Files : /\ f # NoFile /\ NothingOwed # FileMsg("GOT", f)
                         /\ NothingOwed # FileMsg("SKIP", f)
    BY FrameParts, BinkpAssumption DEF NothingOwed, BinkpAssumption
  <2>6. \A s \in Sides : SideInv(s)
    BY <2>2, <2>4, HasEmpty DEF SideInv, Established
  <2>7. \A s \in Sides : \A f \in Files : FileInv(s, f)
    BY <2>2, <2>4, <2>5, HasEmpty, TwoSides DEF FileInv
  <2>8. SecureInv
    BY <2>2, <2>4, HasEmpty DEF SecureInv, Established, Sides
  <2>. QED  BY <2>3, <2>6, <2>7, <2>8 DEF SessionInv, FilesInv
<1>. QED  BY <1>1, SessionStep, PTL DEF Spec

-----------------------------------------------------------------------------
(* What the tosser and the outbound queue rely on.                           *)

\* _Transfer.confirm notes a file as sent only when its M_GOT comes, and
\* _finish_file owes that M_GOT only once the file is kept: the mail in a
\* file of result.sent is with the remote, once, wherever the session broke.
THEOREM ConfirmedFilesArrived == Spec => []ConfirmedIsReceived
<1>1. SessionInv => ConfirmedIsReceived
  <2>. SUFFICES ASSUME SessionInv, NEW s \in Sides
                PROVE  /\ \A f \in st[s].sent : st[Other(s)].received[f] = 1
                       /\ \A f \in Files : st[s].received[f] <= 1
    BY DEF ConfirmedIsReceived
  <2>1. st[s].sent \subseteq Files
    BY DEF SessionInv, SessionType, SideRec
  <2>2. \A f \in st[s].sent : st[Other(s)].received[f] = 1
    BY <2>1 DEF SessionInv, FilesInv, FileInv
  <2>3. ASSUME NEW f \in Files PROVE st[s].received[f] <= 1
    <3>1. FileInv(Other(s), f) /\ Other(Other(s)) = s
      BY TwoSides DEF SessionInv, FilesInv
    <3>2. st[s].received[f] = 0 \/ st[s].received[f] = 1
      BY <3>1 DEF FileInv
    <3>. QED  BY <3>2
  <2>. QED  BY <2>2, <2>3
<1>. QED  BY <1>1, SessionAlways, PTL

\* _run_session: the answerer takes a session for secure when it expects a
\* password and got it, the caller when it sent one and M_OK does not say
\* "non-secure"; they never differ about it.
THEOREM BothKnowIfSecure == Spec => []SecureAgrees
<1>1. SessionInv => SecureAgrees
  BY DEF SessionInv, SecureInv, SecureAgrees, Sides
<1>. QED  BY <1>1, SessionAlways, PTL

LEMMA NothingUnsettled ==
    ASSUME SessionInv, NEW s \in Sides, over[s] = "ok", NEW f \in st[s].files
    PROVE  f \in st[s].sent \cup skipped
<1>1. f \in Files
  BY DEF SessionInv, SessionType, SideRec
<1>2. FileInv(s, f) /\ SideInv(s)
  BY <1>1 DEF SessionInv, FilesInv
<1>. QED  BY <1>2 DEF FileInv, SideInv

\* check_done and between_batches: a side ends well only when nothing is left
\* to send or to be confirmed, so each of its files was confirmed or refused,
\* whatever became of the other side.
THEOREM GoodEndSettlesFiles ==
    Spec => [](\A s \in Sides : over[s] = "ok" => st[s].files \subseteq st[s].sent \cup skipped)
<1>1. SessionInv =>
         \A s \in Sides : over[s] = "ok" => st[s].files \subseteq st[s].sent \cup skipped
  BY NothingUnsettled
<1>. QED  BY <1>1, SessionAlways, PTL


-----------------------------------------------------------------------------
(* Two mailers in step: what a side will have read when all that is on its   *)
(* way to it has come is what the other has written.                         *)

\* Reading frame m, a receiver that receives file c (or none) and has read n
\* M_EOBs goes on with file d, and has read k.
Reads(m, c, n, d, k) ==
    \/ /\ m.t = "FILE" /\ c = NoFile /\ k = n
       /\ d = IF m.f \in EmptyFiles THEN NoFile ELSE m.f
    \/ m.t = "DATA" /\ c = m.f /\ d = NoFile /\ k = n
    \/ m.t = "EOB" /\ c = NoFile /\ d = NoFile /\ k = n + 1
    \/ m.t \notin {"FILE", "DATA", "EOB"} /\ d = c /\ k = n

\* c[i] and n[i]: the same when i of the frames of q have been read
Reading(q, c, n) ==
    /\ c \in [0 .. Len(q) -> Files \cup {NoFile}]
    /\ n \in [0 .. Len(q) -> Nat]
    /\ \A i \in 1 .. Len(q) : Reads(q[i], c[i - 1], n[i - 1], c[i], n[i])
    /\ \A i, k \in 0 .. Len(q) : i <= k => n[i] <= n[k]

\* One frame more is read, after those of q.
GoesOn(q, c, n, m, d, k) ==
    \E c2, n2 :
        /\ Reading(Append(q, m), c2, n2)
        /\ \A i \in 0 .. Len(q) : c2[i] = c[i] /\ n2[i] = n[i]
        /\ c2[Len(q) + 1] = d /\ n2[Len(q) + 1] = k

LEMMA ReadingMore ==
    ASSUME NEW q \in Seq(Frame), NEW c, NEW n, Reading(q, c, n), NEW m \in Frame,
           NEW d \in Files \cup {NoFile}, NEW k \in Nat,
           Reads(m, c[Len(q)], n[Len(q)], d, k)
    PROVE  GoesOn(q, c, n, m, d, k)
<1>. DEFINE longer == Append(q, m)
            L == Len(q)
            c2 == [i \in 0 .. L + 1 |-> IF i = L + 1 THEN d ELSE c[i]]
            n2 == [i \in 0 .. L + 1 |-> IF i = L + 1 THEN k ELSE n[i]]
<1>1. /\ longer \in Seq(Frame) /\ L \in Nat /\ Len(longer) = L + 1
      /\ \A i \in 1 .. L : longer[i] = q[i]
      /\ longer[L + 1] = m
  OBVIOUS
<1>2. /\ c \in [0 .. L -> Files \cup {NoFile}] /\ n \in [0 .. L -> Nat]
      /\ \A i \in 1 .. L : Reads(q[i], c[i - 1], n[i - 1], c[i], n[i])
      /\ \A i, j \in 0 .. L : i <= j => n[i] <= n[j]
      /\ Reads(m, c[L], n[L], d, k)
  BY DEF Reading
<1>. HIDE DEF longer, L
<1>3. \A i : i \in 0 .. L + 1 <=> i \in 0 .. L \/ i = L + 1
  BY <1>1
<1>4. \A i \in 0 .. L : i # L + 1 /\ i \in 0 .. L + 1
  BY <1>1
<1>5. /\ \A i \in 0 .. L : c2[i] = c[i] /\ n2[i] = n[i]
      /\ c2[L + 1] = d /\ n2[L + 1] = k
  BY <1>1, <1>4
<1>6. c2 \in [0 .. L + 1 -> Files \cup {NoFile}] /\ n2 \in [0 .. L + 1 -> Nat]
  BY <1>2, <1>3
<1>. HIDE DEF c2, n2
<1>7. n[L] <= k
  BY <1>1, <1>2 DEF Reads
<1>8. ASSUME NEW i \in 1 .. L + 1 PROVE Reads(longer[i], c2[i - 1], n2[i - 1], c2[i], n2[i])
  <2>1. CASE i = L + 1
    <3>1. i - 1 = L /\ L \in 0 .. L
      BY <1>1, <2>1
    <3>. QED  BY <1>1, <1>2, <1>5, <2>1, <3>1
  <2>2. CASE i # L + 1
    <3>1. i \in 1 .. L /\ i - 1 \in 0 .. L /\ i \in 0 .. L
      BY <1>1, <2>2
    <3>. QED  BY <1>1, <1>2, <1>5, <3>1
  <2>. QED  BY <2>1, <2>2
<1>9. ASSUME NEW i \in 0 .. L + 1, NEW j \in 0 .. L + 1, i <= j PROVE n2[i] <= n2[j]
  <2>1. CASE j = L + 1
    <3>1. CASE i = L + 1
      BY <1>5, <2>1, <3>1
    <3>2. CASE i # L + 1
      <4>1. i \in 0 .. L /\ L \in 0 .. L /\ i <= L
        BY <1>1, <3>2
      <4>2. n[i] <= n[L] /\ n[i] \in Nat /\ n[L] \in Nat
        BY <1>2, <4>1
      <4>. QED  BY <1>5, <1>7, <2>1, <4>1, <4>2
    <3>. QED  BY <3>1, <3>2
  <2>2. CASE j # L + 1
    <3>1. i \in 0 .. L /\ j \in 0 .. L
      BY <1>1, <1>9, <2>2
    <3>. QED  BY <1>2, <1>5, <1>9, <3>1
  <2>. QED  BY <2>1, <2>2
<1>10. Reading(longer, c2, n2)
  BY <1>1, <1>6, <1>8, <1>9 DEF Reading
<1>. QED  BY <1>5, <1>10 DEF GoesOn, longer, L

LEMMA ReadingOn ==
    ASSUME NEW q \in Seq(Frame), q # <<>>, NEW c, NEW n, Reading(q, c, n)
    PROVE  /\ Reads(Head(q), c[0], n[0], c[1], n[1])
           /\ \E c2, n2 :
                 /\ Reading(Tail(q), c2, n2)
                 /\ \A i \in 0 .. Len(q) - 1 : c2[i] = c[i + 1] /\ n2[i] = n[i + 1]
<1>. DEFINE rest == Tail(q)
            L == Len(q)
            c2 == [i \in 0 .. L - 1 |-> c[i + 1]]
            n2 == [i \in 0 .. L - 1 |-> n[i + 1]]
<1>1. /\ rest \in Seq(Frame) /\ L \in Nat \ {0} /\ Len(rest) = L - 1 /\ Head(q) = q[1]
      /\ \A i \in 1 .. L - 1 : rest[i] = q[i + 1]
  OBVIOUS
<1>2. /\ c \in [0 .. L -> Files \cup {NoFile}] /\ n \in [0 .. L -> Nat]
      /\ \A i \in 1 .. L : Reads(q[i], c[i - 1], n[i - 1], c[i], n[i])
      /\ \A i, j \in 0 .. L : i <= j => n[i] <= n[j]
  BY DEF Reading
<1>. HIDE DEF rest, L
<1>3. \A i \in 0 .. L - 1 : i \in Int /\ i + 1 \in 0 .. L
  BY <1>1
<1>4. \A i \in 0 .. L - 1 : c2[i] = c[i + 1] /\ n2[i] = n[i + 1]
  OBVIOUS
<1>5. c2 \in [0 .. L - 1 -> Files \cup {NoFile}] /\ n2 \in [0 .. L - 1 -> Nat]
  BY <1>2, <1>3
<1>. HIDE DEF c2, n2
<1>6. ASSUME NEW i \in 1 .. L - 1 PROVE Reads(rest[i], c2[i - 1], n2[i - 1], c2[i], n2[i])
  <2>1. /\ i + 1 \in 1 .. L /\ (i + 1) - 1 = i /\ (i - 1) + 1 = i
        /\ i \in 0 .. L - 1 /\ i - 1 \in 0 .. L - 1
    BY <1>1
  <2>2. Reads(q[i + 1], c[i], n[i], c[i + 1], n[i + 1])
    BY <1>2, <2>1
  <2>3. c2[i] = c[i + 1] /\ n2[i] = n[i + 1] /\ c2[i - 1] = c[i] /\ n2[i - 1] = n[i]
    BY <1>4, <2>1
  <2>. QED  BY <1>1, <2>2, <2>3
<1>7. ASSUME NEW i \in 0 .. L - 1, NEW j \in 0 .. L - 1, i <= j PROVE n2[i] <= n2[j]
  <2>1. i + 1 \in 0 .. L /\ j + 1 \in 0 .. L /\ i + 1 <= j + 1
    BY <1>3, <1>7
  <2>. QED  BY <1>2, <1>4, <2>1
<1>8. Reading(rest, c2, n2)
  BY <1>1, <1>5, <1>6, <1>7 DEF Reading
<1>9. Reads(q[1], c[0], n[0], c[1], n[1])
  <2>1. 1 \in 1 .. L /\ 1 - 1 = 0
    BY <1>1
  <2>. QED  BY <1>2, <2>1
<1>. QED  BY <1>1, <1>4, <1>8, <1>9 DEF rest, L

Announcing(r) == IF r.phase = "data" THEN r.sending ELSE NoFile
EndsSent(r) == IF r.eobSent THEN r.batch ELSE r.batch - 1

\* The frames on their way to s lead it, from what it has read, to what the
\* other has written; and each batch that has a file for the other will have
\* one for s.
Hears(s, c, n) ==
    LET q == chan[s]
        me == st[s]
        remote == st[Other(s)]
    IN  /\ Reading(q, c, n)
        /\ c[0] = me.current /\ me.rxEnded = 1 .. n[0]
        /\ c[Len(q)] = Announcing(remote) /\ n[Len(q)] = EndsSent(remote)
        /\ me.rxBatch \in {n[0], n[0] + 1} /\ me.rxBatch \in 1 .. remote.batch
        /\ \A i \in 1 .. Len(q) : q[i].t = "FILE" =>
              n[i - 1] + 1 \in remote.moved /\ n[i - 1] + 1 <= remote.batch
        /\ \A j \in remote.moved : j \in me.moved
              \/ \E i \in 1 .. Len(q) : q[i].t = "FILE" /\ n[i - 1] + 1 = j

Heard(s) == \E c, n : Hears(s, c, n)

\* A side's place in its batches
Steady(r) ==
    /\ r.batch >= 1
    /\ r.batch > 1 =>
          /\ multi /\ 1 .. r.batch - 1 \subseteq r.rxEnded
          /\ r.batch - 1 \in r.moved \/ r.rxBatch >= r.batch
    /\ r.eobSent => /\ r.phase \in {"wait", "stop"} /\ r.toSend = {}
                    /\ r.done \/ (r.phase = "wait" /\ ~r.wake)
    /\ r.wake => r.done \/ r.phase = "wait"
    /\ r.done => BatchOver(r) /\ ~Another(r) /\ r.batches = r.batch
    /\ ~r.hungUp

\* Whatever could end a batch is followed by check_done.
Checked(r) == r.owed = NothingOwed /\ ~r.done => ~BatchOver(r)

Unstarted(r) ==
    /\ r.current = NoFile /\ r.rxEnded = {} /\ r.rxBatch = 1 /\ r.batch = 1
    /\ r.moved = {} /\ ~r.eobSent /\ ~r.wake /\ r.awaiting = {}

BatchInv(s) ==
    /\ Steady(st[s]) /\ Checked(st[s])
    /\ ~Established(s) => Unstarted(st[s])
    /\ over[s] = "ok" => st[s].done /\ st[s].owed = NothingOwed

\* The handshake: which frames of it may still be on their way
Greeting == {"start", "address"}

OkWord == IF login.expected THEN "secure" ELSE "non-secure"

HelloInv ==
    /\ over["caller"] = "failed" => over["answerer"] = "failed"
    /\ over["answerer"] = "failed" => ~Established("answerer")
    /\ Established("caller") => Established("answerer")
    /\ Established("answerer") => st["caller"].phase \notin Greeting
    /\ \A s \in Sides :
          /\ Once(chan[s], Msg("ADR"))
          /\ \A w : Has(chan[s], FileMsg("ADR", w)) =>
                w = NoFile /\ st[s].phase \in Greeting /\ st[Other(s)].phase # "start"
          /\ st[s].phase \notin Greeting => st[Other(s)].phase # "start"
    /\ Once(chan["answerer"], FileMsg("PWD", login.password))
    /\ \A w : Has(chan["answerer"], FileMsg("PWD", w)) =>
          ~Established("answerer") /\ st["caller"].phase \notin Greeting
    /\ \A w : ~Has(chan["caller"], FileMsg("PWD", w))
    /\ Once(chan["caller"], FileMsg("OK", OkWord))
    /\ \A w : Has(chan["caller"], FileMsg("OK", w)) => Established("answerer") /\ ~Established("caller")
    /\ \A w : ~Has(chan["answerer"], FileMsg("OK", w)) /\ ~Has(chan["answerer"], FileMsg("ERR", w))
    /\ \A w : Has(chan["caller"], FileMsg("ERR", w)) => over["answerer"] = "failed"

\* Where a file of s is that waits for its answer: going there, there, coming
\* back
Going(s, f) == Has(chan[Other(s)], FileMsg("FILE", f)) \/ st[Other(s)].current = f
Owing(s, f) == st[Other(s)].owed \in {FileMsg("GOT", f), FileMsg("SKIP", f)}
Coming(s, f) == Has(chan[s], FileMsg("GOT", f)) \/ Has(chan[s], FileMsg("SKIP", f))

AnswerInv(s) ==
    /\ st[s].awaiting \subseteq st[s].files /\ st[s].toSend \cap st[s].awaiting = {}
    /\ \A w : Coming(s, w) => w \in Files
    /\ \A f \in Files :
          /\ f \in st[s].awaiting <=> Going(s, f) \/ Owing(s, f) \/ Coming(s, f)
          /\ ~(Going(s, f) /\ Owing(s, f)) /\ ~(Going(s, f) /\ Coming(s, f))
          /\ ~(Owing(s, f) /\ Coming(s, f))
          /\ Once(chan[s], FileMsg("GOT", f)) /\ Once(chan[s], FileMsg("SKIP", f))
          /\ ~(Has(chan[s], FileMsg("GOT", f)) /\ Has(chan[s], FileMsg("SKIP", f)))

EndInv == \A s \in Sides : (over[s] = "ok" => ~st[s].failed) /\ (st[s].failed => st[s].done)

\* Neither a fault nor the limit of batches so far
Smooth == ~faulty /\ ~outrun /\ \A s \in Sides : ~st[s].failed
NoneFailed == \A s \in Sides : over[s] # "failed"

StepInv ==
    /\ EndInv
    /\ Smooth =>
          /\ \A s \in Sides : BatchInv(s)
          /\ HelloInv
          /\ NoneFailed => \A s \in Sides : Heard(s) /\ AnswerInv(s)

LEMMA SideParts ==
    ASSUME NEW r \in SideRec
    PROVE  /\ r.batch \in Nat /\ r.rxBatch \in Nat /\ r.rxEnded \subseteq Nat /\ r.moved \subseteq Nat
           /\ r.eobSent \in BOOLEAN /\ r.current \in Files \cup {NoFile}
           /\ r.sending \in Files \cup {NoFile} /\ Announcing(r) \in Files \cup {NoFile}
           /\ r.awaiting \subseteq Files /\ r.toSend \subseteq Files /\ r.files \subseteq Files
           /\ r.done \in BOOLEAN /\ r.wake \in BOOLEAN /\ r.failed \in BOOLEAN /\ r.hungUp \in BOOLEAN
           /\ EndsSent(r) = (IF r.eobSent THEN r.batch ELSE r.batch - 1)
           /\ r.batches \in Nat
<1>1. /\ r.batch \in Nat /\ r.rxBatch \in Nat /\ r.rxEnded \subseteq Nat /\ r.moved \subseteq Nat
      /\ r.eobSent \in BOOLEAN /\ r.current \in Files \cup {NoFile}
      /\ r.sending \in Files \cup {NoFile}
      /\ r.awaiting \subseteq Files /\ r.toSend \subseteq Files /\ r.files \subseteq Files
      /\ r.done \in BOOLEAN /\ r.wake \in BOOLEAN /\ r.failed \in BOOLEAN /\ r.hungUp \in BOOLEAN
      /\ r.batches \in Nat
  BY DEF SideRec
<1>. QED  BY <1>1 DEF Announcing, EndsSent

\* A step of the other side that writes no frame s must read
LEMMA SenderSilent ==
    ASSUME NEW s \in Sides, Heard(s), UNCHANGED <<chan[s], st[s]>>, chan[s] \in Seq(Frame),
           LET old == st[Other(s)]
               new == st'[Other(s)]
           IN  /\ Announcing(new) = Announcing(old) /\ EndsSent(new) = EndsSent(old)
               /\ old.batch \in Nat /\ new.batch \in Nat /\ new.batch >= old.batch
               /\ old.moved \subseteq new.moved /\ new.moved \subseteq old.moved \cup st[s].moved
    PROVE  Heard(s)'
<1>1. PICK c, n : Hears(s, c, n)
  BY DEF Heard
<1>. DEFINE old == st[Other(s)]
            new == st'[Other(s)]
<1>2. /\ Announcing(new) = Announcing(old) /\ EndsSent(new) = EndsSent(old)
      /\ old.batch \in Nat /\ new.batch \in Nat /\ new.batch >= old.batch
      /\ old.moved \subseteq new.moved /\ new.moved \subseteq old.moved \cup st[s].moved
  OBVIOUS
<1>. DEFINE q == chan[s]
<1>3. /\ Reading(q, c, n)
      /\ c[0] = st[s].current /\ st[s].rxEnded = 1 .. n[0]
      /\ c[Len(q)] = Announcing(old) /\ n[Len(q)] = EndsSent(old)
      /\ st[s].rxBatch \in {n[0], n[0] + 1} /\ st[s].rxBatch \in 1 .. old.batch
      /\ \A i \in 1 .. Len(q) : q[i].t = "FILE" => n[i - 1] + 1 \in old.moved /\ n[i - 1] + 1 <= old.batch
      /\ \A j \in old.moved : j \in st[s].moved \/ \E i \in 1 .. Len(q) : q[i].t = "FILE" /\ n[i - 1] + 1 = j
  BY <1>1 DEF Hears
<1>n. \A i \in 1 .. Len(q) : n[i - 1] \in Nat
  <2>1. n \in [0 .. Len(q) -> Nat] /\ Len(q) \in Nat
    BY <1>3 DEF Reading
  <2>2. \A i \in 1 .. Len(q) : i - 1 \in 0 .. Len(q)
    BY <2>1
  <2>. QED  BY <2>1, <2>2
<1>. HIDE DEF old, new, q
<1>4. \A i \in 1 .. Len(q) : q[i].t = "FILE" => n[i - 1] + 1 \in new.moved /\ n[i - 1] + 1 <= new.batch
  <2>1. ASSUME NEW i \in 1 .. Len(q), q[i].t = "FILE"
        PROVE  n[i - 1] + 1 \in new.moved /\ n[i - 1] + 1 <= new.batch
    <3>1. n[i - 1] + 1 \in old.moved /\ n[i - 1] + 1 <= old.batch /\ n[i - 1] \in Nat
      BY <1>3, <1>n, <2>1
    <3>2. n[i - 1] + 1 <= new.batch
      BY <1>2, <3>1
    <3>. QED  BY <1>2, <3>1, <3>2
  <2>. QED  BY <2>1
<1>5. st[s].rxBatch \in 1 .. new.batch
  BY <1>2, <1>3
<1>6. \A j \in new.moved : j \in st[s].moved \/ \E i \in 1 .. Len(q) : q[i].t = "FILE" /\ n[i - 1] + 1 = j
  BY <1>2, <1>3
<1>7. Hears(s, c, n)'
  BY <1>2, <1>3, <1>4, <1>5, <1>6 DEF Hears, old, new, q
<1>. QED  BY <1>7 DEF Heard

\* The other side writes a frame.
LEMMA SenderWrites ==
    ASSUME NEW s \in Sides, Heard(s), UNCHANGED st[s], chan[s] \in Seq(Frame), NEW m \in Frame,
           chan'[s] = Append(chan[s], m),
           st[Other(s)] \in SideRec, st'[Other(s)] \in SideRec, st[Other(s)].batch >= 1,
           LET old == st[Other(s)]
               new == st'[Other(s)]
           IN  /\ Reads(m, Announcing(old), EndsSent(old), Announcing(new), EndsSent(new))
               /\ new.batch >= old.batch
               /\ old.moved \subseteq new.moved
               /\ m.t = "FILE" => EndsSent(old) + 1 \in new.moved /\ EndsSent(old) + 1 <= new.batch
               /\ \A j \in new.moved : j \in old.moved \cup st[s].moved
                     \/ (m.t = "FILE" /\ j = EndsSent(old) + 1)
    PROVE  Heard(s)'
<1>1. PICK c, n : Hears(s, c, n)
  BY DEF Heard
<1>. DEFINE old == st[Other(s)]
            new == st'[Other(s)]
            q == chan[s]
            L == Len(q)
<1>2. /\ Reads(m, Announcing(old), EndsSent(old), Announcing(new), EndsSent(new))
      /\ new.batch >= old.batch
      /\ old.moved \subseteq new.moved
      /\ m.t = "FILE" => EndsSent(old) + 1 \in new.moved /\ EndsSent(old) + 1 <= new.batch
      /\ \A j \in new.moved : j \in old.moved \cup st[s].moved
            \/ (m.t = "FILE" /\ j = EndsSent(old) + 1)
  OBVIOUS
<1>3. /\ Reading(q, c, n)
      /\ c[0] = st[s].current /\ st[s].rxEnded = 1 .. n[0]
      /\ c[L] = Announcing(old) /\ n[L] = EndsSent(old)
      /\ st[s].rxBatch \in {n[0], n[0] + 1} /\ st[s].rxBatch \in 1 .. old.batch
      /\ \A i \in 1 .. L : q[i].t = "FILE" => n[i - 1] + 1 \in old.moved /\ n[i - 1] + 1 <= old.batch
      /\ \A j \in old.moved : j \in st[s].moved \/ \E i \in 1 .. L : q[i].t = "FILE" /\ n[i - 1] + 1 = j
  BY <1>1 DEF Hears
<1>4. /\ Announcing(new) \in Files \cup {NoFile} /\ EndsSent(old) \in Int
      /\ old.batch \in Nat /\ new.batch \in Nat
      /\ new.eobSent \in BOOLEAN /\ old.eobSent \in BOOLEAN
  BY SideParts DEF EndsSent
<1>5. EndsSent(new) \in Nat
  BY <1>2, <1>4 DEF EndsSent
<1>6. q \in Seq(Frame) /\ L \in Nat
  OBVIOUS
<1>. HIDE DEF old, new, q
<1>z. Reads(m, c[L], n[L], Announcing(new), EndsSent(new))
  BY <1>2, <1>3
<1>7. PICK c2, n2 : /\ Reading(Append(q, m), c2, n2)
                    /\ \A i \in 0 .. L : c2[i] = c[i] /\ n2[i] = n[i]
                    /\ c2[L + 1] = Announcing(new) /\ n2[L + 1] = EndsSent(new)
  <2>1. q \in Seq(Frame) /\ Reading(q, c, n) /\ Announcing(new) \in Files \cup {NoFile}
    BY <1>3, <1>4, <1>6
  <2>2. GoesOn(q, c, n, m, Announcing(new), EndsSent(new))
    BY <1>5, <1>z, <2>1, ReadingMore, Zenon
  <2>. QED  BY <2>2 DEF GoesOn
<1>. DEFINE longer == Append(q, m)
<1>8. /\ Len(longer) = L + 1 /\ longer[L + 1] = m /\ \A i \in 1 .. L : longer[i] = q[i]
  BY <1>6
<1>r. n \in [0 .. L -> Nat]
  BY <1>3 DEF Reading
<1>. HIDE DEF longer, L
<1>9. \A i \in 1 .. L : n[i - 1] \in Nat /\ i - 1 \in 0 .. L
  <2>1. \A i \in 1 .. L : i - 1 \in 0 .. L
    BY <1>6
  <2>. QED  BY <1>r, <2>1
<1>10. 0 \in 0 .. L /\ L \in 0 .. L /\ (L + 1) - 1 = L
  BY <1>6
<1>11. ASSUME NEW i \in 1 .. L + 1, longer[i].t = "FILE"
       PROVE  n2[i - 1] + 1 \in new.moved /\ n2[i - 1] + 1 <= new.batch
  <2>1. CASE i = L + 1
    BY <1>2, <1>3, <1>7, <1>8, <1>10, <1>11, <2>1
  <2>2. CASE i # L + 1
    <3>1. i \in 1 .. L
      BY <1>6, <2>2
    <3>2. n[i - 1] + 1 \in old.moved /\ n[i - 1] + 1 <= old.batch /\ n2[i - 1] = n[i - 1]
      BY <1>3, <1>7, <1>8, <1>9, <1>11, <3>1
    <3>3. n[i - 1] + 1 <= new.batch
      BY <1>2, <1>4, <1>9, <3>1, <3>2
    <3>. QED  BY <1>2, <3>2, <3>3
  <2>. QED  BY <2>1, <2>2
<1>12. ASSUME NEW j \in new.moved
       PROVE  j \in st[s].moved \/ \E i \in 1 .. L + 1 : longer[i].t = "FILE" /\ n2[i - 1] + 1 = j
  <2>1. CASE j \in old.moved /\ j \notin st[s].moved
    <3>1. PICK i \in 1 .. L : q[i].t = "FILE" /\ n[i - 1] + 1 = j
      BY <1>3, <2>1
    <3>2. i \in 1 .. L + 1 /\ longer[i].t = "FILE" /\ n2[i - 1] = n[i - 1]
      BY <1>6, <1>7, <1>8, <1>9, <3>1
    <3>. QED  BY <3>1, <3>2
  <2>2. CASE m.t = "FILE" /\ j = EndsSent(old) + 1
    <3>1. L + 1 \in 1 .. L + 1 /\ longer[L + 1].t = "FILE" /\ n2[(L + 1) - 1] + 1 = j
      BY <1>3, <1>6, <1>7, <1>8, <1>10, <2>2
    <3>. QED  BY <3>1
  <2>. QED  BY <1>2, <2>1, <2>2
<1>13. /\ c2[0] = st[s].current /\ st[s].rxEnded = 1 .. n2[0]
       /\ st[s].rxBatch \in {n2[0], n2[0] + 1} /\ st[s].rxBatch \in 1 .. new.batch
  <2>1. c2[0] = c[0] /\ n2[0] = n[0]
    BY <1>7, <1>10
  <2>2. st[s].rxBatch \in 1 .. new.batch
    BY <1>2, <1>3, <1>4
  <2>. QED  BY <1>3, <2>1, <2>2
<1>14. Hears(s, c2, n2)'
  BY <1>7, <1>8, <1>11, <1>12, <1>13 DEF Hears, old, new, q, longer, L
<1>. QED  BY <1>14 DEF Heard

\* A step of s that reads none of the other side's frames
LEMMA ReceiverSilent ==
    ASSUME NEW s \in Sides, Heard(s), UNCHANGED <<chan[s], st[Other(s)]>>,
           st'[s].current = st[s].current, st'[s].rxEnded = st[s].rxEnded,
           st'[s].rxBatch = st[s].rxBatch, st[s].moved \subseteq st'[s].moved
    PROVE  Heard(s)'
<1>1. PICK c, n : Hears(s, c, n)
  BY DEF Heard
<1>2. Hears(s, c, n)'
  BY <1>1 DEF Hears
<1>. QED  BY <1>2 DEF Heard

\* s reads a frame.
LEMMA ReceiverReads ==
    ASSUME NEW s \in Sides, NEW c, NEW n, Hears(s, c, n), UNCHANGED st[Other(s)],
           chan[s] \in Seq(Frame), chan[s] # <<>>, chan'[s] = Tail(chan[s]),
           st'[s].current = c[1], st'[s].rxEnded = 1 .. n[1], st'[s].rxBatch \in {n[1], n[1] + 1},
           st'[s].rxBatch \in 1 .. st[Other(s)].batch, st[s].moved \subseteq st'[s].moved,
           Head(chan[s]).t = "FILE" => n[0] + 1 \in st'[s].moved
    PROVE  Heard(s)'
<1>. DEFINE o == st[Other(s)]
            q == chan[s]
            L == Len(q)
            rest == Tail(q)
<1>1. /\ Reading(q, c, n)
      /\ c[L] = Announcing(o) /\ n[L] = EndsSent(o)
      /\ \A i \in 1 .. L : q[i].t = "FILE" => n[i - 1] + 1 \in o.moved /\ n[i - 1] + 1 <= o.batch
      /\ \A j \in o.moved : j \in st[s].moved \/ \E i \in 1 .. L : q[i].t = "FILE" /\ n[i - 1] + 1 = j
  BY DEF Hears
<1>2. /\ L \in Nat \ {0} /\ Len(rest) = L - 1 /\ Head(q) = q[1]
      /\ \A i \in 1 .. L - 1 : rest[i] = q[i + 1]
  OBVIOUS
<1>. HIDE DEF q
<1>3. PICK c2, n2 : /\ Reading(rest, c2, n2)
                    /\ \A i \in 0 .. L - 1 : c2[i] = c[i + 1] /\ n2[i] = n[i + 1]
  BY <1>1, ReadingOn DEF q
<1>. HIDE DEF o, L, rest
<1>4. /\ \A i \in 1 .. L - 1 : i + 1 \in 1 .. L /\ (i + 1) - 1 = i /\ (i - 1) + 1 = i /\ i - 1 \in 0 .. L - 1
      /\ 0 \in 0 .. L - 1 /\ L - 1 \in 0 .. L - 1 /\ (L - 1) + 1 = L /\ 0 + 1 = 1
      /\ \A i \in 1 .. L : i = 1 \/ (i - 1 \in 1 .. L - 1 /\ (i - 1) + 1 = i)
  BY <1>2
<1>5. c2[0] = c[1] /\ n2[0] = n[1] /\ c2[L - 1] = c[L] /\ n2[L - 1] = n[L]
  BY <1>3, <1>4
<1>6. ASSUME NEW i \in 1 .. L - 1, rest[i].t = "FILE"
      PROVE  n2[i - 1] + 1 \in o.moved /\ n2[i - 1] + 1 <= o.batch
  <2>1. n2[i - 1] = n[i] /\ q[i + 1].t = "FILE" /\ i + 1 \in 1 .. L /\ (i + 1) - 1 = i
    BY <1>2, <1>3, <1>4, <1>6
  <2>2. n[(i + 1) - 1] + 1 \in o.moved /\ n[(i + 1) - 1] + 1 <= o.batch
    BY <1>1, <2>1
  <2>. QED  BY <2>1, <2>2
<1>7. ASSUME NEW j \in o.moved, j \notin st'[s].moved
      PROVE  \E i \in 1 .. L - 1 : rest[i].t = "FILE" /\ n2[i - 1] + 1 = j
  <2>1. PICK i \in 1 .. L : q[i].t = "FILE" /\ n[i - 1] + 1 = j
    BY <1>1, <1>7
  <2>2. i # 1
    <3>1. SUFFICES ASSUME i = 1 PROVE FALSE
      OBVIOUS
    <3>2. n[0] + 1 = j /\ Head(q).t = "FILE"
      BY <1>2, <2>1, <3>1
    <3>. QED  BY <1>7, <3>2 DEF q
  <2>3. i - 1 \in 1 .. L - 1 /\ (i - 1) + 1 = i /\ (i - 1) - 1 \in 0 .. L - 1 /\ ((i - 1) - 1) + 1 = i - 1
    BY <1>2, <1>4, <2>2
  <2>4. rest[i - 1].t = "FILE" /\ n2[(i - 1) - 1] = n[i - 1]
    BY <1>2, <1>3, <2>1, <2>3
  <2>. QED  BY <2>1, <2>3, <2>4
<1>8. Hears(s, c2, n2)'
  BY <1>1, <1>2, <1>3, <1>5, <1>6, <1>7 DEF Hears, o, q, L, rest
<1>. QED  BY <1>8 DEF Heard

LEMMA FrameKinds ==
    ASSUME NEW q \in Seq(Frame), q # <<>>
    PROVE  /\ Head(q) \in Frame /\ Has(q, FileMsg(Head(q).t, Head(q).f))
           /\ Head(q).t \in {"ADR", "PWD", "OK", "ERR", "FILE", "DATA", "GOT", "SKIP", "EOB"}
<1>1. Head(q) \in Frame /\ Has(q, Head(q))
  BY HasTail
<1>2. Head(q) = FileMsg(Head(q).t, Head(q).f)
  BY <1>1, FrameParts
<1>3. Head(q).t \in {"ADR", "PWD", "OK", "ERR", "FILE", "DATA", "GOT", "SKIP", "EOB"}
  BY <1>1 DEF Frame
<1>. QED  BY <1>1, <1>2, <1>3

\* What s may rely on while it reads
LEMMA Legal ==
    ASSUME SessionInv, NEW s \in Sides, Established(s), HelloInv, NoneFailed, chan[s] # <<>>
    PROVE  Head(chan[s]).t \in {"FILE", "DATA", "GOT", "SKIP", "EOB"}
<1>1. chan[s] \in Seq(Frame) /\ (s = "caller" \/ s = "answerer")
  BY DEF SessionInv, SessionType, Sides
<1>. DEFINE m == Head(chan[s])
<1>2. Has(chan[s], FileMsg(m.t, m.f))
      /\ m.t \in {"ADR", "PWD", "OK", "ERR", "FILE", "DATA", "GOT", "SKIP", "EOB"}
  BY <1>1, FrameKinds
<1>. HIDE DEF m
<1>3. st[s].phase \notin Greeting
  BY DEF Established, Greeting
<1>4. m.t # "ADR"
  BY <1>2, <1>3 DEF HelloInv
<1>5. m.t # "PWD" /\ m.t # "OK"
  BY <1>1, <1>2 DEF HelloInv
<1>6. m.t # "ERR"
  BY <1>1, <1>2 DEF HelloInv, NoneFailed, Sides
<1>. QED  BY <1>2, <1>4, <1>5, <1>6 DEF m

\* What the frames on their way to s say about the batches of both
LEMMA Distance ==
    ASSUME SessionInv, NEW s \in Sides, NEW c, NEW n, Hears(s, c, n)
    PROVE  /\ n[0] \in Nat /\ n[0] <= EndsSent(st[Other(s)])
           /\ EndsSent(st[Other(s)]) <= st[Other(s)].batch
           /\ \A j \in st[Other(s)].moved : j <= n[0] => j \in st[s].moved
           /\ chan[s] # <<>> =>
                 /\ Reads(Head(chan[s]), c[0], n[0], c[1], n[1])
                 /\ n[1] \in Nat /\ n[1] <= EndsSent(st[Other(s)])
                 /\ c[1] \in Files \cup {NoFile}
                 /\ Head(chan[s]).t = "FILE" =>
                       n[0] + 1 \in st[Other(s)].moved /\ n[0] + 1 <= st[Other(s)].batch
           /\ chan[s] = <<>> => st[s].current = Announcing(st[Other(s)]) /\ n[0] = EndsSent(st[Other(s)])
<1>. DEFINE o == st[Other(s)]
            q == chan[s]
            L == Len(q)
<1>1. q \in Seq(Frame) /\ L \in Nat /\ o \in SideRec
  BY TwoSides DEF SessionInv, SessionType
<1>2. /\ Reading(q, c, n)
      /\ c[0] = st[s].current
      /\ c[L] = Announcing(o) /\ n[L] = EndsSent(o)
      /\ \A i \in 1 .. L : q[i].t = "FILE" => n[i - 1] + 1 \in o.moved /\ n[i - 1] + 1 <= o.batch
      /\ \A j \in o.moved : j \in st[s].moved \/ \E i \in 1 .. L : q[i].t = "FILE" /\ n[i - 1] + 1 = j
  BY DEF Hears
<1>3. /\ c \in [0 .. L -> Files \cup {NoFile}] /\ n \in [0 .. L -> Nat]
      /\ \A i, k \in 0 .. L : i <= k => n[i] <= n[k]
  BY <1>2 DEF Reading
<1>4. q # <<>> => /\ Reads(Head(q), c[0], n[0], c[1], n[1])
                  /\ L # 0 /\ Head(q) = q[1]
  BY <1>1, <1>2, ReadingOn
<1>e. q = <<>> => L = 0
  OBVIOUS
<1>. HIDE DEF o, q, L
<1>5. n[0] \in Nat /\ n[0] <= n[L]
  BY <1>1, <1>3
<1>6. EndsSent(o) <= o.batch
  BY <1>1, SideParts
<1>7. ASSUME NEW j \in o.moved, j <= n[0] PROVE j \in st[s].moved
  <2>1. SUFFICES ASSUME NEW i \in 1 .. L, n[i - 1] + 1 = j PROVE FALSE
    BY <1>2
  <2>2. i - 1 \in 0 .. L /\ 0 \in 0 .. L /\ 0 <= i - 1
    BY <1>1
  <2>3. n[0] <= n[i - 1] /\ n[i - 1] \in Nat
    BY <1>3, <2>2
  <2>. QED  BY <1>5, <1>7, <2>1, <2>3
<1>8. ASSUME q # <<>>
      PROVE  /\ n[1] \in Nat /\ n[1] <= n[L] /\ c[1] \in Files \cup {NoFile}
             /\ Head(q).t = "FILE" => n[0] + 1 \in o.moved /\ n[0] + 1 <= o.batch
  <2>1. 1 \in 0 .. L /\ L \in 0 .. L /\ 1 <= L /\ 1 \in 1 .. L /\ 1 - 1 = 0
    BY <1>1, <1>4, <1>8
  <2>2. n[1] \in Nat /\ n[1] <= n[L] /\ c[1] \in Files \cup {NoFile}
    BY <1>3, <2>1
  <2>3. q[1].t = "FILE" => n[1 - 1] + 1 \in o.moved /\ n[1 - 1] + 1 <= o.batch
    BY <1>2, <2>1
  <2>. QED  BY <1>4, <1>8, <2>1, <2>2, <2>3
<1>9. q = <<>> => st[s].current = Announcing(o) /\ n[0] = EndsSent(o)
  BY <1>2, <1>e
<1>. QED  BY <1>2, <1>4, <1>5, <1>6, <1>7, <1>8, <1>9 DEF o, q

\* Once s is done, so is the other's part in the session: it is in the same
\* batch, has ended it and goes on to no other, and has written nothing since.
LEMMA DoneTogether ==
    ASSUME SessionInv, StepInv, Smooth, NoneFailed, NEW s \in Sides, st[s].done
    PROVE  LET o == Other(s) IN
           /\ chan[s] = <<>> /\ st[o].batch = st[s].batch /\ st[o].eobSent /\ ~Another(st[o])
           /\ st[o].phase \in {"wait", "stop"}
           /\ st[s].awaiting = {}
<1>. DEFINE o == Other(s)
            me == st[s]
            remote == st[Other(s)]
            b == st[s].batch
<1>1. o \in Sides /\ o # s /\ Other(o) = s /\ me \in SideRec /\ remote \in SideRec
  BY TwoSides DEF SessionInv, SessionType
<1>2. /\ Steady(me) /\ Steady(remote) /\ HelloInv /\ AnswerInv(s)
      /\ BatchOver(me) /\ ~Another(me)
  BY <1>1 DEF StepInv, BatchInv, Steady
<1>3. PICK c, n : Hears(s, c, n)
  BY DEF StepInv, Heard
<1>4. PICK d, k : Hears(o, d, k)
  BY <1>1 DEF StepInv, Heard
<1>5. /\ n[0] \in Nat /\ n[0] <= EndsSent(remote) /\ EndsSent(remote) <= remote.batch
      /\ \A j \in remote.moved : j <= n[0] => j \in me.moved
      /\ chan[s] # <<>> =>
            /\ Reads(Head(chan[s]), c[0], n[0], c[1], n[1])
            /\ n[1] \in Nat /\ n[1] <= EndsSent(remote)
            /\ Head(chan[s]).t = "FILE" => n[0] + 1 <= remote.batch
  BY <1>3, Distance
<1>6. k[0] \in Nat /\ k[0] <= EndsSent(me)
  BY <1>1, <1>4, Distance
<1>7. /\ me.rxEnded = 1 .. n[0] /\ c[0] = me.current /\ me.rxBatch \in {n[0], n[0] + 1}
      /\ me.rxBatch \in 1 .. remote.batch
  BY <1>3 DEF Hears
<1>8. remote.rxEnded = 1 .. k[0] /\ remote.rxBatch \in 1 .. me.batch
  BY <1>1, <1>4 DEF Hears
<1>. HIDE DEF o, me, remote, b
<1>9. /\ b = me.batch /\ b \in Nat /\ b >= 1 /\ me.eobSent /\ b \in me.rxEnded /\ EndsSent(me) = b
      /\ me.awaiting = {} /\ ~(me.current # NoFile /\ me.rxBatch = b)
      /\ ~(multi /\ (b \in me.moved \/ me.rxBatch > b))
  BY <1>1, <1>2, SideParts DEF BatchOver, Another, Steady, b, me
<1>10. remote.batch \in Nat /\ remote.eobSent \in BOOLEAN /\ remote.moved \subseteq Nat
       /\ EndsSent(remote) = (IF remote.eobSent THEN remote.batch ELSE remote.batch - 1)
  BY <1>1, SideParts
<1>11. b <= n[0] /\ b <= remote.batch
  <2>1. b <= n[0]
    BY <1>5, <1>7, <1>9
  <2>2. EndsSent(remote) \in Int
    BY <1>10
  <2>. QED  BY <1>5, <1>9, <1>10, <2>1, <2>2
<1>12. remote.batch <= b + 1
  <2>1. CASE remote.batch > 1
    <3>1. remote.batch - 1 \in 1 .. remote.batch - 1
      BY <1>10, <2>1
    <3>2. remote.batch - 1 \in 1 .. k[0]
      BY <1>2, <1>8, <2>1, <3>1 DEF Steady
    <3>. QED  BY <1>6, <1>9, <1>10, <3>2
  <2>2. CASE ~(remote.batch > 1)
    BY <1>9, <1>10, <2>2
  <2>. QED  BY <2>1, <2>2
<1>13. ~(multi /\ b \in remote.moved)
  BY <1>5, <1>9, <1>11
<1>14. remote.batch # b + 1
  <2>. SUFFICES ASSUME remote.batch = b + 1 PROVE FALSE
    OBVIOUS
  <2>1. remote.batch > 1 /\ remote.batch - 1 = b
    BY <1>9
  <2>2. multi /\ (b \in remote.moved \/ remote.rxBatch >= b + 1)
    BY <1>2, <2>1 DEF Steady
  <2>. QED  BY <1>8, <1>9, <1>13, <2>2
<1>15. remote.batch = b
  BY <1>9, <1>10, <1>11, <1>12, <1>14
<1>16. remote.eobSent /\ n[0] = b
  BY <1>5, <1>9, <1>10, <1>11, <1>15
<1>17. ~Another(remote)
  <2>1. ~(remote.rxBatch > b)
    BY <1>8, <1>9
  <2>. QED  BY <1>13, <1>15, <2>1 DEF Another
<1>18. chan[s] = <<>>
  <2>. SUFFICES ASSUME chan[s] # <<>> PROVE FALSE
    OBVIOUS
  <2>. DEFINE m == Head(chan[s])
  <2>0. Established(s)
    BY DEF SessionInv, FilesInv, SideInv
  <2>1. m.t \in {"FILE", "DATA", "GOT", "SKIP", "EOB"}
    BY <1>2, <2>0, Legal
  <2>2. Has(chan[s], FileMsg(m.t, m.f))
    BY FrameKinds DEF SessionInv, SessionType
  <2>3. c[0] = NoFile
    BY <1>7, <1>9, <1>15, <1>16
  <2>4. EndsSent(remote) = b
    BY <1>10, <1>15, <1>16
  <2>. HIDE DEF m
  <2>5. /\ Reads(m, c[0], n[0], c[1], n[1]) /\ n[1] <= b /\ n[1] \in Nat
        /\ m.t # "FILE"
    BY <1>5, <1>9, <1>15, <1>16, <2>4 DEF m
  <2>6. m.t # "EOB"
    BY <1>9, <1>16, <2>5 DEF Reads
  <2>7. m.t = "DATA" => m.f \in Files /\ m.f = NoFile
    BY <2>2, <2>3, <2>5 DEF Reads, SessionInv, FilesInv, SideInv
  <2>8. m.t \notin {"GOT", "SKIP"}
    <3>1. SUFFICES ASSUME Coming(s, m.f) PROVE FALSE
      BY <2>2 DEF Coming
    <3>2. m.f \in me.awaiting
      BY <1>2, <3>1 DEF AnswerInv, me
    <3>. QED  BY <1>9, <3>2
  <2>. QED  BY <2>1, <2>5, <2>6, <2>7, <2>8, BinkpAssumption DEF BinkpAssumption
<1>19. remote.phase \in {"wait", "stop"}
  BY <1>2, <1>16 DEF Steady
<1>. QED  BY <1>9, <1>15, <1>16, <1>17, <1>18, <1>19 DEF o, me, remote, b

\* A side that has been read to the end and has closed leaves nothing to wait
\* for.
LEMMA NobodyLeft ==
    ASSUME SessionInv, StepInv, Smooth, NoneFailed, NEW s \in Sides, Established(s),
           ~Runs(Other(s)), chan[s] = <<>>, st[s].owed = NothingOwed
    PROVE  st[s].done
<1>. SUFFICES ASSUME ~st[s].done PROVE FALSE
  BY DEF SessionInv, SessionType, SideRec
<1>. DEFINE o == Other(s)
            me == st[s]
            remote == st[Other(s)]
            b == st[s].batch
<1>1. o \in Sides /\ o # s /\ Other(o) = s /\ me \in SideRec /\ remote \in SideRec
  BY TwoSides DEF SessionInv, SessionType
<1>2. over[o] = "ok"
  BY <1>1 DEF Runs, NoneFailed, SessionInv, SessionType
<1>3. /\ Steady(me) /\ Steady(remote) /\ AnswerInv(s) /\ Checked(me)
      /\ remote.done /\ remote.owed = NothingOwed
  BY <1>1, <1>2 DEF StepInv, BatchInv
<1>4. /\ chan[o] = <<>> /\ me.batch = remote.batch /\ me.eobSent /\ ~Another(me)
      /\ me.phase \in {"wait", "stop"}
  BY <1>1, <1>3, DoneTogether
<1>5. /\ remote.eobSent /\ remote.phase \in {"wait", "stop"}
  BY <1>3 DEF Steady, BatchOver
<1>6. PICK c, n : Hears(s, c, n)
  BY DEF StepInv, Heard
<1>7. PICK d, k : Hears(o, d, k)
  BY <1>1 DEF StepInv, Heard
<1>8. me.current = Announcing(remote) /\ n[0] = EndsSent(remote) /\ me.rxEnded = 1 .. n[0]
  BY <1>6, Distance DEF Hears
<1>9. remote.current = Announcing(me)
  BY <1>1, <1>4, <1>7, Distance
<1>10. me.current = NoFile /\ remote.current = NoFile
  BY <1>4, <1>5, <1>8, <1>9 DEF Announcing
<1>11. me.batch \in Nat /\ me.batch >= 1 /\ n[0] = me.batch
  BY <1>1, <1>3, <1>4, <1>5, <1>8, SideParts DEF EndsSent, Steady
<1>12. me.awaiting = {}
  <2>. SUFFICES ASSUME NEW f \in me.awaiting PROVE FALSE
    OBVIOUS
  <2>1. f \in Files
    BY <1>1 DEF SideRec
  <2>2. Going(s, f) \/ Owing(s, f) \/ Coming(s, f)
    BY <1>3, <2>1 DEF AnswerInv
  <2>3. f # NoFile
    BY <2>1, BinkpAssumption DEF BinkpAssumption
  <2>4. ~Going(s, f) /\ ~Coming(s, f)
    BY <1>4, <1>10, <2>3, HasEmpty DEF Going, Coming
  <2>5. ~Owing(s, f)
    BY <1>3, <2>3 DEF Owing, NothingOwed, Msg, FileMsg
  <2>. QED  BY <2>2, <2>4, <2>5
<1>13. BatchOver(me)
  BY <1>3, <1>4, <1>8, <1>10, <1>11, <1>12 DEF BatchOver, Steady
<1>. QED  BY <1>3, <1>13 DEF Checked

-----------------------------------------------------------------------------
(* What every step of an established side has in common.                     *)

LEMMA HasRest ==
    ASSUME NEW q \in Seq(Frame), q # <<>>, NEW m, Has(q, m), m # Head(q)
    PROVE  Has(Tail(q), m)
<1>1. PICK i \in 1 .. Len(q) : q[i] = m
  BY DEF Has
<1>2. /\ Len(q) \in Nat \ {0} /\ Len(Tail(q)) = Len(q) - 1 /\ Head(q) = q[1]
      /\ \A k \in 1 .. Len(q) - 1 : Tail(q)[k] = q[k + 1]
  OBVIOUS
<1>3. i # 1
  BY <1>1, <1>2
<1>4. i - 1 \in 1 .. Len(q) - 1 /\ (i - 1) + 1 = i
  BY <1>2, <1>3
<1>5. Tail(q)[i - 1] = m
  BY <1>1, <1>2, <1>4
<1>. QED  BY <1>2, <1>4, <1>5 DEF Has

\* check_done neither reads nor writes a frame, and leaves a side in step.
LEMMA CheckKeeps ==
    ASSUME NEW r \in SideRec
    PROVE  LET x == CheckDone(r) IN
           /\ x.rxBatch = r.rxBatch /\ x.rxEnded = r.rxEnded /\ x.moved = r.moved
           /\ x.hungUp = r.hungUp /\ x.batch >= r.batch
           /\ Announcing(x) = Announcing(r) /\ EndsSent(x) = EndsSent(r)
           /\ r.failed => x.failed
           /\ (r.failed => r.done) => (x.failed => x.done)
           /\ Steady(r) /\ ~x.failed => Steady(x) /\ Checked(x)
<1>. DEFINE x == CheckDone(r)
<1>1. r.batch \in Nat /\ r.rxBatch \in Nat /\ r.eobSent \in BOOLEAN /\ r.done \in BOOLEAN
  BY SideParts
<1>2. CASE r.done \/ ~BatchOver(r)
  <2>1. x = r
    BY <1>2 DEF CheckDone
  <2>2. Checked(r)
    BY <1>2 DEF Checked
  <2>. QED  BY <1>1, <2>1, <2>2
<1>3. CASE ~r.done /\ BatchOver(r) /\ ~Another(r)
  <2>1. x = [r EXCEPT !.batches = r.batch, !.done = TRUE, !.wake = TRUE]
    BY <1>3 DEF CheckDone
  <2>2. /\ x.rxBatch = r.rxBatch /\ x.rxEnded = r.rxEnded /\ x.moved = r.moved
        /\ x.hungUp = r.hungUp /\ x.batch = r.batch /\ x.eobSent = r.eobSent
        /\ x.phase = r.phase /\ x.sending = r.sending /\ x.failed = r.failed
        /\ x.awaiting = r.awaiting /\ x.toSend = r.toSend /\ x.current = r.current
        /\ x.done /\ x.batches = r.batch
    BY <2>1 DEF SideRec
  <2>. HIDE DEF x
  <2>3. BatchOver(x) /\ ~Another(x)
    BY <1>3, <2>2 DEF BatchOver, Another
  <2>4. Steady(r) => Steady(x)
    BY <2>2, <2>3 DEF Steady
  <2>. QED  BY <1>1, <2>2, <2>4 DEF Checked, Announcing, EndsSent, x
<1>4. CASE ~r.done /\ BatchOver(r) /\ Another(r) /\ r.batch >= MaxBatches
  <2>1. x = [r EXCEPT !.batches = r.batch, !.failed = TRUE, !.done = TRUE, !.wake = TRUE]
    BY <1>4 DEF CheckDone
  <2>2. /\ x.rxBatch = r.rxBatch /\ x.rxEnded = r.rxEnded /\ x.moved = r.moved
        /\ x.hungUp = r.hungUp /\ x.batch = r.batch /\ x.eobSent = r.eobSent
        /\ x.phase = r.phase /\ x.sending = r.sending /\ x.failed /\ x.done
    BY <2>1 DEF SideRec
  <2>. HIDE DEF x
  <2>. QED  BY <1>1, <2>2 DEF Announcing, EndsSent, x
<1>5. CASE ~r.done /\ BatchOver(r) /\ Another(r) /\ ~(r.batch >= MaxBatches)
  <2>1. x = [r EXCEPT !.batches = r.batch, !.batch = r.batch + 1, !.eobSent = FALSE, !.wake = TRUE]
    BY <1>5 DEF CheckDone
  <2>2. /\ x.rxBatch = r.rxBatch /\ x.rxEnded = r.rxEnded /\ x.moved = r.moved
        /\ x.hungUp = r.hungUp /\ x.batch = r.batch + 1 /\ ~x.eobSent
        /\ x.phase = r.phase /\ x.sending = r.sending /\ x.failed = r.failed /\ x.done = r.done
    BY <2>1 DEF SideRec
  <2>. HIDE DEF x
  <2>3. r.eobSent /\ r.batch \in r.rxEnded /\ multi /\ (r.batch \in r.moved \/ r.rxBatch > r.batch)
    BY <1>5 DEF BatchOver, Another
  <2>4. ASSUME Steady(r) PROVE Steady(x)
    <3>1. r.batch >= 1 /\ r.phase = "wait" /\ ~r.hungUp
      BY <1>5, <2>3, <2>4 DEF Steady
    <3>2. 1 .. r.batch \subseteq r.rxEnded
      <4>1. CASE r.batch > 1
        <5>1. 1 .. r.batch - 1 \subseteq r.rxEnded
          BY <2>4, <4>1 DEF Steady
        <5>. QED  BY <1>1, <2>3, <5>1
      <4>2. CASE ~(r.batch > 1)
        BY <1>1, <2>3, <3>1, <4>2
      <4>. QED  BY <4>1, <4>2
    <3>3. x.batch - 1 = r.batch /\ x.batch >= 1
      BY <1>1, <2>2
    <3>4. x.batch - 1 \in x.moved \/ x.rxBatch >= x.batch
      BY <1>1, <2>2, <2>3, <3>3
    <3>. QED  BY <1>5, <2>2, <2>3, <3>1, <3>2, <3>3, <3>4 DEF Steady
  <2>5. ~BatchOver(x)
    BY <2>2 DEF BatchOver
  <2>. QED  BY <1>1, <2>2, <2>3, <2>4, <2>5 DEF Checked, Announcing, EndsSent, x
<1>. QED  BY <1>2, <1>3, <1>4, <1>5

\* Once a side is established nobody has failed, unless by a fault.
LEMMA NobodyFailed ==
    ASSUME HelloInv, NEW s \in Sides, Established(s)
    PROVE  NoneFailed
BY DEF HelloInv, NoneFailed, Sides

\* The other side has not gone while s has something to say to it, or to
\* answer.
LEMMA StillThere ==
    ASSUME SessionInv, StepInv, Smooth, NoneFailed, NEW s \in Sides,
           st[s].phase \notin {"wait", "stop"} \/ st[Other(s)].awaiting # {}
    PROVE  Runs(Other(s))
<1>. SUFFICES ASSUME ~Runs(Other(s)) PROVE FALSE
  OBVIOUS
<1>1. Other(s) \in Sides /\ Other(Other(s)) = s
  BY TwoSides
<1>2. over[Other(s)] = "ok"
  BY <1>1 DEF Runs, NoneFailed, SessionInv, SessionType
<1>3. st[Other(s)].done
  BY <1>1, <1>2 DEF StepInv, BatchInv
<1>. QED  BY <1>1, <1>3, DoneTogether

\* Frames of a transfer
Payload(N) ==
    \A n \in N : \E k \in Sides, t \in {"FILE", "DATA", "GOT", "SKIP", "EOB"} : \E w :
        n = <<k, FileMsg(t, w)>>

\* The handshake is over for a side that steps within the transfer.
LEMMA HelloStays ==
    ASSUME HelloInv, NEW N, Flow(N), Payload(N), UNCHANGED login,
           \A k \in Sides : /\ st'[k].phase = st[k].phase \/ (Established(k) /\ Established(k)')
                            /\ over'[k] = "failed" <=> over[k] = "failed"
    PROVE  HelloInv'
<1>1. \A k \in Sides : /\ Established(k)' <=> Established(k)
                       /\ st'[k].phase \in Greeting <=> st[k].phase \in Greeting
                       /\ st'[k].phase = "start" <=> st[k].phase = "start"
                       /\ over'[k] = "failed" <=> over[k] = "failed"
  BY DEF Established, Greeting
<1>2. \A k \in Sides : \A t \in {"ADR", "PWD", "OK", "ERR"} : \A w :
         /\ Has(chan'[k], FileMsg(t, w)) => Has(chan[k], FileMsg(t, w))
         /\ Once(chan[k], FileMsg(t, w)) => Once(chan'[k], FileMsg(t, w))
  <2>. SUFFICES ASSUME NEW k \in Sides, NEW t \in {"ADR", "PWD", "OK", "ERR"}, NEW w, NEW m,
                       m = FileMsg(t, w)
                PROVE  /\ Has(chan'[k], m) => Has(chan[k], m)
                       /\ Once(chan[k], m) => Once(chan'[k], m)
    OBVIOUS
  <2>1. <<k, m>> \notin N
    BY FrameParts DEF Payload
  <2>. QED  BY <2>1 DEF Flow
<1>3. "caller" \in Sides /\ "answerer" \in Sides /\ \A k \in Sides : Other(k) \in Sides
  BY TwoSides DEF Sides
<1>4. /\ over'["caller"] = "failed" => over'["answerer"] = "failed"
      /\ over'["answerer"] = "failed" => ~Established("answerer")'
      /\ Established("caller")' => Established("answerer")'
      /\ Established("answerer")' => st'["caller"].phase \notin Greeting
  BY <1>1, <1>3 DEF HelloInv
<1>5. \A k \in Sides :
         /\ Once(chan'[k], Msg("ADR"))
         /\ \A w : Has(chan'[k], FileMsg("ADR", w)) =>
               w = NoFile /\ st'[k].phase \in Greeting /\ st'[Other(k)].phase # "start"
         /\ st'[k].phase \notin Greeting => st'[Other(k)].phase # "start"
  <2>. SUFFICES ASSUME NEW k \in Sides
                PROVE  /\ Once(chan'[k], Msg("ADR"))
                       /\ \A w : Has(chan'[k], FileMsg("ADR", w)) =>
                             w = NoFile /\ st'[k].phase \in Greeting /\ st'[Other(k)].phase # "start"
                       /\ st'[k].phase \notin Greeting => st'[Other(k)].phase # "start"
    OBVIOUS
  <2>1. /\ Once(chan[k], Msg("ADR"))
        /\ \A w : Has(chan[k], FileMsg("ADR", w)) =>
              w = NoFile /\ st[k].phase \in Greeting /\ st[Other(k)].phase # "start"
        /\ st[k].phase \notin Greeting => st[Other(k)].phase # "start"
    BY DEF HelloInv
  <2>2. Msg("ADR") = FileMsg("ADR", NoFile)
    BY FrameParts
  <2>. QED  BY <1>1, <1>2, <1>3, <2>1, <2>2
<1>6. /\ Once(chan'["answerer"], FileMsg("PWD", login.password))
      /\ \A w : Has(chan'["answerer"], FileMsg("PWD", w)) =>
            ~Established("answerer")' /\ st'["caller"].phase \notin Greeting
      /\ \A w : ~Has(chan'["caller"], FileMsg("PWD", w))
  BY <1>1, <1>2, <1>3 DEF HelloInv
<1>7. /\ Once(chan'["caller"], FileMsg("OK", OkWord))
      /\ \A w : Has(chan'["caller"], FileMsg("OK", w)) => Established("answerer")' /\ ~Established("caller")'
      /\ \A w : ~Has(chan'["answerer"], FileMsg("OK", w)) /\ ~Has(chan'["answerer"], FileMsg("ERR", w))
      /\ \A w : Has(chan'["caller"], FileMsg("ERR", w)) => over'["answerer"] = "failed"
  BY <1>1, <1>2, <1>3 DEF HelloInv
<1>8. login' = login /\ OkWord' = OkWord
  BY DEF OkWord
<1>. QED  BY <1>4, <1>5, <1>6, <1>7, <1>8 DEF HelloInv

\* A step of an established side
LEMMA Stepping ==
    ASSUME SessionInv, StepInv, NEW s \in Sides, NEW r \in SideRec, NEW N, Flow(N), Payload(N),
           Runs(s), Established(s), r.phase \notin {"start", "address", "auth"},
           st' = [st EXCEPT ![s] = r], UNCHANGED <<multi, login, over, faulty, outrun>>,
           r.failed => r.done, st[s].failed => r.failed,
           Smooth /\ NoneFailed /\ ~r.failed =>
              /\ Steady(r) /\ Checked(r)
              /\ Heard(s)' /\ Heard(Other(s))' /\ AnswerInv(s)' /\ AnswerInv(Other(s))'
    PROVE  StepInv'
<1>. DEFINE o == Other(s)
<1>1. o \in Sides /\ o # s /\ Other(o) = s /\ \A k \in Sides : k = s \/ k = o
  BY TwoSides
<1>2. st'[s] = r /\ st'[o] = st[o]
  BY <1>1 DEF SessionInv, SessionType
<1>. HIDE DEF o
<1>3. EndInv'
  BY <1>1, <1>2 DEF StepInv, EndInv, Runs
<1>4. ASSUME Smooth'
      PROVE  (\A k \in Sides : BatchInv(k)') /\ HelloInv' /\ \A k \in Sides : Heard(k)' /\ AnswerInv(k)'
  <2>1. Smooth /\ ~r.failed
    BY <1>1, <1>2, <1>4 DEF Smooth
  <2>2. HelloInv /\ NoneFailed /\ \A k \in Sides : BatchInv(k)
    BY <2>1, NobodyFailed DEF StepInv
  <2>3. HelloInv'
    <3>1. \A k \in Sides : st'[k].phase = st[k].phase \/ (Established(k) /\ Established(k)')
      BY <1>1, <1>2 DEF Established
    <3>. QED  BY <2>2, <3>1, HelloStays
  <2>4. BatchInv(s)'
    <3>1. Steady(r) /\ Checked(r)
      BY <2>1, <2>2
    <3>2. Steady(st[s])' /\ Checked(st[s])'
      BY <1>2, <3>1 DEF Steady, Checked, BatchOver, Another
    <3>3. Established(s)' /\ over'[s] # "ok"
      BY <1>2 DEF Established, Runs
    <3>. QED  BY <3>2, <3>3 DEF BatchInv
  <2>5. BatchInv(o)'
    <3>1. BatchInv(o)
      BY <1>1, <2>2
    <3>. QED  BY <1>2, <3>1 DEF BatchInv, Steady, Checked, BatchOver, Another, Established, Unstarted
  <2>. QED  BY <1>1, <2>1, <2>2, <2>3, <2>4, <2>5 DEF o
<1>. QED  BY <1>3, <1>4 DEF StepInv

\* The answers of side k's files are where they were.
LEMMA AnswersStay ==
    ASSUME NEW k \in Sides, NEW l, l = Other(k), AnswerInv(k),
           \A t \in {"GOT", "SKIP"} : \A w :
              /\ Has(chan'[k], FileMsg(t, w)) <=> Has(chan[k], FileMsg(t, w))
              /\ Once(chan[k], FileMsg(t, w)) => Once(chan'[k], FileMsg(t, w)),
           \A w : Has(chan'[l], FileMsg("FILE", w)) <=> Has(chan[l], FileMsg("FILE", w)),
           st'[k].awaiting = st[k].awaiting, st[k].files \subseteq st'[k].files,
           st'[k].toSend \cap st[k].awaiting = {},
           st'[l].current = st[l].current, st'[l].owed = st[l].owed
    PROVE  AnswerInv(k)'
<1>1. \A f : /\ Going(k, f)' <=> Going(k, f)
             /\ Owing(k, f)' <=> Owing(k, f)
             /\ Coming(k, f)' <=> Coming(k, f)
  BY DEF Going, Owing, Coming
<1>2. st'[k].awaiting \subseteq st'[k].files /\ st'[k].toSend \cap st'[k].awaiting = {}
  BY DEF AnswerInv
<1>3. \A w : Coming(k, w)' => w \in Files
  BY <1>1 DEF AnswerInv
<1>4. \A f \in Files :
         /\ f \in st'[k].awaiting <=> Going(k, f)' \/ Owing(k, f)' \/ Coming(k, f)'
         /\ ~(Going(k, f)' /\ Owing(k, f)') /\ ~(Going(k, f)' /\ Coming(k, f)')
         /\ ~(Owing(k, f)' /\ Coming(k, f)')
  BY <1>1 DEF AnswerInv
<1>5. \A f \in Files :
         /\ Once(chan'[k], FileMsg("GOT", f)) /\ Once(chan'[k], FileMsg("SKIP", f))
         /\ ~(Has(chan'[k], FileMsg("GOT", f)) /\ Has(chan'[k], FileMsg("SKIP", f)))
  BY DEF AnswerInv
<1>. QED  BY <1>2, <1>3, <1>4, <1>5 DEF AnswerInv

\* A frame of type t has been written, or the first has been read, and no
\* other frame moved.
LEMMA OneFrame ==
    ASSUME NEW q \in Seq(Frame), NEW p, NEW m \in Frame,
           p = q \/ p = Append(q, m) \/ (q # <<>> /\ p = Tail(q) /\ m = Head(q))
    PROVE  \A t, w : FileMsg(t, w) # m =>
              /\ Has(p, FileMsg(t, w)) <=> Has(q, FileMsg(t, w))
              /\ Once(q, FileMsg(t, w)) => Once(p, FileMsg(t, w))
<1>. SUFFICES ASSUME NEW x, x # m
              PROVE  (Has(p, x) <=> Has(q, x)) /\ (Once(q, x) => Once(p, x))
  OBVIOUS
<1>1. CASE p = Append(q, m)
  BY <1>1, HasAppend
<1>2. CASE q # <<>> /\ p = Tail(q) /\ m = Head(q)
  BY <1>2, HasTail, HasRest
<1>. QED  BY <1>1, <1>2

\* s, which read nothing of the transfer: a frame of the handshake or an
\* answer, or none
LEMMA HeardOn ==
    ASSUME SessionInv, NEW s \in Sides, Heard(s), UNCHANGED st[Other(s)],
           st'[s].current = st[s].current, st'[s].rxEnded = st[s].rxEnded,
           st'[s].rxBatch = st[s].rxBatch, st[s].moved \subseteq st'[s].moved,
           \/ UNCHANGED chan[s]
           \/ /\ chan[s] # <<>> /\ chan'[s] = Tail(chan[s])
              /\ Head(chan[s]).t \notin {"FILE", "DATA", "EOB"}
    PROVE  Heard(s)'
<1>1. CASE UNCHANGED chan[s]
  BY <1>1, ReceiverSilent
<1>2. CASE chan[s] # <<>> /\ chan'[s] = Tail(chan[s]) /\ Head(chan[s]).t \notin {"FILE", "DATA", "EOB"}
  <2>1. PICK c, n : Hears(s, c, n)
    BY DEF Heard
  <2>2. Reads(Head(chan[s]), c[0], n[0], c[1], n[1])
    BY <1>2, <2>1, Distance
  <2>3. c[1] = c[0] /\ n[1] = n[0]
    BY <1>2, <2>2 DEF Reads
  <2>4. /\ c[0] = st[s].current /\ st[s].rxEnded = 1 .. n[0]
        /\ st[s].rxBatch \in {n[0], n[0] + 1} /\ st[s].rxBatch \in 1 .. st[Other(s)].batch
    BY <2>1 DEF Hears
  <2>5. chan[s] \in Seq(Frame)
    BY DEF SessionInv, SessionType
  <2>. QED  BY <1>2, <2>1, <2>3, <2>4, <2>5, ReceiverReads
<1>. QED  BY <1>1, <1>2

\* The other side, whose part in the transfer s does not see change: it wrote
\* such a frame, or none.
LEMMA HeardMore ==
    ASSUME SessionInv, NEW s \in Sides, Heard(s), UNCHANGED st[s], NEW r \in SideRec,
           st'[Other(s)] = r, st[Other(s)].batch >= 1,
           LET old == st[Other(s)] IN
              /\ Announcing(r) = Announcing(old) /\ EndsSent(r) = EndsSent(old)
              /\ r.batch >= old.batch /\ old.moved \subseteq r.moved
              /\ r.moved \subseteq old.moved \cup st[s].moved,
           \/ UNCHANGED chan[s]
           \/ \E m \in Frame : /\ m.t \notin {"FILE", "DATA", "EOB"}
                               /\ chan'[s] = Append(chan[s], m)
    PROVE  Heard(s)'
<1>. DEFINE old == st[Other(s)]
<1>1. chan[s] \in Seq(Frame) /\ old \in SideRec /\ old.batch \in Nat /\ r.batch \in Nat
  BY TwoSides, SideParts DEF SessionInv, SessionType
<1>2. CASE UNCHANGED chan[s]
  BY <1>1, <1>2, SenderSilent
<1>3. ASSUME NEW m \in Frame, m.t \notin {"FILE", "DATA", "EOB"}, chan'[s] = Append(chan[s], m)
      PROVE  Heard(s)'
  <2>1. Reads(m, Announcing(old), EndsSent(old), Announcing(r), EndsSent(r))
    BY <1>3 DEF Reads
  <2>. QED  BY <1>1, <1>3, <2>1, SenderWrites
<1>. QED  BY <1>2, <1>3

\* Writing to a side that runs
LEMMA Written ==
    ASSUME chan \in [Sides -> Seq(Frame)], NEW s \in Sides, NEW m \in Frame, Send(s, m)
    PROVE  /\ chan'[s] = chan[s]
           /\ chan'[Other(s)] = IF Runs(Other(s)) THEN Append(chan[Other(s)], m) ELSE chan[Other(s)]
BY TwoSides DEF Send

LEMMA Consuming ==
    ASSUME chan \in [Sides -> Seq(Frame)], NEW s \in Sides, chan' = Consumed(s)
    PROVE  chan'[s] = Tail(chan[s]) /\ chan'[Other(s)] = chan[Other(s)]
BY TwoSides DEF Consumed

LEMMA SenderInStep ==
    ASSUME SessionInv, StepInv, NEW s \in Sides, SenderStep(s)
    PROVE  StepInv'
<1>. DEFINE o == Other(s)
            me == st[s]
<1>x. o \in Sides /\ o # s /\ Other(o) = s
  BY TwoSides
<1>0. /\ st \in [Sides -> SideRec] /\ me \in SideRec /\ chan \in [Sides -> Seq(Frame)]
      /\ SideInv(s) /\ chan[s] \in Seq(Frame) /\ chan[o] \in Seq(Frame)
      /\ st[o] \in SideRec
  BY <1>x DEF SessionInv, SessionType, FilesInv
<1>p. /\ me.batch \in Nat /\ me.rxBatch \in Nat /\ me.moved \subseteq Nat /\ me.eobSent \in BOOLEAN
      /\ me.sending \in Files \cup {NoFile} /\ me.files \subseteq Files /\ me.toSend \subseteq Files
      /\ me.awaiting \subseteq Files /\ me.done \in BOOLEAN /\ me.wake \in BOOLEAN
  BY <1>0, SideParts
<1>e. (me.failed => me.done) /\ EndInv
  BY DEF StepInv, EndInv
<1>s. Smooth => Steady(me) /\ Steady(st[o]) /\ HelloInv /\ (NoneFailed => /\ Heard(s) /\ Heard(o)
                                                                        /\ AnswerInv(s) /\ AnswerInv(o))
  BY <1>x DEF StepInv, BatchInv
<1>. HIDE DEF o, me
<1>1. ASSUME NEW f \in me.toSend, AnnounceFile(s, f) PROVE StepInv'
  <2>. DEFINE r == [me EXCEPT !.toSend = @ \ {f}, !.awaiting = @ \cup {f},
                              !.moved = @ \cup {me.batch},
                              !.sending = IF f \in EmptyFiles THEN NoFile ELSE f,
                              !.phase = IF f \in EmptyFiles THEN "files" ELSE "data"]
              m == FileMsg("FILE", f)
  <2>1. /\ Runs(s) /\ ~me.done /\ me.phase = "files" /\ Send(s, m) /\ st' = [st EXCEPT ![s] = r]
        /\ UNCHANGED <<multi, login, over, faulty, outrun>> /\ f \in Files
    BY <1>1, <1>p DEF AnnounceFile, Becomes, Aside, Settings, History, me
  <2>2. m \in Frame /\ Flow({<<o, m>>}) /\ Payload({<<o, m>>})
    <3>1. m \in Frame
      BY <2>1 DEF FileMsg, Frame
    <3>2. Flow({<<o, m>>})
      BY <1>0, <2>1, <3>1, SendFlows DEF o
    <3>3. Payload({<<o, m>>})
      BY <1>x DEF Payload
    <3>. QED  BY <3>1, <3>2, <3>3
  <2>3. /\ r \in SideRec
        /\ r.toSend = me.toSend \ {f} /\ r.awaiting = me.awaiting \cup {f} /\ r.files = me.files
        /\ r.moved = me.moved \cup {me.batch} /\ r.batch = me.batch /\ r.eobSent = me.eobSent
        /\ r.rxBatch = me.rxBatch /\ r.rxEnded = me.rxEnded /\ r.current = me.current
        /\ r.wake = me.wake /\ r.done = me.done /\ r.failed = me.failed /\ r.hungUp = me.hungUp
        /\ r.owed = me.owed /\ r.phase \in {"files", "data"}
        /\ Announcing(r) = IF f \in EmptyFiles THEN NoFile ELSE f
    <3>1. r \in SideRec
      BY <1>0, <1>p, <2>1, ZenonT(60) DEF SideRec, Phase
    <3>2. /\ r.toSend = me.toSend \ {f} /\ r.awaiting = me.awaiting \cup {f} /\ r.files = me.files
          /\ r.moved = me.moved \cup {me.batch} /\ r.batch = me.batch /\ r.eobSent = me.eobSent
          /\ r.rxBatch = me.rxBatch /\ r.rxEnded = me.rxEnded /\ r.current = me.current
          /\ r.wake = me.wake /\ r.done = me.done /\ r.failed = me.failed /\ r.hungUp = me.hungUp
          /\ r.owed = me.owed /\ r.phase = (IF f \in EmptyFiles THEN "files" ELSE "data")
          /\ r.sending = (IF f \in EmptyFiles THEN NoFile ELSE f)
      BY <1>0 DEF SideRec
    <3>. HIDE DEF r
    <3>. QED  BY <3>1, <3>2 DEF Announcing
  <2>. HIDE DEF r
  <2>4. ASSUME Smooth, NoneFailed
        PROVE  Steady(r) /\ Checked(r) /\ Heard(s)' /\ Heard(o)' /\ AnswerInv(s)' /\ AnswerInv(o)'
    <3>1. ~me.eobSent /\ ~me.wake /\ me.batch >= 1
      BY <1>s, <2>1, <2>4 DEF Steady
    <3>2. Steady(r) /\ Checked(r)
      BY <1>s, <2>1, <2>3, <2>4, <3>1 DEF Steady, Checked, BatchOver
    <3>3. st'[s] = r /\ st'[o] = st[o]
      BY <1>0, <1>x, <2>1
    <3>4. chan'[s] = chan[s] /\ chan'[o] = Append(chan[o], m)
      <4>1. Runs(o)
        BY <2>1, <2>4, StillThere DEF o, me
      <4>. QED  BY <1>0, <2>1, <2>2, <4>1, Written DEF o
    <3>5. Heard(s)'
      BY <1>s, <2>3, <2>4, <3>3, <3>4, ReceiverSilent DEF o, me
    <3>6. Heard(o)'
      <4>1. Announcing(me) = NoFile /\ EndsSent(me) = me.batch - 1 /\ EndsSent(r) = me.batch - 1
        BY <2>1, <2>3, <3>1 DEF Announcing, EndsSent
      <4>2. m.t = "FILE" /\ m.f = f
        BY FrameParts
      <4>3. Reads(m, Announcing(me), EndsSent(me), Announcing(r), EndsSent(r))
        BY <2>3, <4>1, <4>2 DEF Reads
      <4>4. /\ r.batch >= me.batch /\ me.moved \subseteq r.moved
            /\ EndsSent(me) + 1 = me.batch /\ EndsSent(me) + 1 \in r.moved /\ EndsSent(me) + 1 <= r.batch
            /\ \A j \in r.moved : j \in me.moved \/ j = EndsSent(me) + 1
        BY <1>p, <2>3, <4>1
      <4>. HIDE DEF m
      <4>. QED  BY <1>0, <1>s, <1>x, <2>2, <2>3, <2>4, <3>1, <3>3, <3>4, <4>2, <4>3, <4>4, SenderWrites DEF me
    <3>7. AnswerInv(o)'
      <4>1. \A t, w : FileMsg(t, w) # m =>
               /\ Has(chan'[o], FileMsg(t, w)) <=> Has(chan[o], FileMsg(t, w))
               /\ Once(chan[o], FileMsg(t, w)) => Once(chan'[o], FileMsg(t, w))
        BY <1>0, <2>2, <3>4, OneFrame
      <4>2. \A t \in {"GOT", "SKIP"} : \A w : FileMsg(t, w) # m
        BY FrameParts
      <4>3. AnswerInv(o)
        BY <1>s, <2>4
      <4>4. st[o].toSend \cap st[o].awaiting = {}
        BY <4>3 DEF AnswerInv
      <4>5. /\ s = Other(o) /\ chan'[s] = chan[s] /\ st'[o] = st[o]
            /\ st'[s].current = st[s].current /\ st'[s].owed = st[s].owed
        BY <1>x, <2>3, <3>3, <3>4 DEF me
      <4>. HIDE DEF m
      <4>. QED  BY <1>x, <4>1, <4>2, <4>3, <4>4, <4>5, AnswersStay
    <3>8. AnswerInv(s)'
      <4>1. AnswerInv(s) /\ f \notin me.awaiting /\ f \in me.files
        BY <1>0, <1>s, <2>4 DEF AnswerInv, SideInv, me
      <4>2. \A g : Has(chan'[o], FileMsg("FILE", g)) <=> Has(chan[o], FileMsg("FILE", g)) \/ g = f
        BY <1>0, <2>2, <3>4, HasAppend, FrameParts
      <4>3. \A g : /\ Going(s, g)' <=> Going(s, g) \/ g = f
                   /\ Owing(s, g)' <=> Owing(s, g)
                   /\ Coming(s, g)' <=> Coming(s, g)
        BY <3>3, <3>4, <4>2 DEF Going, Owing, Coming, o
      <4>4. ~Going(s, f) /\ ~Owing(s, f) /\ ~Coming(s, f)
        BY <2>1, <4>1 DEF AnswerInv, me
      <4>5. \A g \in Files :
               /\ g \in st'[s].awaiting <=> Going(s, g)' \/ Owing(s, g)' \/ Coming(s, g)'
               /\ ~(Going(s, g)' /\ Owing(s, g)') /\ ~(Going(s, g)' /\ Coming(s, g)')
               /\ ~(Owing(s, g)' /\ Coming(s, g)')
        BY <2>3, <3>3, <4>1, <4>3, <4>4 DEF AnswerInv, me
      <4>6. st'[s].awaiting \subseteq st'[s].files /\ st'[s].toSend \cap st'[s].awaiting = {}
        BY <2>3, <3>3, <4>1 DEF AnswerInv, me
      <4>. QED  BY <3>4, <4>1, <4>3, <4>5, <4>6 DEF AnswerInv
    <3>. QED  BY <3>2, <3>5, <3>6, <3>7, <3>8
  <2>5. Established(s) /\ r.phase \notin {"start", "address", "auth"}
    BY <2>1, <2>3 DEF Established, me
  <2>. QED  BY <1>e, <2>1, <2>2, <2>3, <2>4, <2>5, Stepping DEF o, me
\* The sender's other steps, with the frame m written or none, leave the
\* answers alone.
<1>2. ASSUME NEW r \in SideRec, NEW m \in Frame, m.t \in {"DATA", "EOB"},
             Runs(s), Established(s), me.phase \notin {"wait", "stop"}, Send(s, m),
             st' = [st EXCEPT ![s] = r], UNCHANGED <<multi, login, over, faulty, outrun>>,
             r.phase \notin {"start", "address", "auth"},
             r.failed => r.done, me.failed => r.failed,
             r.rxBatch = me.rxBatch, r.rxEnded = me.rxEnded, r.moved = me.moved,
             r.current = me.current, r.owed = me.owed, r.batch >= me.batch,
             r.awaiting = me.awaiting, r.files = me.files, r.toSend = me.toSend,
             Smooth /\ ~r.failed =>
                /\ Steady(r) /\ Checked(r)
                /\ Reads(m, Announcing(me), EndsSent(me), Announcing(r), EndsSent(r))
      PROVE  StepInv'
  <2>1. Flow({<<o, m>>}) /\ Payload({<<o, m>>})
    <3>1. Flow({<<o, m>>})
      BY <1>0, <1>2, SendFlows DEF o
    <3>2. m = FileMsg(m.t, m.f)
      BY <1>2, FrameParts
    <3>3. Payload({<<o, m>>})
      BY <1>2, <1>x, <3>2 DEF Payload
    <3>. QED  BY <3>1, <3>3
  <2>2. ASSUME Smooth, NoneFailed, ~r.failed
        PROVE  Steady(r) /\ Checked(r) /\ Heard(s)' /\ Heard(o)' /\ AnswerInv(s)' /\ AnswerInv(o)'
    <3>1. st'[s] = r /\ st'[o] = st[o]
      BY <1>0, <1>2, <1>x
    <3>2. chan'[s] = chan[s] /\ chan'[o] = Append(chan[o], m)
      <4>1. Runs(o)
        BY <1>2, <2>2, StillThere DEF o, me
      <4>. QED  BY <1>0, <1>2, <4>1, Written DEF o
    <3>3. Heard(s)'
      BY <1>2, <1>s, <2>2, <3>1, <3>2, ReceiverSilent DEF o, me
    <3>4. Heard(o)'
      <4>1. me.batch >= 1
        BY <1>s, <2>2 DEF Steady
      <4>. QED  BY <1>0, <1>2, <1>s, <1>x, <2>2, <3>1, <3>2, <4>1, SenderWrites DEF me
    <3>5. \A t, w : t \in {"GOT", "SKIP", "FILE"} =>
             /\ Has(chan'[o], FileMsg(t, w)) <=> Has(chan[o], FileMsg(t, w))
             /\ Once(chan[o], FileMsg(t, w)) => Once(chan'[o], FileMsg(t, w))
      <4>1. \A t, w : FileMsg(t, w) # m =>
               /\ Has(chan'[o], FileMsg(t, w)) <=> Has(chan[o], FileMsg(t, w))
               /\ Once(chan[o], FileMsg(t, w)) => Once(chan'[o], FileMsg(t, w))
        BY <1>0, <1>2, <3>2, OneFrame
      <4>2. \A t, w : t \in {"GOT", "SKIP", "FILE"} => FileMsg(t, w) # m
        BY <1>2, FrameParts
      <4>. QED  BY <4>1, <4>2
    <3>6. \A k \in {s, o} : AnswerInv(k) /\ st[k].toSend \cap st[k].awaiting = {}
      BY <1>s, <2>2 DEF AnswerInv
    <3>7. AnswerInv(s)'
      <4>1. /\ o = Other(s) /\ st'[s].awaiting = st[s].awaiting /\ st[s].files \subseteq st'[s].files
            /\ st'[s].toSend \cap st[s].awaiting = {}
        BY <1>2, <3>1, <3>6 DEF o, me
      <4>2. \A w : Has(chan'[o], FileMsg("FILE", w)) <=> Has(chan[o], FileMsg("FILE", w))
        BY <3>5
      <4>3. AnswerInv(s) /\ UNCHANGED <<chan[s], st[o]>>
        BY <3>1, <3>2, <3>6
      <4>. QED  BY <4>1, <4>2, <4>3, AnswersStay
    <3>8. AnswerInv(o)'
      <4>1. s = Other(o) /\ st'[s].current = st[s].current /\ st'[s].owed = st[s].owed
        BY <1>2, <1>x, <3>1 DEF me
      <4>2. \A t \in {"GOT", "SKIP"} : \A w :
               /\ Has(chan'[o], FileMsg(t, w)) <=> Has(chan[o], FileMsg(t, w))
               /\ Once(chan[o], FileMsg(t, w)) => Once(chan'[o], FileMsg(t, w))
        BY <3>5
      <4>3. AnswerInv(o) /\ UNCHANGED <<chan[s], st[o]>> /\ st[o].toSend \cap st[o].awaiting = {}
        BY <3>1, <3>2, <3>6
      <4>. QED  BY <1>x, <4>1, <4>2, <4>3, AnswersStay
    <3>. QED  BY <1>2, <2>2, <3>3, <3>4, <3>7, <3>8
  <2>. QED  BY <1>2, <2>1, <2>2, Stepping DEF o, me
<1>3. ASSUME SendData(s) PROVE StepInv'
  <2>. DEFINE r == [me EXCEPT !.sending = NoFile, !.phase = "files"]
              m == FileMsg("DATA", me.sending)
  <2>1. /\ Runs(s) /\ ~me.done /\ me.phase = "data" /\ Send(s, m) /\ st' = [st EXCEPT ![s] = r]
        /\ UNCHANGED <<multi, login, over, faulty, outrun>> /\ me.sending \in Files
    BY <1>0, <1>3 DEF SendData, Becomes, Aside, Settings, History, SideInv, me
  <2>2. m \in Frame /\ m.t = "DATA" /\ m.f = me.sending
    BY <2>1 DEF FileMsg, Frame
  <2>3. /\ r \in SideRec
        /\ r.toSend = me.toSend /\ r.awaiting = me.awaiting /\ r.files = me.files
        /\ r.moved = me.moved /\ r.batch = me.batch /\ r.eobSent = me.eobSent
        /\ r.rxBatch = me.rxBatch /\ r.rxEnded = me.rxEnded /\ r.current = me.current
        /\ r.wake = me.wake /\ r.done = me.done /\ r.failed = me.failed /\ r.hungUp = me.hungUp
        /\ r.owed = me.owed /\ r.phase = "files"
    BY <1>0, <2>1 DEF SideRec, Phase
  <2>. HIDE DEF r, m
  <2>4. ASSUME Smooth
        PROVE  /\ Steady(r) /\ Checked(r)
               /\ Reads(m, Announcing(me), EndsSent(me), Announcing(r), EndsSent(r))
    <3>1. ~me.eobSent /\ ~me.wake
      BY <1>s, <2>1, <2>4 DEF Steady
    <3>2. Steady(r) /\ Checked(r)
      BY <1>s, <2>1, <2>3, <2>4, <3>1 DEF Steady, Checked, BatchOver
    <3>. QED  BY <2>1, <2>2, <2>3, <3>2 DEF Reads, Announcing, EndsSent
  <2>5. Established(s) /\ r.batch >= me.batch
    BY <1>p, <2>1, <2>3 DEF Established, me
  <2>. QED  BY <1>2, <1>e, <2>1, <2>2, <2>3, <2>4, <2>5
<1>4. ASSUME SendEob(s) PROVE StepInv'
  <2>. DEFINE x == [me EXCEPT !.phase = "wait", !.eobSent = TRUE]
              r == CheckDone(x)
              m == Msg("EOB")
  <2>1. /\ Runs(s) /\ ~me.done /\ me.phase = "files" /\ Send(s, m) /\ st' = [st EXCEPT ![s] = r]
        /\ UNCHANGED <<multi, login, over, faulty, outrun>> /\ me.toSend = {}
    BY <1>4 DEF SendEob, Becomes, Aside, Settings, History, me
  <2>2. m \in Frame /\ m.t = "EOB"
    BY DEF Msg, Frame
  <2>3. /\ x \in SideRec
        /\ x.toSend = me.toSend /\ x.awaiting = me.awaiting /\ x.files = me.files
        /\ x.moved = me.moved /\ x.batch = me.batch /\ x.eobSent
        /\ x.rxBatch = me.rxBatch /\ x.rxEnded = me.rxEnded /\ x.current = me.current
        /\ x.wake = me.wake /\ x.done = me.done /\ x.failed = me.failed /\ x.hungUp = me.hungUp
        /\ x.owed = me.owed /\ x.phase = "wait"
    BY <1>0, <2>1 DEF SideRec, Phase
  <2>. HIDE DEF x, m
  <2>4. /\ r \in SideRec /\ r.toSend = x.toSend /\ r.awaiting = x.awaiting /\ r.files = x.files
        /\ r.current = x.current /\ r.owed = x.owed /\ r.phase = x.phase
    BY <2>3, CheckingDone
  <2>5. /\ r.rxBatch = x.rxBatch /\ r.rxEnded = x.rxEnded /\ r.moved = x.moved /\ r.batch >= x.batch
        /\ Announcing(r) = Announcing(x) /\ EndsSent(r) = EndsSent(x)
        /\ x.failed => r.failed
        /\ (x.failed => x.done) => (r.failed => r.done)
        /\ Steady(x) /\ ~r.failed => Steady(r) /\ Checked(r)
    BY <2>3, CheckKeeps
  <2>. HIDE DEF r
  <2>6. ASSUME Smooth, ~r.failed
        PROVE  /\ Steady(r) /\ Checked(r)
               /\ Reads(m, Announcing(me), EndsSent(me), Announcing(r), EndsSent(r))
    <3>1. ~me.eobSent /\ ~me.wake
      BY <1>s, <2>1, <2>6 DEF Steady
    <3>2. Steady(x)
      BY <1>s, <2>1, <2>3, <2>6, <3>1 DEF Steady
    <3>3. /\ Announcing(me) = NoFile /\ Announcing(r) = NoFile
          /\ EndsSent(me) = me.batch - 1 /\ EndsSent(r) = me.batch
      BY <2>1, <2>3, <2>5, <3>1 DEF Announcing, EndsSent
    <3>. QED  BY <1>p, <2>2, <2>5, <2>6, <3>2, <3>3 DEF Reads
  <2>7. Established(s)
    BY <2>1 DEF Established, me
  <2>. QED  BY <1>2, <1>e, <2>1, <2>2, <2>3, <2>4, <2>5, <2>6, <2>7
\* Steps that write nothing
<1>5. ASSUME NEW r \in SideRec, Runs(s), Established(s), UNCHANGED chan,
             st' = [st EXCEPT ![s] = r], UNCHANGED <<multi, login, over, faulty, outrun>>,
             r.phase \notin {"start", "address", "auth"},
             r.failed = me.failed, r.done = me.done,
             r.rxBatch = me.rxBatch, r.rxEnded = me.rxEnded, r.moved = me.moved,
             r.current = me.current, r.owed = me.owed, r.batch = me.batch, r.eobSent = me.eobSent,
             Announcing(r) = Announcing(me),
             r.awaiting = me.awaiting, me.files \subseteq r.files,
             r.toSend \subseteq me.toSend \cup (r.files \ me.files),
             Smooth => Steady(r) /\ Checked(r)
      PROVE  StepInv'
  <2>1. Flow({}) /\ Payload({})
    BY <1>0, <1>5, NothingFlows DEF Payload
  <2>2. ASSUME Smooth, NoneFailed
        PROVE  Steady(r) /\ Checked(r) /\ Heard(s)' /\ Heard(o)' /\ AnswerInv(s)' /\ AnswerInv(o)'
    <3>1. st'[s] = r /\ st'[o] = st[o] /\ EndsSent(r) = EndsSent(me)
      BY <1>0, <1>5, <1>x DEF EndsSent
    <3>2. Heard(s)'
      BY <1>5, <1>s, <2>2, <3>1, ReceiverSilent DEF o, me
    <3>3. Heard(o)'
      <4>1. /\ st'[s].moved = st[s].moved /\ st'[s].batch = st[s].batch /\ st[s].batch \in Nat
            /\ Announcing(st'[s]) = Announcing(st[s]) /\ EndsSent(st'[s]) = EndsSent(st[s])
        BY <1>5, <1>p, <3>1 DEF me
      <4>2. Heard(o) /\ UNCHANGED <<chan[o], st[o]>>
        BY <1>5, <1>s, <2>2, <3>1
      <4>. QED  BY <1>0, <1>x, <4>1, <4>2, SenderSilent
    <3>4. \A k \in {s, o} : /\ AnswerInv(k) /\ st[k].toSend \cap st[k].awaiting = {}
                            /\ st[k].awaiting \subseteq st[k].files
      BY <1>s, <2>2 DEF AnswerInv
    <3>5. AnswerInv(s)'
      <4>1. r.toSend \cap me.awaiting = {}
        BY <1>5, <3>4 DEF me
      <4>2. o = Other(s) /\ st'[s].awaiting = st[s].awaiting /\ st[s].files \subseteq st'[s].files
        BY <1>5, <3>1 DEF o, me
      <4>3. st'[s].toSend \cap st[s].awaiting = {} /\ UNCHANGED <<chan[s], chan[o], st[o]>>
        BY <1>5, <3>1, <4>1 DEF me
      <4>. QED  BY <3>4, <4>2, <4>3, AnswersStay
    <3>6. AnswerInv(o)'
      <4>1. s = Other(o) /\ st'[s].current = st[s].current /\ st'[s].owed = st[s].owed
        BY <1>5, <1>x, <3>1 DEF me
      <4>2. UNCHANGED <<chan[s], chan[o], st[o]>>
        BY <1>5, <3>1
      <4>. QED  BY <1>x, <3>4, <4>1, <4>2, AnswersStay
    <3>. QED  BY <1>5, <2>2, <3>2, <3>3, <3>5, <3>6
  <2>. QED  BY <1>5, <1>e, <2>1, <2>2, Stepping DEF o, me
<1>6. ASSUME Wake(s) PROVE StepInv'
  <2>. DEFINE r == [me EXCEPT !.wake = FALSE, !.phase = IF me.done THEN "stop" ELSE "hook"]
  <2>1. /\ Runs(s) /\ me.phase = "wait" /\ me.wake /\ st' = [st EXCEPT ![s] = r]
        /\ UNCHANGED <<chan, multi, login, over, faulty, outrun>>
    BY <1>6 DEF Wake, Becomes, Aside, Settings, History, me
  <2>2. /\ r \in SideRec
        /\ r.toSend = me.toSend /\ r.awaiting = me.awaiting /\ r.files = me.files
        /\ r.moved = me.moved /\ r.batch = me.batch /\ r.eobSent = me.eobSent
        /\ r.rxBatch = me.rxBatch /\ r.rxEnded = me.rxEnded /\ r.current = me.current
        /\ ~r.wake /\ r.done = me.done /\ r.failed = me.failed /\ r.hungUp = me.hungUp
        /\ r.owed = me.owed /\ r.phase = (IF me.done THEN "stop" ELSE "hook") /\ r.batches = me.batches
    <3>1. PICK p \in Phase : p = (IF me.done THEN "stop" ELSE "hook")
      BY <1>p DEF Phase
    <3>2. r = [me EXCEPT !.wake = FALSE, !.phase = p]
      BY <3>1
    <3>. HIDE DEF r
    <3>3. /\ r.toSend = me.toSend /\ r.awaiting = me.awaiting /\ r.files = me.files
          /\ r.moved = me.moved /\ r.batch = me.batch /\ r.eobSent = me.eobSent
          /\ r.rxBatch = me.rxBatch /\ r.rxEnded = me.rxEnded /\ r.current = me.current
          /\ ~r.wake /\ r.done = me.done /\ r.failed = me.failed /\ r.hungUp = me.hungUp
          /\ r.owed = me.owed /\ r.phase = p /\ r.batches = me.batches
      BY <1>0, <3>2 DEF SideRec
    <3>4. p \in Phase
      OBVIOUS
    <3>5. r \in SideRec
      BY <1>0, <3>2, <3>4 DEF SideRec
    <3>. QED  BY <3>1, <3>3, <3>5
  <2>. HIDE DEF r
  <2>3. ASSUME Smooth PROVE Steady(r) /\ Checked(r)
    <3>1. Steady(me) /\ (me.eobSent => me.done) /\ Checked(me)
      BY <1>s, <2>1, <2>3 DEF Steady, StepInv, BatchInv, me
    <3>. QED  BY <2>1, <2>2, <3>1 DEF Steady, Checked, BatchOver, Another
  <2>4. Announcing(r) = Announcing(me) /\ Established(s) /\ r.phase \notin {"start", "address", "auth"}
    BY <2>1, <2>2 DEF Announcing, Established, me
  <2>. QED  BY <1>5, <2>1, <2>2, <2>3, <2>4
<1>7. ASSUME AskNextBatch(s) PROVE StepInv'
  <2>1. PICK G \in SUBSET FilesOf[s] :
           st' = [st EXCEPT ![s] = [me EXCEPT !.phase = "files", !.files = @ \cup G,
                                              !.toSend = @ \cup (G \ me.files)]]
    BY <1>7 DEF AskNextBatch, Becomes, me
  <2>. DEFINE r == [me EXCEPT !.phase = "files", !.files = @ \cup G, !.toSend = @ \cup (G \ me.files)]
  <2>2. /\ Runs(s) /\ me.phase = "hook" /\ ~me.done /\ UNCHANGED <<chan, multi, login, over, faulty, outrun>>
        /\ G \subseteq Files
    BY <1>7, BinkpAssumption DEF AskNextBatch, Aside, Settings, History, BinkpAssumption, me
  <2>3. /\ r \in SideRec
        /\ r.toSend = me.toSend \cup (G \ me.files) /\ r.awaiting = me.awaiting
        /\ r.files = me.files \cup G
        /\ r.moved = me.moved /\ r.batch = me.batch /\ r.eobSent = me.eobSent
        /\ r.rxBatch = me.rxBatch /\ r.rxEnded = me.rxEnded /\ r.current = me.current
        /\ r.wake = me.wake /\ r.done = me.done /\ r.failed = me.failed /\ r.hungUp = me.hungUp
        /\ r.owed = me.owed /\ r.phase = "files"
    BY <1>0, <2>2 DEF SideRec, Phase
  <2>4. st' = [st EXCEPT ![s] = r]
    BY <2>1
  <2>. HIDE DEF r
  <2>5. ASSUME Smooth PROVE Steady(r) /\ Checked(r)
    <3>1. ~me.eobSent /\ ~me.wake
      BY <1>s, <2>2, <2>5 DEF Steady
    <3>. QED  BY <1>s, <2>2, <2>3, <2>5, <3>1 DEF Steady, Checked, BatchOver
  <2>6. Announcing(r) = Announcing(me) /\ Established(s) /\ r.phase \notin {"start", "address", "auth"}
    BY <2>2, <2>3 DEF Announcing, Established, me
  <2>. QED  BY <1>5, <2>2, <2>3, <2>4, <2>5, <2>6
<1>. QED  BY <1>1, <1>3, <1>4, <1>6, <1>7 DEF SenderStep, me

\* The batch a frame that is read belongs to
Counting(r) == IF multi /\ r.rxBatch \in r.rxEnded THEN r.rxBatch + 1 ELSE r.rxBatch

LEMMA Counted ==
    ASSUME NEW r \in SideRec
    PROVE  /\ Counting(r) \in Nat /\ Counting(r) >= r.rxBatch
           /\ Announced(r) = [r EXCEPT !.rxBatch = Counting(r), !.moved = @ \cup {Counting(r)}]
           /\ Ended(r) = [r EXCEPT !.rxBatch = Counting(r), !.rxEnded = @ \cup {Counting(r)}]
<1>1. r.rxBatch \in Nat
  BY SideParts
<1>. QED  BY <1>1 DEF Counting, Announced, Ended

LEMMA CountedRight ==
    ASSUME SessionInv, NEW s \in Sides, NEW c, NEW n, Hears(s, c, n), Steady(st[Other(s)]),
           n[0] + 1 <= st[Other(s)].batch
    PROVE  Counting(st[s]) = n[0] + 1 /\ Counting(st[s]) \in 1 .. st[Other(s)].batch
<1>1. /\ st[s].rxEnded = 1 .. n[0] /\ st[s].rxBatch \in {n[0], n[0] + 1}
      /\ st[s].rxBatch \in 1 .. st[Other(s)].batch
  BY DEF Hears
<1>2. n[0] \in Nat /\ st[Other(s)].batch \in Nat
  BY Distance, SideParts, TwoSides DEF SessionInv, SessionType
<1>3. CASE st[s].rxBatch = n[0]
  <2>1. n[0] >= 1 /\ st[Other(s)].batch > 1
    BY <1>1, <1>2, <1>3
  <2>2. multi
    BY <2>1 DEF Steady
  <2>. QED  BY <1>1, <1>2, <1>3, <2>1, <2>2 DEF Counting
<1>4. CASE st[s].rxBatch = n[0] + 1
  BY <1>1, <1>2, <1>4 DEF Counting
<1>. QED  BY <1>1, <1>3, <1>4

LEMMA FinishedParts ==
    ASSUME st \in [Sides -> SideRec], NEW s \in Sides, NEW y \in SideRec, NEW f, Finished(s, y, f)
    PROVE  /\ st' = [st EXCEPT ![s] = st'[s]]
           /\ LET x == st'[s] IN
              /\ x.toSend = y.toSend /\ x.awaiting = y.awaiting /\ x.files = y.files
              /\ x.moved = y.moved /\ x.batch = y.batch /\ x.eobSent = y.eobSent /\ x.batches = y.batches
              /\ x.rxBatch = y.rxBatch /\ x.rxEnded = y.rxEnded /\ x.current = NoFile
              /\ x.wake = y.wake /\ x.done = y.done /\ x.failed = y.failed /\ x.hungUp = y.hungUp
              /\ x.owed \in {FileMsg("GOT", f), FileMsg("SKIP", f)}
              /\ x.phase = y.phase /\ x.sending = y.sending
<1>1. CASE Becomes(s, [y EXCEPT !.current = NoFile, !.owed = FileMsg("GOT", f), !.received[f] = @ + 1])
  <2>. DEFINE x == [y EXCEPT !.current = NoFile, !.owed = FileMsg("GOT", f), !.received[f] = @ + 1]
  <2>1. st' = [st EXCEPT ![s] = x] /\ st'[s] = x
    BY <1>1 DEF Becomes
  <2>2. \E z : x = [y EXCEPT !.current = NoFile, !.owed = FileMsg("GOT", f), !.received = z]
    OBVIOUS
  <2>3. PICK z : x = [y EXCEPT !.current = NoFile, !.owed = FileMsg("GOT", f), !.received = z]
    BY <2>2
  <2>. HIDE DEF x
  <2>. QED  BY <2>1, <2>3 DEF SideRec
<1>2. CASE Becomes(s, [y EXCEPT !.current = NoFile, !.owed = FileMsg("SKIP", f)])
  <2>. DEFINE x == [y EXCEPT !.current = NoFile, !.owed = FileMsg("SKIP", f)]
  <2>1. st' = [st EXCEPT ![s] = x] /\ st'[s] = x
    BY <1>2 DEF Becomes
  <2>. QED  BY <2>1 DEF SideRec
<1>. QED  BY <1>1, <1>2 DEF Finished

\* The file f, which was on its way to s, is there, whole or not.
LEMMA AnswersMove ==
    ASSUME SessionInv, NEW s \in Sides, NEW o, o = Other(s), AnswerInv(o), NEW f \in Files,
           UNCHANGED <<chan[o], st[o]>>, st[s].owed = NothingOwed,
           \A w : w # f => (Has(chan'[s], FileMsg("FILE", w)) <=> Has(chan[s], FileMsg("FILE", w))),
           ~Has(chan'[s], FileMsg("FILE", f)), st[s].current \in {NoFile, f},
           Has(chan[s], FileMsg("FILE", f)) \/ st[s].current = f,
           \/ st'[s].current = f /\ st'[s].owed = NothingOwed
           \/ st'[s].current = NoFile /\ st'[s].owed \in {FileMsg("GOT", f), FileMsg("SKIP", f)}
    PROVE  AnswerInv(o)'
<1>1. o \in Sides /\ Other(o) = s
  BY TwoSides
<1>2. \A g \in Files : g # NoFile
  BY BinkpAssumption DEF BinkpAssumption
<1>3. /\ \A w : Coming(o, w)' <=> Coming(o, w)
      /\ \A w \in Files : NothingOwed # FileMsg("GOT", w) /\ NothingOwed # FileMsg("SKIP", w)
      /\ \A w \in Files : ~Owing(o, w)
  BY <1>1, <1>2, FrameParts DEF NothingOwed, Coming, Owing
<1>4. /\ Going(o, f) /\ ~Coming(o, f) /\ f \in st[o].awaiting
      /\ Going(o, f)' \/ Owing(o, f)'
      /\ ~(Going(o, f)' /\ Owing(o, f)')
  <2>1. Going(o, f)
    BY <1>1 DEF Going
  <2>2. ~Coming(o, f) /\ f \in st[o].awaiting
    BY <2>1 DEF AnswerInv
  <2>3. CASE st'[s].current = f /\ st'[s].owed = NothingOwed
    BY <1>1, <1>3, <2>1, <2>2, <2>3 DEF Going, Owing
  <2>4. CASE st'[s].current = NoFile /\ st'[s].owed \in {FileMsg("GOT", f), FileMsg("SKIP", f)}
    BY <1>1, <1>2, <2>1, <2>2, <2>4 DEF Going, Owing
  <2>. QED  BY <2>3, <2>4
<1>5. ASSUME NEW g \in Files, g # f
      PROVE  (Going(o, g)' <=> Going(o, g)) /\ ~Owing(o, g)'
  <2>1. Has(chan'[s], FileMsg("FILE", g)) <=> Has(chan[s], FileMsg("FILE", g))
    BY <1>5
  <2>2. st[s].current # g /\ st'[s].current # g
    BY <1>2, <1>5
  <2>3. st'[s].owed # FileMsg("GOT", g) /\ st'[s].owed # FileMsg("SKIP", g)
    BY <1>3, <1>5, FrameParts
  <2>. QED  BY <1>1, <2>1, <2>2, <2>3 DEF Going, Owing
<1>6. \A g \in Files :
         /\ g \in st'[o].awaiting <=> Going(o, g)' \/ Owing(o, g)' \/ Coming(o, g)'
         /\ ~(Going(o, g)' /\ Owing(o, g)') /\ ~(Going(o, g)' /\ Coming(o, g)')
         /\ ~(Owing(o, g)' /\ Coming(o, g)')
  <2>. SUFFICES ASSUME NEW g \in Files
                PROVE  /\ g \in st'[o].awaiting <=> Going(o, g)' \/ Owing(o, g)' \/ Coming(o, g)'
                       /\ ~(Going(o, g)' /\ Owing(o, g)') /\ ~(Going(o, g)' /\ Coming(o, g)')
                       /\ ~(Owing(o, g)' /\ Coming(o, g)')
    OBVIOUS
  <2>1. CASE g = f
    BY <1>3, <1>4, <2>1
  <2>2. CASE g # f
    <3>1. g \in st[o].awaiting <=> Going(o, g) \/ Coming(o, g)
      BY <1>3 DEF AnswerInv
    <3>2. ~(Going(o, g) /\ Coming(o, g))
      BY DEF AnswerInv
    <3>. QED  BY <1>3, <1>5, <2>2, <3>1, <3>2
  <2>. QED  BY <2>1, <2>2
<1>7. /\ st'[o].awaiting \subseteq st'[o].files /\ st'[o].toSend \cap st'[o].awaiting = {}
      /\ \A w : Coming(o, w)' => w \in Files
      /\ \A g \in Files :
            /\ Once(chan'[o], FileMsg("GOT", g)) /\ Once(chan'[o], FileMsg("SKIP", g))
            /\ ~(Has(chan'[o], FileMsg("GOT", g)) /\ Has(chan'[o], FileMsg("SKIP", g)))
  BY <1>3 DEF AnswerInv
<1>. QED  BY <1>6, <1>7 DEF AnswerInv

LEMMA ReceiverInStep ==
    ASSUME SessionInv, SessionInv', StepInv, NEW s \in Sides,
           ReceiveFile(s) \/ ReceiveData(s) \/ SendGot(s) \/ ReceiveAnswer(s) \/ ReceiveEob(s)
    PROVE  StepInv'
<1>. DEFINE o == Other(s)
            me == st[s]
<1>x. o \in Sides /\ o # s /\ Other(o) = s /\ o = Other(s) /\ me = st[s]
  BY TwoSides
<1>0. /\ st \in [Sides -> SideRec] /\ me \in SideRec /\ chan \in [Sides -> Seq(Frame)]
      /\ chan[s] \in Seq(Frame) /\ chan[o] \in Seq(Frame) /\ st[o] \in SideRec /\ st'[s] \in SideRec
  BY <1>x DEF SessionInv, SessionType
<1>p. /\ me.batch \in Nat /\ me.rxBatch \in Nat /\ me.moved \subseteq Nat /\ me.eobSent \in BOOLEAN
      /\ me.rxEnded \subseteq Nat /\ me.done \in BOOLEAN
  BY <1>0, SideParts
<1>e. me.failed => me.done
  BY DEF StepInv, EndInv
<1>s. Smooth => /\ Steady(me) /\ Checked(me) /\ Steady(st[o]) /\ HelloInv
                /\ NoneFailed => Heard(s) /\ Heard(o) /\ AnswerInv(s) /\ AnswerInv(o)
  BY <1>x DEF StepInv, BatchInv
<1>d. Smooth /\ NoneFailed /\ chan[s] # <<>> => ~me.done
  BY <1>x, DoneTogether
<1>. HIDE DEF o, me
\* Reading a frame
<1>1. ASSUME NEW r \in SideRec, Listens(s), chan[s] # <<>>, chan' = Consumed(s),
             st' = [st EXCEPT ![s] = r], UNCHANGED <<multi, login, over, faulty, outrun>>,
             r.phase = me.phase, r.failed => r.done, me.failed => r.failed,
             Announcing(r) = Announcing(me), EndsSent(r) = EndsSent(me), r.batch >= me.batch,
             me.moved \subseteq r.moved,
             ASSUME Smooth, NoneFailed, ~r.failed, NEW c, NEW n, Hears(s, c, n)
             PROVE  /\ Steady(r) /\ Checked(r)
                    /\ r.current = c[1] /\ r.rxEnded = 1 .. n[1] /\ r.rxBatch \in {n[1], n[1] + 1}
                    /\ r.rxBatch \in 1 .. st[o].batch
                    /\ Head(chan[s]).t = "FILE" => n[0] + 1 \in r.moved
                    /\ r.moved \subseteq me.moved \cup st[o].moved
                    /\ AnswerInv(s)' /\ AnswerInv(o)'
      PROVE  StepInv'
  <2>1. Flow({}) /\ Payload({})
    BY <1>0, <1>1, ReadingFlows DEF Payload
  <2>2. ASSUME Smooth, NoneFailed, ~r.failed
        PROVE  Steady(r) /\ Checked(r) /\ Heard(s)' /\ Heard(o)' /\ AnswerInv(s)' /\ AnswerInv(o)'
    <3>1. PICK c, n : Hears(s, c, n)
      BY <1>s, <2>2 DEF Heard
    <3>2. /\ Steady(r) /\ Checked(r)
          /\ r.current = c[1] /\ r.rxEnded = 1 .. n[1] /\ r.rxBatch \in {n[1], n[1] + 1}
          /\ r.rxBatch \in 1 .. st[o].batch
          /\ Head(chan[s]).t = "FILE" => n[0] + 1 \in r.moved
          /\ r.moved \subseteq me.moved \cup st[o].moved
          /\ AnswerInv(s)' /\ AnswerInv(o)'
      BY <1>1, <2>2, <3>1
    <3>3. st'[s] = r /\ st'[o] = st[o] /\ chan'[s] = Tail(chan[s]) /\ chan'[o] = chan[o]
      BY <1>0, <1>1, <1>x, Consuming
    <3>4. Heard(s)'
      BY <1>0, <1>1, <1>x, <3>1, <3>2, <3>3, ReceiverReads
    <3>5. Heard(o)'
      <4>1. /\ Heard(o) /\ UNCHANGED <<chan[o], st[o]>>
            /\ Announcing(st'[s]) = Announcing(st[s]) /\ EndsSent(st'[s]) = EndsSent(st[s])
            /\ st[s].batch \in Nat /\ st'[s].batch \in Nat /\ st'[s].batch >= st[s].batch
            /\ st[s].moved \subseteq st'[s].moved /\ st'[s].moved \subseteq st[s].moved \cup st[o].moved
        BY <1>0, <1>1, <1>s, <1>x, <2>2, <3>2, <3>3, SideParts
      <4>. QED  BY <1>0, <1>x, <4>1, SenderSilent
    <3>. QED  BY <3>2, <3>4, <3>5
  <2>3. Runs(s) /\ Established(s) /\ r.phase \notin {"start", "address", "auth"} /\ (st[s].failed => r.failed)
    BY <1>1, <1>x DEF Listens, Established
  <2>. QED  BY <1>1, <1>x, <2>1, <2>2, <2>3, Stepping
\* What reading does to the answers of either side
<1>2. ASSUME chan[s] # <<>>, chan' = Consumed(s), Smooth, NoneFailed, st'[o] = st[o],
             st'[s].files = me.files, st'[s].toSend = me.toSend
      PROVE  /\ \A t, w : FileMsg(t, w) # Head(chan[s]) =>
                   /\ Has(chan'[s], FileMsg(t, w)) <=> Has(chan[s], FileMsg(t, w))
                   /\ Once(chan[s], FileMsg(t, w)) => Once(chan'[s], FileMsg(t, w))
             /\ Head(chan[s]).t \notin {"GOT", "SKIP"} /\ st'[s].awaiting = me.awaiting => AnswerInv(s)'
             /\ /\ Head(chan[s]).t # "FILE"
                /\ st'[s].current = me.current /\ st'[s].owed = me.owed
                => AnswerInv(o)'
  <2>. DEFINE h == Head(chan[s])
  <2>1. chan'[s] = Tail(chan[s]) /\ chan'[o] = chan[o] /\ h \in Frame
    BY <1>0, <1>2, <1>x, Consuming, HasTail
  <2>2. \A t, w : FileMsg(t, w) # h =>
           /\ Has(chan'[s], FileMsg(t, w)) <=> Has(chan[s], FileMsg(t, w))
           /\ Once(chan[s], FileMsg(t, w)) => Once(chan'[s], FileMsg(t, w))
    BY <1>0, <1>2, <2>1, OneFrame
  <2>3. \A t, w : FileMsg(t, w).t = t
    BY FrameParts
  <2>4. \A k \in {s, o} : AnswerInv(k) /\ st[k].toSend \cap st[k].awaiting = {}
    BY <1>2, <1>s DEF AnswerInv
  <2>. HIDE DEF h
  <2>5. ASSUME h.t \notin {"GOT", "SKIP"}, st'[s].awaiting = me.awaiting PROVE AnswerInv(s)'
    <3>1. \A t \in {"GOT", "SKIP"} : \A w :
             /\ Has(chan'[s], FileMsg(t, w)) <=> Has(chan[s], FileMsg(t, w))
             /\ Once(chan[s], FileMsg(t, w)) => Once(chan'[s], FileMsg(t, w))
      BY <2>2, <2>3, <2>5
    <3>2. /\ st'[s].awaiting = st[s].awaiting /\ st[s].files \subseteq st'[s].files
          /\ st'[s].toSend \cap st[s].awaiting = {}
      BY <1>2, <1>x, <2>4, <2>5
    <3>. QED  BY <1>2, <1>x, <2>1, <2>4, <3>1, <3>2, AnswersStay
  <2>6. ASSUME h.t # "FILE", st'[s].current = me.current, st'[s].owed = me.owed PROVE AnswerInv(o)'
    <3>1. \A w : Has(chan'[s], FileMsg("FILE", w)) <=> Has(chan[s], FileMsg("FILE", w))
      BY <2>2, <2>3, <2>6
    <3>2. st'[s].current = st[s].current /\ st'[s].owed = st[s].owed
      BY <1>x, <2>6
    <3>. QED  BY <1>2, <1>x, <2>1, <2>4, <3>1, <3>2, AnswersStay
  <2>. QED  BY <2>2, <2>5, <2>6 DEF h
<1>3. CASE ReceiveFile(s)
  <2>. DEFINE h == Head(chan[s])
              f == h.f
              b == Counting(me)
              y == Announced(me)
              r == st'[s]
  <2>1. /\ Listens(s) /\ me.owed = NothingOwed /\ chan[s] # <<>> /\ h.t = "FILE"
        /\ me.current = NoFile /\ chan' = Consumed(s) /\ UNCHANGED <<multi, login, over, faulty, outrun>>
    BY <1>3 DEF ReceiveFile, Takes, Listens, Next1, Aside, Settings, me
  <2>2. IF f \in EmptyFiles THEN Finished(s, y, f) ELSE Becomes(s, [y EXCEPT !.current = f])
    BY <1>3 DEF ReceiveFile, Takes, me
  <2>3. h = FileMsg("FILE", f) /\ f \in Files /\ ~Has(chan'[s], FileMsg("FILE", f))
        /\ Has(chan[s], FileMsg("FILE", f))
    BY <2>1, Arrived
  <2>4. b \in Nat /\ b >= me.rxBatch /\ y = [me EXCEPT !.rxBatch = b, !.moved = @ \cup {b}]
    BY <1>0, Counted
  <2>. HIDE DEF h, f, b, y
  <2>5. /\ y \in SideRec
        /\ y.toSend = me.toSend /\ y.awaiting = me.awaiting /\ y.files = me.files
        /\ y.moved = me.moved \cup {b} /\ y.batch = me.batch /\ y.eobSent = me.eobSent
        /\ y.rxBatch = b /\ y.rxEnded = me.rxEnded
        /\ y.wake = me.wake /\ y.done = me.done /\ y.failed = me.failed /\ y.hungUp = me.hungUp
        /\ y.owed = me.owed /\ y.phase = me.phase /\ y.sending = me.sending
    BY <1>0, <2>4 DEF SideRec
  <2>6. /\ st' = [st EXCEPT ![s] = r]
        /\ r.toSend = me.toSend /\ r.awaiting = me.awaiting /\ r.files = me.files
        /\ r.moved = me.moved \cup {b} /\ r.batch = me.batch /\ r.eobSent = me.eobSent
        /\ r.rxBatch = b /\ r.rxEnded = me.rxEnded
        /\ r.wake = me.wake /\ r.done = me.done /\ r.failed = me.failed /\ r.hungUp = me.hungUp
        /\ r.phase = me.phase /\ r.sending = me.sending
        /\ r.current = IF f \in EmptyFiles THEN NoFile ELSE f
        /\ IF f \in EmptyFiles THEN r.owed \in {FileMsg("GOT", f), FileMsg("SKIP", f)}
           ELSE r.owed = NothingOwed
    <3>1. CASE f \in EmptyFiles
      <4>1. Finished(s, y, f) /\ y \in SideRec
        BY <2>2, <2>5, <3>1
      <4>2. /\ st' = [st EXCEPT ![s] = r]
            /\ r.toSend = y.toSend /\ r.awaiting = y.awaiting /\ r.files = y.files
            /\ r.moved = y.moved /\ r.batch = y.batch /\ r.eobSent = y.eobSent
            /\ r.rxBatch = y.rxBatch /\ r.rxEnded = y.rxEnded /\ r.current = NoFile
            /\ r.wake = y.wake /\ r.done = y.done /\ r.failed = y.failed /\ r.hungUp = y.hungUp
            /\ r.owed \in {FileMsg("GOT", f), FileMsg("SKIP", f)}
            /\ r.phase = y.phase /\ r.sending = y.sending
        BY <1>0, <4>1, FinishedParts
      <4>. HIDE DEF r
      <4>. QED  BY <2>5, <3>1, <4>2
    <3>2. CASE f \notin EmptyFiles
      <4>1. Becomes(s, [y EXCEPT !.current = f])
        BY <2>2, <3>2
      <4>2. r = [y EXCEPT !.current = f] /\ st' = [st EXCEPT ![s] = r]
        BY <1>0, <4>1 DEF Becomes
      <4>. HIDE DEF r
      <4>. QED  BY <2>1, <2>5, <3>2, <4>2 DEF SideRec
    <3>. QED  BY <3>1, <3>2
  <2>7. r \in SideRec
    BY <1>0
  <2>. HIDE DEF r
  <2>8. ASSUME Smooth, NoneFailed, ~r.failed, NEW c, NEW n, Hears(s, c, n)
        PROVE  /\ Steady(r) /\ Checked(r)
               /\ r.current = c[1] /\ r.rxEnded = 1 .. n[1] /\ r.rxBatch \in {n[1], n[1] + 1}
               /\ r.rxBatch \in 1 .. st[o].batch
               /\ Head(chan[s]).t = "FILE" => n[0] + 1 \in r.moved
               /\ r.moved \subseteq me.moved \cup st[o].moved
               /\ AnswerInv(s)' /\ AnswerInv(o)'
    <3>1. /\ n[0] \in Nat /\ Reads(h, c[0], n[0], c[1], n[1])
          /\ n[0] + 1 \in st[o].moved /\ n[0] + 1 <= st[o].batch
      BY <1>x, <2>1, <2>8, Distance DEF h
    <3>2. c[1] = (IF f \in EmptyFiles THEN NoFile ELSE f) /\ n[1] = n[0]
      BY <2>1, <3>1 DEF Reads, f
    <3>3. b = n[0] + 1 /\ b \in 1 .. st[o].batch
      BY <1>s, <1>x, <2>8, <3>1, CountedRight DEF b
    <3>4. me.rxEnded = 1 .. n[0]
      BY <1>x, <2>8 DEF Hears
    <3>5. Steady(r)
      <4>1. me.batch - 1 \in me.moved \/ me.rxBatch >= me.batch =>
               me.batch - 1 \in r.moved \/ r.rxBatch >= me.batch
        BY <1>p, <2>4, <2>6
      <4>. QED  BY <1>d, <1>s, <2>1, <2>6, <2>8, <4>1 DEF Steady
    <3>6. Checked(r)
      <4>1. CASE f \in EmptyFiles
        <5>1. r.owed # NothingOwed
          BY <2>3, <2>6, <4>1, FrameParts, BinkpAssumption DEF NothingOwed, BinkpAssumption
        <5>. QED  BY <5>1 DEF Checked
      <4>2. CASE f \notin EmptyFiles
        BY <1>d, <1>s, <2>1, <2>6, <2>8, <4>2 DEF Checked, BatchOver
      <4>. QED  BY <4>1, <4>2
    <3>7. /\ st'[o] = st[o] /\ chan'[o] = chan[o] /\ st'[s] = r
      BY <1>0, <1>x, <2>1, <2>6, Consuming DEF r
    <3>8. AnswerInv(s)'
      BY <1>2, <2>1, <2>6, <2>8, <3>7 DEF h
    <3>9. AnswerInv(o)'
      <4>1. \A w : w # f => (Has(chan'[s], FileMsg("FILE", w)) <=> Has(chan[s], FileMsg("FILE", w)))
        <5>1. \A w : w # f => FileMsg("FILE", w) # Head(chan[s])
          BY <2>3, FrameParts DEF h
        <5>. QED  BY <1>2, <2>1, <2>6, <2>8, <3>7, <5>1
      <4>2. AnswerInv(o)
        BY <1>s, <2>8
      <4>3. st[s].owed = NothingOwed /\ st[s].current = NoFile
        BY <1>x, <2>1
      <4>4. \/ st'[s].current = f /\ st'[s].owed = NothingOwed
            \/ st'[s].current = NoFile /\ st'[s].owed \in {FileMsg("GOT", f), FileMsg("SKIP", f)}
        BY <2>6, <3>7
      <4>. QED  BY <1>x, <2>3, <3>7, <4>1, <4>2, <4>3, <4>4, AnswersMove
    <3>. QED  BY <2>6, <3>1, <3>2, <3>3, <3>4, <3>5, <3>6, <3>8, <3>9
  <2>9. /\ Announcing(r) = Announcing(me) /\ EndsSent(r) = EndsSent(me) /\ r.batch >= me.batch
        /\ me.moved \subseteq r.moved /\ (r.failed => r.done) /\ (me.failed => r.failed)
    BY <1>e, <1>p, <2>6 DEF Announcing, EndsSent
  <2>. QED  BY <1>1, <2>1, <2>6, <2>7, <2>8, <2>9
<1>4. CASE ReceiveData(s)
  <2>. DEFINE h == Head(chan[s])
              f == me.current
              r == st'[s]
  <2>1. /\ Listens(s) /\ me.owed = NothingOwed /\ chan[s] # <<>> /\ h.t = "DATA"
        /\ f = h.f /\ chan' = Consumed(s) /\ UNCHANGED <<multi, login, over, faulty, outrun>>
        /\ Finished(s, me, f)
    BY <1>4 DEF ReceiveData, Takes, Listens, Next1, Aside, Settings, me
  <2>2. f \in Files
    BY <2>1, Arrived
  <2>3. /\ st' = [st EXCEPT ![s] = r]
        /\ r.toSend = me.toSend /\ r.awaiting = me.awaiting /\ r.files = me.files
        /\ r.moved = me.moved /\ r.batch = me.batch /\ r.eobSent = me.eobSent
        /\ r.rxBatch = me.rxBatch /\ r.rxEnded = me.rxEnded /\ r.current = NoFile
        /\ r.wake = me.wake /\ r.done = me.done /\ r.failed = me.failed /\ r.hungUp = me.hungUp
        /\ r.owed \in {FileMsg("GOT", f), FileMsg("SKIP", f)}
        /\ r.phase = me.phase /\ r.sending = me.sending
    BY <1>0, <2>1, FinishedParts
  <2>4. r \in SideRec
    BY <1>0
  <2>5. ~Has(chan[s], FileMsg("FILE", f))
    <3>1. FileInv(o, f)
      BY <1>x, <2>2 DEF SessionInv, FilesInv
    <3>. QED  BY <1>x, <3>1 DEF FileInv
  <2>. HIDE DEF h, r
  <2>6. ASSUME Smooth, NoneFailed, ~r.failed, NEW c, NEW n, Hears(s, c, n)
        PROVE  /\ Steady(r) /\ Checked(r)
               /\ r.current = c[1] /\ r.rxEnded = 1 .. n[1] /\ r.rxBatch \in {n[1], n[1] + 1}
               /\ r.rxBatch \in 1 .. st[o].batch
               /\ Head(chan[s]).t = "FILE" => n[0] + 1 \in r.moved
               /\ r.moved \subseteq me.moved \cup st[o].moved
               /\ AnswerInv(s)' /\ AnswerInv(o)'
    <3>1. Reads(h, c[0], n[0], c[1], n[1])
      BY <2>1, <2>6, Distance DEF h
    <3>2. c[1] = NoFile /\ n[1] = n[0]
      BY <2>1, <3>1 DEF Reads
    <3>3. /\ me.rxEnded = 1 .. n[0] /\ me.rxBatch \in {n[0], n[0] + 1}
          /\ me.rxBatch \in 1 .. st[o].batch
      BY <1>x, <2>6 DEF Hears
    <3>4. Steady(r)
      BY <1>d, <1>s, <2>1, <2>3, <2>6 DEF Steady
    <3>5. Checked(r)
      <4>1. r.owed # NothingOwed
        BY <2>2, <2>3, FrameParts, BinkpAssumption DEF NothingOwed, BinkpAssumption
      <4>. QED  BY <4>1 DEF Checked
    <3>6. /\ st'[o] = st[o] /\ chan'[o] = chan[o] /\ st'[s] = r
      BY <1>0, <1>x, <2>1, <2>3, Consuming DEF r
    <3>7. AnswerInv(s)'
      BY <1>2, <2>1, <2>3, <2>6, <3>6 DEF h
    <3>8. AnswerInv(o)'
      <4>1. \A w : Has(chan'[s], FileMsg("FILE", w)) <=> Has(chan[s], FileMsg("FILE", w))
        <5>1. \A w : FileMsg("FILE", w) # Head(chan[s])
          BY <2>1, FrameParts DEF h
        <5>. QED  BY <1>2, <2>1, <2>3, <2>6, <3>6, <5>1
      <4>2. AnswerInv(o) /\ st[s].owed = NothingOwed /\ st[s].current = f
        BY <1>s, <1>x, <2>1, <2>6
      <4>3. st'[s].current = NoFile /\ st'[s].owed \in {FileMsg("GOT", f), FileMsg("SKIP", f)}
        BY <2>3, <3>6
      <4>. HIDE DEF f
      <4>. QED  BY <1>x, <2>2, <2>5, <3>6, <4>1, <4>2, <4>3, AnswersMove
    <3>. QED  BY <2>1, <2>3, <3>2, <3>3, <3>4, <3>5, <3>7, <3>8 DEF h
  <2>7. /\ Announcing(r) = Announcing(me) /\ EndsSent(r) = EndsSent(me) /\ r.batch >= me.batch
        /\ me.moved \subseteq r.moved /\ (r.failed => r.done) /\ (me.failed => r.failed)
    BY <1>e, <1>p, <2>3 DEF Announcing, EndsSent
  <2>. QED  BY <1>1, <2>1, <2>3, <2>4, <2>6, <2>7
<1>5. CASE ReceiveAnswer(s)
  <2>. DEFINE h == Head(chan[s])
              x == Confirmed(me, h)
              r == CheckDone(x)
  <2>1. /\ Listens(s) /\ chan[s] # <<>> /\ h.t \in {"GOT", "SKIP"}
        /\ chan' = Consumed(s) /\ UNCHANGED <<multi, login, over, faulty, outrun>>
        /\ st' = [st EXCEPT ![s] = r]
    BY <1>5 DEF ReceiveAnswer, Takes, Listens, Next1, Becomes, Aside, Settings, History, me
  <2>2. h \in Frame /\ h = FileMsg(h.t, h.f) /\ Has(chan[s], FileMsg(h.t, h.f))
    BY <2>1, Arrived
  <2>. HIDE DEF h
  <2>3. /\ x \in SideRec /\ x.toSend = me.toSend /\ x.awaiting = me.awaiting \ {h.f}
        /\ x.files = me.files /\ x.owed = me.owed /\ x.done = me.done /\ x.phase = me.phase
        /\ x.sending = me.sending /\ x.current = me.current
    <3>1. me \in SideRec
      BY <1>0
    <3>. QED  BY <3>1, AnswerTaken, Zenon
  <2>4. /\ x.moved = me.moved /\ x.batch = me.batch /\ x.eobSent = me.eobSent
        /\ x.rxBatch = me.rxBatch /\ x.rxEnded = me.rxEnded
        /\ x.wake = me.wake /\ x.failed = me.failed /\ x.hungUp = me.hungUp
    BY <1>0 DEF Confirmed, SideRec
  <2>. HIDE DEF x
  <2>5. /\ r \in SideRec /\ r.toSend = x.toSend /\ r.awaiting = x.awaiting /\ r.files = x.files
        /\ r.current = x.current /\ r.owed = x.owed /\ r.phase = x.phase
    BY <2>3, CheckingDone
  <2>6. /\ r.rxBatch = x.rxBatch /\ r.rxEnded = x.rxEnded /\ r.moved = x.moved /\ r.batch >= x.batch
        /\ Announcing(r) = Announcing(x) /\ EndsSent(r) = EndsSent(x)
        /\ x.failed => r.failed
        /\ (x.failed => x.done) => (r.failed => r.done)
        /\ Steady(x) /\ ~r.failed => Steady(r) /\ Checked(r)
    BY <2>3, CheckKeeps
  <2>. HIDE DEF r
  <2>7. ASSUME Smooth, NoneFailed, ~r.failed, NEW c, NEW n, Hears(s, c, n)
        PROVE  /\ Steady(r) /\ Checked(r)
               /\ r.current = c[1] /\ r.rxEnded = 1 .. n[1] /\ r.rxBatch \in {n[1], n[1] + 1}
               /\ r.rxBatch \in 1 .. st[o].batch
               /\ Head(chan[s]).t = "FILE" => n[0] + 1 \in r.moved
               /\ r.moved \subseteq me.moved \cup st[o].moved
               /\ AnswerInv(s)' /\ AnswerInv(o)'
    <3>1. Reads(h, c[0], n[0], c[1], n[1])
      BY <2>1, <2>7, Distance DEF h
    <3>2. c[1] = c[0] /\ n[1] = n[0]
      BY <2>1, <3>1 DEF Reads
    <3>3. /\ c[0] = me.current /\ me.rxEnded = 1 .. n[0] /\ me.rxBatch \in {n[0], n[0] + 1}
          /\ me.rxBatch \in 1 .. st[o].batch
      BY <1>x, <2>7 DEF Hears
    <3>4. Steady(x)
      BY <1>d, <1>s, <2>1, <2>3, <2>4, <2>7 DEF Steady
    <3>5. st'[o] = st[o] /\ chan'[o] = chan[o] /\ st'[s] = r /\ chan'[s] = Tail(chan[s])
      BY <1>0, <1>x, <2>1, Consuming
    <3>6. AnswerInv(o)'
      BY <1>2, <2>1, <2>3, <2>5, <2>7, <3>5 DEF h
    <3>7. AnswerInv(s)'
      <4>. PICK f : f = h.f
        OBVIOUS
      <4>1. AnswerInv(s) /\ Coming(s, f) /\ f \in Files
        <5>1. AnswerInv(s) /\ Coming(s, f)
          BY <1>s, <2>1, <2>2, <2>7 DEF Coming
        <5>. QED  BY <5>1 DEF AnswerInv
      <4>2. Once(chan[s], h) => ~Has(chan'[s], h)
        BY <1>0, <2>1, <3>5, HasTail DEF h
      <4>3. \A t \in {"GOT", "SKIP"} : \A w : FileMsg(t, w) # h =>
               /\ Has(chan'[s], FileMsg(t, w)) <=> Has(chan[s], FileMsg(t, w))
               /\ Once(chan[s], FileMsg(t, w)) => Once(chan'[s], FileMsg(t, w))
        BY <1>2, <2>1, <2>3, <2>5, <2>7, <3>5 DEF h
      <4>4. ASSUME NEW g, g # f
            PROVE  /\ Going(s, g)' <=> Going(s, g)
                   /\ Owing(s, g)' <=> Owing(s, g)
                   /\ Coming(s, g)' <=> Coming(s, g)
        <5>1. FileMsg("GOT", g) # h /\ FileMsg("SKIP", g) # h
          BY <4>4, FrameParts
        <5>. QED  BY <1>x, <3>5, <4>3, <5>1 DEF Going, Owing, Coming
      <4>5. ~Going(s, f)' /\ ~Owing(s, f)'
        <5>1. ~Going(s, f) /\ ~Owing(s, f)
          BY <4>1 DEF AnswerInv
        <5>. QED  BY <1>x, <3>5, <5>1 DEF Going, Owing
      <4>6. ~Coming(s, f)'
        <5>1. /\ Once(chan[s], FileMsg("GOT", f)) /\ Once(chan[s], FileMsg("SKIP", f))
              /\ ~(Has(chan[s], FileMsg("GOT", f)) /\ Has(chan[s], FileMsg("SKIP", f)))
          BY <4>1 DEF AnswerInv
        <5>2. CASE h.t = "GOT"
          <6>1. ~Has(chan'[s], FileMsg("GOT", f)) /\ ~Has(chan[s], FileMsg("SKIP", f))
            BY <2>2, <4>2, <5>1, <5>2
          <6>2. FileMsg("SKIP", f) # h
            BY <5>2, FrameParts
          <6>. QED  BY <4>3, <6>1, <6>2 DEF Coming
        <5>3. CASE h.t = "SKIP"
          <6>1. ~Has(chan'[s], FileMsg("SKIP", f)) /\ ~Has(chan[s], FileMsg("GOT", f))
            BY <2>2, <4>2, <5>1, <5>3
          <6>2. FileMsg("GOT", f) # h
            BY <5>3, FrameParts
          <6>. QED  BY <4>3, <6>1, <6>2 DEF Coming
        <5>. QED  BY <2>1, <5>2, <5>3
      <4>7. /\ st'[s].awaiting = me.awaiting \ {f} /\ st'[s].files = me.files
            /\ st'[s].toSend = me.toSend
        BY <2>3, <2>5, <3>5
      <4>8. \A g \in Files :
               /\ g \in st'[s].awaiting <=> Going(s, g)' \/ Owing(s, g)' \/ Coming(s, g)'
               /\ ~(Going(s, g)' /\ Owing(s, g)') /\ ~(Going(s, g)' /\ Coming(s, g)')
               /\ ~(Owing(s, g)' /\ Coming(s, g)')
        <5>. SUFFICES ASSUME NEW g \in Files
                      PROVE  /\ g \in st'[s].awaiting <=> Going(s, g)' \/ Owing(s, g)' \/ Coming(s, g)'
                             /\ ~(Going(s, g)' /\ Owing(s, g)') /\ ~(Going(s, g)' /\ Coming(s, g)')
                             /\ ~(Owing(s, g)' /\ Coming(s, g)')
          OBVIOUS
        <5>1. CASE g = f
          BY <4>5, <4>6, <4>7, <5>1
        <5>2. CASE g # f
          <6>1. /\ g \in st[s].awaiting <=> Going(s, g) \/ Owing(s, g) \/ Coming(s, g)
                /\ ~(Going(s, g) /\ Owing(s, g)) /\ ~(Going(s, g) /\ Coming(s, g))
                /\ ~(Owing(s, g) /\ Coming(s, g))
            BY <4>1 DEF AnswerInv
          <6>2. g \in st'[s].awaiting <=> g \in st[s].awaiting
            BY <1>x, <4>7, <5>2
          <6>. QED  BY <4>4, <5>2, <6>1, <6>2
        <5>. QED  BY <5>1, <5>2
      <4>9. /\ st'[s].awaiting \subseteq st'[s].files /\ st'[s].toSend \cap st'[s].awaiting = {}
            /\ \A w : Coming(s, w)' => w \in Files
        BY <1>x, <4>1, <4>4, <4>7 DEF AnswerInv
      <4>10. \A g \in Files :
                /\ Once(chan'[s], FileMsg("GOT", g)) /\ Once(chan'[s], FileMsg("SKIP", g))
                /\ ~(Has(chan'[s], FileMsg("GOT", g)) /\ Has(chan'[s], FileMsg("SKIP", g)))
        <5>1. \A m : /\ Once(chan[s], m) => Once(chan'[s], m)
                     /\ Has(chan'[s], m) => Has(chan[s], m)
          BY <1>0, <2>1, <3>5, HasTail
        <5>. QED  BY <4>1, <5>1 DEF AnswerInv
      <4>. QED  BY <4>8, <4>9, <4>10 DEF AnswerInv
    <3>. QED  BY <2>1, <2>3, <2>4, <2>5, <2>6, <2>7, <3>2, <3>3, <3>4, <3>6, <3>7 DEF h
  <2>8. /\ Announcing(r) = Announcing(me) /\ EndsSent(r) = EndsSent(me) /\ r.batch >= me.batch
        /\ me.moved \subseteq r.moved /\ (r.failed => r.done) /\ (me.failed => r.failed)
    <3>1. Announcing(x) = Announcing(me) /\ EndsSent(x) = EndsSent(me)
      BY <2>3, <2>4 DEF Announcing, EndsSent
    <3>. QED  BY <1>e, <2>3, <2>4, <2>6, <3>1
  <2>. QED  BY <1>1, <2>1, <2>3, <2>5, <2>7, <2>8
<1>6. CASE ReceiveEob(s)
  <2>. DEFINE h == Head(chan[s])
              b == Counting(me)
              x == Ended(me)
              r == CheckDone(x)
  <2>1. /\ Listens(s) /\ chan[s] # <<>> /\ h.t = "EOB" /\ me.current = NoFile
        /\ chan' = Consumed(s) /\ UNCHANGED <<multi, login, over, faulty, outrun>>
        /\ st' = [st EXCEPT ![s] = r]
    BY <1>6 DEF ReceiveEob, Takes, Listens, Next1, Becomes, Aside, Settings, History, me
  <2>2. b \in Nat /\ b >= me.rxBatch /\ x = [me EXCEPT !.rxBatch = b, !.rxEnded = @ \cup {b}]
    BY <1>0, Counted
  <2>. HIDE DEF h, b, x
  <2>3. /\ x \in SideRec
        /\ x.toSend = me.toSend /\ x.awaiting = me.awaiting /\ x.files = me.files
        /\ x.moved = me.moved /\ x.batch = me.batch /\ x.eobSent = me.eobSent
        /\ x.rxBatch = b /\ x.rxEnded = me.rxEnded \cup {b} /\ x.current = me.current
        /\ x.wake = me.wake /\ x.done = me.done /\ x.failed = me.failed /\ x.hungUp = me.hungUp
        /\ x.owed = me.owed /\ x.phase = me.phase /\ x.sending = me.sending
    BY <1>0, <2>2 DEF SideRec
  <2>4. /\ r \in SideRec /\ r.toSend = x.toSend /\ r.awaiting = x.awaiting /\ r.files = x.files
        /\ r.current = x.current /\ r.owed = x.owed /\ r.phase = x.phase
    BY <2>3, CheckingDone
  <2>5. /\ r.rxBatch = x.rxBatch /\ r.rxEnded = x.rxEnded /\ r.moved = x.moved /\ r.batch >= x.batch
        /\ Announcing(r) = Announcing(x) /\ EndsSent(r) = EndsSent(x)
        /\ x.failed => r.failed
        /\ (x.failed => x.done) => (r.failed => r.done)
        /\ Steady(x) /\ ~r.failed => Steady(r) /\ Checked(r)
    BY <2>3, CheckKeeps
  <2>. HIDE DEF r
  <2>6. ASSUME Smooth, NoneFailed, ~r.failed, NEW c, NEW n, Hears(s, c, n)
        PROVE  /\ Steady(r) /\ Checked(r)
               /\ r.current = c[1] /\ r.rxEnded = 1 .. n[1] /\ r.rxBatch \in {n[1], n[1] + 1}
               /\ r.rxBatch \in 1 .. st[o].batch
               /\ Head(chan[s]).t = "FILE" => n[0] + 1 \in r.moved
               /\ r.moved \subseteq me.moved \cup st[o].moved
               /\ AnswerInv(s)' /\ AnswerInv(o)'
    <3>1. /\ n[0] \in Nat /\ Reads(h, c[0], n[0], c[1], n[1])
          /\ n[1] <= EndsSent(st[o]) /\ EndsSent(st[o]) <= st[o].batch
      BY <1>x, <2>1, <2>6, Distance DEF h
    <3>2. c[1] = NoFile /\ n[1] = n[0] + 1
      BY <2>1, <3>1 DEF Reads
    <3>3. n[0] + 1 <= st[o].batch
      <4>1. EndsSent(st[o]) \in Int /\ st[o].batch \in Int
        BY <1>0, SideParts DEF EndsSent
      <4>. QED  BY <3>1, <3>2, <4>1
    <3>4. b = n[0] + 1 /\ b \in 1 .. st[o].batch
      BY <1>s, <1>x, <2>6, <3>3, CountedRight DEF b
    <3>5. me.rxEnded = 1 .. n[0]
      BY <1>x, <2>6 DEF Hears
    <3>6. x.rxEnded = 1 .. n[1]
      BY <2>3, <3>1, <3>2, <3>4, <3>5
    <3>7. Steady(x)
      <4>1. me.batch - 1 \in me.moved \/ me.rxBatch >= me.batch =>
               me.batch - 1 \in x.moved \/ x.rxBatch >= me.batch
        BY <1>p, <2>2, <2>3
      <4>. QED  BY <1>d, <1>s, <2>1, <2>3, <2>6, <4>1 DEF Steady
    <3>8. st'[o] = st[o] /\ st'[s] = r
      BY <1>0, <1>x, <2>1
    <3>9. AnswerInv(s)' /\ AnswerInv(o)'
      BY <1>2, <2>1, <2>3, <2>4, <2>6, <3>8 DEF h
    <3>. QED  BY <2>1, <2>3, <2>4, <2>5, <2>6, <3>2, <3>4, <3>6, <3>7, <3>9 DEF h
  <2>7. /\ Announcing(r) = Announcing(me) /\ EndsSent(r) = EndsSent(me) /\ r.batch >= me.batch
        /\ me.moved \subseteq r.moved /\ (r.failed => r.done) /\ (me.failed => r.failed)
    <3>1. Announcing(x) = Announcing(me) /\ EndsSent(x) = EndsSent(me)
      BY <2>3 DEF Announcing, EndsSent
    <3>. QED  BY <1>e, <2>3, <2>5, <3>1
  <2>. QED  BY <1>1, <2>1, <2>3, <2>4, <2>6, <2>7
<1>7. CASE SendGot(s)
  <2>. DEFINE x == [me EXCEPT !.owed = NothingOwed]
              r == CheckDone(x)
              m == me.owed
  <2>1. /\ Runs(s) /\ m # NothingOwed /\ st' = [st EXCEPT ![s] = r] /\ Send(s, m)
        /\ UNCHANGED <<multi, login, over, faulty, outrun>>
    BY <1>7 DEF SendGot, Becomes, Aside, Settings, History, me
  <2>2. Established(s)
    BY <2>1, <1>x DEF SessionInv, FilesInv, SideInv
  <2>3. PICK t \in {"GOT", "SKIP"}, f \in Files : m = FileMsg(t, f)
    BY <1>0, <2>1 DEF SideRec, FileMsg, NothingOwed
  <2>4. m \in Frame
    BY <2>3 DEF FileMsg, Frame
  <2>5. Flow({<<o, m>>}) /\ Payload({<<o, m>>})
    <3>1. Flow({<<o, m>>})
      BY <1>0, <1>x, <2>1, <2>4, SendFlows
    <3>. QED  BY <1>x, <2>3, <3>1 DEF Payload
  <2>6. /\ x \in SideRec
        /\ x.toSend = me.toSend /\ x.awaiting = me.awaiting /\ x.files = me.files
        /\ x.moved = me.moved /\ x.batch = me.batch /\ x.eobSent = me.eobSent
        /\ x.rxBatch = me.rxBatch /\ x.rxEnded = me.rxEnded /\ x.current = me.current
        /\ x.wake = me.wake /\ x.done = me.done /\ x.failed = me.failed /\ x.hungUp = me.hungUp
        /\ x.owed = NothingOwed /\ x.phase = me.phase /\ x.sending = me.sending
        /\ x.batches = me.batches
    BY <1>0 DEF SideRec, NothingOwed
  <2>. HIDE DEF x, m
  <2>7. /\ r \in SideRec /\ r.toSend = x.toSend /\ r.awaiting = x.awaiting /\ r.files = x.files
        /\ r.current = x.current /\ r.owed = x.owed /\ r.phase = x.phase
    BY <2>6, CheckingDone
  <2>8. /\ r.rxBatch = x.rxBatch /\ r.rxEnded = x.rxEnded /\ r.moved = x.moved /\ r.batch >= x.batch
        /\ Announcing(r) = Announcing(x) /\ EndsSent(r) = EndsSent(x)
        /\ x.failed => r.failed
        /\ (x.failed => x.done) => (r.failed => r.done)
        /\ Steady(x) /\ ~r.failed => Steady(r) /\ Checked(r)
    BY <2>6, CheckKeeps
  <2>. HIDE DEF r
  <2>9. ASSUME Smooth, NoneFailed, ~r.failed
        PROVE  Steady(r) /\ Checked(r) /\ Heard(s)' /\ Heard(o)' /\ AnswerInv(s)' /\ AnswerInv(o)'
    <3>1. Steady(x)
      BY <1>s, <2>6, <2>9 DEF Steady, BatchOver, Another
    <3>2. st'[s] = r /\ st'[o] = st[o]
      BY <1>0, <1>x, <2>1
    <3>3. /\ Owing(o, f) /\ AnswerInv(o) /\ AnswerInv(s) /\ f \in st[o].awaiting
      <4>1. Owing(o, f)
        BY <1>x, <2>3 DEF Owing, m
      <4>. QED  BY <1>s, <2>9, <4>1 DEF AnswerInv
    <3>4. chan'[s] = chan[s] /\ chan'[o] = Append(chan[o], m)
      <4>1. Runs(o)
        BY <1>x, <2>9, <3>3, StillThere
      <4>. QED  BY <1>0, <1>x, <2>1, <2>4, <4>1, Written
    <3>5. Announcing(x) = Announcing(me) /\ EndsSent(x) = EndsSent(me)
      BY <2>6 DEF Announcing, EndsSent
    <3>6. Heard(s)'
      BY <1>s, <1>x, <2>6, <2>7, <2>8, <2>9, <3>2, <3>4, ReceiverSilent
    <3>7. Heard(o)'
      <4>1. m.t \notin {"FILE", "DATA", "EOB"}
        BY <2>3, FrameParts
      <4>2. /\ Heard(o) /\ UNCHANGED st[o] /\ st'[s] = r /\ st[s].batch >= 1
            /\ Announcing(r) = Announcing(st[s]) /\ EndsSent(r) = EndsSent(st[s])
            /\ r.batch >= st[s].batch /\ r.moved = st[s].moved
        BY <1>s, <1>x, <2>6, <2>8, <2>9, <3>2, <3>5 DEF Steady
      <4>. QED  BY <1>x, <2>4, <2>7, <3>4, <4>1, <4>2, HeardMore
    <3>8. \A u, w : FileMsg(u, w) # m =>
             /\ Has(chan'[o], FileMsg(u, w)) <=> Has(chan[o], FileMsg(u, w))
             /\ Once(chan[o], FileMsg(u, w)) => Once(chan'[o], FileMsg(u, w))
      BY <1>0, <2>4, <3>4, OneFrame
    <3>9. AnswerInv(s)'
      <4>1. \A w : Has(chan'[o], FileMsg("FILE", w)) <=> Has(chan[o], FileMsg("FILE", w))
        <5>1. \A w : FileMsg("FILE", w) # m
          BY <2>3, FrameParts
        <5>. QED  BY <3>8, <5>1
      <4>2. /\ UNCHANGED <<chan[s], st[o]>>
            /\ st'[s].awaiting = st[s].awaiting /\ st[s].files \subseteq st'[s].files
            /\ st'[s].toSend \cap st[s].awaiting = {}
        BY <1>x, <2>6, <2>7, <3>2, <3>3, <3>4 DEF AnswerInv
      <4>. QED  BY <1>x, <3>3, <4>1, <4>2, AnswersStay
    <3>10. AnswerInv(o)'
      <4>1. ~Going(o, f) /\ ~Coming(o, f)
        BY <3>3 DEF AnswerInv
      <4>2. \A w \in Files : ~Owing(o, w)'
        BY <1>x, <2>6, <2>7, <3>2, FrameParts, BinkpAssumption DEF Owing, NothingOwed, BinkpAssumption
      <4>3. \A w : Going(o, w)' <=> Going(o, w)
        BY <1>x, <2>6, <2>7, <3>2, <3>4 DEF Going
      <4>4. \A w \in Files : Owing(o, w) => w = f
        BY <1>x, <2>3, FrameParts DEF Owing, m
      <4>5. \A w : Coming(o, w)' <=> Coming(o, w) \/ w = f
        <5>1. \A w : /\ Has(chan'[o], FileMsg("GOT", w)) <=> Has(chan[o], FileMsg("GOT", w)) \/ FileMsg("GOT", w) = m
                     /\ Has(chan'[o], FileMsg("SKIP", w)) <=> Has(chan[o], FileMsg("SKIP", w)) \/ FileMsg("SKIP", w) = m
          BY <1>0, <2>4, <3>4, HasAppend
        <5>2. \A w : FileMsg("GOT", w) = m \/ FileMsg("SKIP", w) = m <=> w = f
          BY <2>3, FrameParts
        <5>. QED  BY <5>1, <5>2 DEF Coming
      <4>6. \A g \in Files :
               /\ g \in st'[o].awaiting <=> Going(o, g)' \/ Owing(o, g)' \/ Coming(o, g)'
               /\ ~(Going(o, g)' /\ Owing(o, g)') /\ ~(Going(o, g)' /\ Coming(o, g)')
               /\ ~(Owing(o, g)' /\ Coming(o, g)')
        BY <3>2, <3>3, <4>1, <4>2, <4>3, <4>4, <4>5 DEF AnswerInv
      <4>7. /\ st'[o].awaiting \subseteq st'[o].files /\ st'[o].toSend \cap st'[o].awaiting = {}
            /\ \A w : Coming(o, w)' => w \in Files
        BY <3>2, <3>3, <4>5 DEF AnswerInv
      <4>8. ASSUME NEW g \in Files
            PROVE  /\ Once(chan'[o], FileMsg("GOT", g)) /\ Once(chan'[o], FileMsg("SKIP", g))
                   /\ ~(Has(chan'[o], FileMsg("GOT", g)) /\ Has(chan'[o], FileMsg("SKIP", g)))
        <5>1. /\ Once(chan[o], FileMsg("GOT", g)) /\ Once(chan[o], FileMsg("SKIP", g))
              /\ ~(Has(chan[o], FileMsg("GOT", g)) /\ Has(chan[o], FileMsg("SKIP", g)))
          BY <3>3 DEF AnswerInv
        <5>2. CASE g # f
          <6>1. FileMsg("GOT", g) # m /\ FileMsg("SKIP", g) # m
            BY <2>3, <5>2, FrameParts
          <6>. QED  BY <3>8, <5>1, <6>1
        <5>3. CASE g = f
          <6>1. ~Has(chan[o], FileMsg("GOT", g)) /\ ~Has(chan[o], FileMsg("SKIP", g))
            BY <4>1, <5>3 DEF Coming
          <6>2. \A n : Once(chan[o], n) /\ ~(n = m /\ Has(chan[o], n)) => Once(chan'[o], n)
            BY <1>0, <2>4, <3>4, HasAppend
          <6>3. \A n : Has(chan'[o], n) <=> Has(chan[o], n) \/ n = m
            BY <1>0, <2>4, <3>4, HasAppend
          <6>4. FileMsg("GOT", g) # FileMsg("SKIP", g)
            BY FrameParts
          <6>. QED  BY <5>1, <6>1, <6>2, <6>3, <6>4
        <5>. QED  BY <5>2, <5>3
      <4>. QED  BY <4>6, <4>7, <4>8 DEF AnswerInv
    <3>. QED  BY <2>8, <2>9, <3>1, <3>6, <3>7, <3>9, <3>10
  <2>10. /\ r.phase \notin {"start", "address", "auth"} /\ (r.failed => r.done) /\ (st[s].failed => r.failed)
    BY <1>e, <1>x, <2>2, <2>6, <2>7, <2>8 DEF Established
  <2>. QED  BY <1>x, <2>1, <2>2, <2>5, <2>7, <2>9, <2>10, Stepping
<1>. QED  BY <1>3, <1>4, <1>5, <1>6, <1>7

-----------------------------------------------------------------------------
(* The handshake keeps two mailers in step.                                  *)

LEMMA FlowParts ==
    ASSUME NEW l, NEW u, NEW v, Flow({<<l, FileMsg(u, v)>>})
    PROVE  \A k \in Sides : \A t, w :
              /\ Has(chan'[k], FileMsg(t, w)) => Has(chan[k], FileMsg(t, w)) \/ (k = l /\ t = u /\ w = v)
              /\ Once(chan[k], FileMsg(t, w)) /\ ~(k = l /\ t = u /\ w = v /\ Has(chan[k], FileMsg(t, w)))
                    => Once(chan'[k], FileMsg(t, w))
<1>. SUFFICES ASSUME NEW k \in Sides, NEW t, NEW w, NEW m, m = FileMsg(t, w)
              PROVE  /\ Has(chan'[k], m) => Has(chan[k], m) \/ (k = l /\ t = u /\ w = v)
                     /\ Once(chan[k], m) /\ ~(k = l /\ t = u /\ w = v /\ Has(chan[k], m)) => Once(chan'[k], m)
  OBVIOUS
<1>1. <<k, m>> \in {<<l, FileMsg(u, v)>>} <=> k = l /\ t = u /\ w = v
  BY FrameParts
<1>. QED  BY <1>1 DEF Flow

\* The first frame is of type t: there is one, and none when it has been read.
LEMMA FirstRead ==
    ASSUME SessionInv, NEW s \in Sides, NEW t, Next1(s, t)
    PROVE  \E w : /\ Head(chan[s]) = FileMsg(t, w) /\ Head(chan[s]).f = w /\ Head(chan[s]) \in Frame
                  /\ Has(chan[s], FileMsg(t, w))
                  /\ chan'[s] = Tail(chan[s]) /\ Once(chan[s], FileMsg(t, w)) => ~Has(chan'[s], FileMsg(t, w))
<1>1. chan[s] \in Seq(Frame) /\ chan[s] # <<>> /\ Head(chan[s]).t = t
  BY DEF SessionInv, SessionType, Next1
<1>2. /\ Head(chan[s]) \in Frame /\ Has(chan[s], Head(chan[s]))
      /\ Once(chan[s], Head(chan[s])) => ~Has(Tail(chan[s]), Head(chan[s]))
  BY <1>1, HasTail
<1>3. Head(chan[s]) = FileMsg(t, Head(chan[s]).f)
  BY <1>1, <1>2, FrameParts
<1>. QED  BY <1>2, <1>3

LEMMA HelloSaid ==
    ASSUME SessionInv, HelloInv, NEW s \in Sides, SayHello(s)
    PROVE  HelloInv'
<1>. DEFINE o == Other(s)
<1>1. o \in Sides /\ o # s /\ Other(o) = s /\ \A k \in Sides : k = s \/ k = o
  BY TwoSides
<1>2. /\ st[s].phase = "start" /\ st'[s].phase = "address" /\ st'[o] = st[o]
      /\ UNCHANGED <<login, over>> /\ Send(s, Msg("ADR"))
  <2>1. st \in [Sides -> SideRec] /\ st[s] \in SideRec
    BY DEF SessionInv, SessionType
  <2>2. st'[s] = [st[s] EXCEPT !.phase = "address"] /\ st'[o] = st[o]
    BY <1>1, <2>1 DEF SayHello, Becomes
  <2>. QED  BY <2>1, <2>2 DEF SayHello, Aside, Settings, SideRec
<1>3. Msg("ADR") \in Frame /\ Msg("ADR") = FileMsg("ADR", NoFile)
  BY FrameParts DEF Msg, Frame
<1>4. Flow({<<o, FileMsg("ADR", NoFile)>>})
  BY <1>2, <1>3, SendFlows DEF SessionInv, SessionType
<1>5. \A k \in Sides : \A t, w :
         /\ Has(chan'[k], FileMsg(t, w)) => Has(chan[k], FileMsg(t, w)) \/ (k = o /\ t = "ADR" /\ w = NoFile)
         /\ Once(chan[k], FileMsg(t, w)) /\ ~(k = o /\ t = "ADR" /\ w = NoFile /\ Has(chan[k], FileMsg(t, w)))
               => Once(chan'[k], FileMsg(t, w))
  BY <1>4, FlowParts
<1>. HIDE DEF o
<1>6. /\ \A k \in Sides : /\ Established(k)' <=> Established(k)
                          /\ st'[k].phase \in Greeting <=> st[k].phase \in Greeting
                          /\ st[k].phase # "start" => st'[k].phase # "start"
      /\ st'[s].phase # "start"
  BY <1>1, <1>2 DEF Established, Greeting
<1>7. "caller" \in Sides /\ "answerer" \in Sides /\ \A k \in Sides : Other(k) \in Sides
  BY TwoSides DEF Sides
<1>8. \A k \in Sides :
         /\ Once(chan'[k], FileMsg("ADR", NoFile))
         /\ \A w : Has(chan'[k], FileMsg("ADR", w)) =>
               w = NoFile /\ st'[k].phase \in Greeting /\ st'[Other(k)].phase # "start"
         /\ st'[k].phase \notin Greeting => st'[Other(k)].phase # "start"
  <2>. SUFFICES ASSUME NEW k \in Sides
                PROVE  /\ Once(chan'[k], FileMsg("ADR", NoFile))
                       /\ \A w : Has(chan'[k], FileMsg("ADR", w)) =>
                             w = NoFile /\ st'[k].phase \in Greeting /\ st'[Other(k)].phase # "start"
                       /\ st'[k].phase \notin Greeting => st'[Other(k)].phase # "start"
    OBVIOUS
  <2>1. /\ Once(chan[k], FileMsg("ADR", NoFile))
        /\ \A w : Has(chan[k], FileMsg("ADR", w)) =>
              w = NoFile /\ st[k].phase \in Greeting /\ st[Other(k)].phase # "start"
        /\ st[k].phase \notin Greeting => st[Other(k)].phase # "start"
    BY <1>3 DEF HelloInv
  <2>2. k = o => /\ Other(k) = s /\ ~Has(chan[k], FileMsg("ADR", NoFile)) /\ st[k].phase \in Greeting
    BY <1>1, <1>2, <2>1
  <2>. QED  BY <1>5, <1>6, <1>7, <2>1, <2>2
<1>9. \A k \in Sides : \A t \in {"PWD", "OK", "ERR"} : \A w :
         /\ Has(chan'[k], FileMsg(t, w)) => Has(chan[k], FileMsg(t, w))
         /\ Once(chan[k], FileMsg(t, w)) => Once(chan'[k], FileMsg(t, w))
  BY <1>5
<1>10. OkWord' = OkWord
  BY <1>2 DEF OkWord
<1>. QED  BY <1>2, <1>3, <1>6, <1>7, <1>8, <1>9, <1>10 DEF HelloInv

LEMMA AddressRead ==
    ASSUME SessionInv, HelloInv, NEW s \in Sides, ReadAddress(s)
    PROVE  HelloInv'
<1>. DEFINE o == Other(s)
<1>1. o \in Sides /\ o # s /\ Other(o) = s /\ \A k \in Sides : k = s \/ k = o
  BY TwoSides
<1>2. /\ st[s].phase = "address" /\ st'[s].phase = "auth" /\ st'[o] = st[o]
      /\ UNCHANGED <<login, over>> /\ Next1(s, "ADR")
      /\ IF s = "caller" THEN Reply(s, FileMsg("PWD", login.password)) ELSE chan' = Consumed(s)
  <2>1. st \in [Sides -> SideRec] /\ st[s] \in SideRec
    BY DEF SessionInv, SessionType
  <2>2. st'[s] = [st[s] EXCEPT !.phase = "auth"] /\ st'[o] = st[o]
    BY <1>1, <2>1 DEF ReadAddress, Becomes
  <2>. QED  BY <2>1, <2>2 DEF ReadAddress, Aside, Settings, SideRec
<1>. HIDE DEF o
<1>3. /\ chan \in [Sides -> Seq(Frame)] /\ chan[s] # <<>> /\ chan'[s] = Tail(chan[s])
      /\ FileMsg("PWD", login.password) \in Frame
  <2>1. chan \in [Sides -> Seq(Frame)] /\ chan[s] # <<>>
        /\ login \in [password : {"none", "right", "wrong"}, expected : BOOLEAN]
    BY <1>2, BinkpAssumption DEF SessionInv, SessionType, Next1, BinkpAssumption
  <2>2. chan'[s] = Tail(chan[s])
    BY <1>1, <1>2, <2>1 DEF Reply, Consumed, o
  <2>3. FileMsg("PWD", login.password) \in Frame
    BY <2>1 DEF FileMsg, Frame, NoFile
  <2>. QED  BY <2>1, <2>2, <2>3
<1>4. \A k \in Sides : \A t, w : t # "PWD" \/ s # "caller" \/ k # "answerer" \/ w # login.password =>
         /\ Has(chan'[k], FileMsg(t, w)) => Has(chan[k], FileMsg(t, w))
         /\ Once(chan[k], FileMsg(t, w)) => Once(chan'[k], FileMsg(t, w))
  <2>1. CASE s = "caller"
    <3>1. Flow({<<"answerer", FileMsg("PWD", login.password)>>})
      BY <1>2, <1>3, <2>1, ReplyFlows DEF Other
    <3>2. \A k \in Sides : \A t, w :
             /\ Has(chan'[k], FileMsg(t, w)) =>
                   Has(chan[k], FileMsg(t, w)) \/ (k = "answerer" /\ t = "PWD" /\ w = login.password)
             /\ Once(chan[k], FileMsg(t, w))
                   /\ ~(k = "answerer" /\ t = "PWD" /\ w = login.password /\ Has(chan[k], FileMsg(t, w)))
                => Once(chan'[k], FileMsg(t, w))
      BY <3>1, FlowParts
    <3>. QED  BY <2>1, <3>2
  <2>2. CASE s # "caller"
    <3>1. Flow({})
      BY <1>2, <1>3, <2>2, ReadingFlows
    <3>. QED  BY <3>1 DEF Flow
  <2>. QED  BY <2>1, <2>2
<1>5. s = "caller" => \A m : Once(chan["answerer"], m) /\ ~Has(chan["answerer"], m) => Once(chan'["answerer"], m)
  <2>. SUFFICES ASSUME s = "caller" PROVE \A m : Once(chan["answerer"], m) /\ ~Has(chan["answerer"], m)
                                                    => Once(chan'["answerer"], m)
    OBVIOUS
  <2>1. Flow({<<o, FileMsg("PWD", login.password)>>}) /\ o = "answerer"
    BY <1>2, <1>3, ReplyFlows DEF o, Other
  <2>. QED  BY <1>1, <2>1 DEF Flow
<1>6. PICK v : /\ Has(chan[s], FileMsg("ADR", v))
               /\ Once(chan[s], FileMsg("ADR", v)) => ~Has(chan'[s], FileMsg("ADR", v))
  BY <1>2, <1>3, FirstRead
<1>7. Msg("ADR") = FileMsg("ADR", NoFile)
  BY FrameParts
<1>8. v = NoFile /\ st[o].phase # "start" /\ \A w : ~Has(chan'[s], FileMsg("ADR", w))
  <2>1. v = NoFile /\ st[o].phase # "start" /\ Once(chan[s], FileMsg("ADR", NoFile))
    BY <1>6, <1>7 DEF HelloInv, o
  <2>2. \A w : Has(chan'[s], FileMsg("ADR", w)) => w = NoFile
    BY <1>4, <1>7 DEF HelloInv
  <2>. QED  BY <1>6, <2>1, <2>2
<1>9. /\ \A k \in Sides : /\ Established(k)' <=> Established(k)
                          /\ st'[k].phase \notin Greeting <=> st[k].phase \notin Greeting \/ k = s
                          /\ st'[k].phase # "start" <=> st[k].phase # "start"
      /\ ~Established(s) /\ st[s].phase \in Greeting
  BY <1>1, <1>2 DEF Established, Greeting
<1>10. "caller" \in Sides /\ "answerer" \in Sides /\ \A k \in Sides : Other(k) \in Sides
  BY TwoSides DEF Sides
<1>11. \A k \in Sides :
          /\ Once(chan'[k], FileMsg("ADR", NoFile))
          /\ \A w : Has(chan'[k], FileMsg("ADR", w)) =>
                w = NoFile /\ st'[k].phase \in Greeting /\ st'[Other(k)].phase # "start"
          /\ st'[k].phase \notin Greeting => st'[Other(k)].phase # "start"
  <2>. SUFFICES ASSUME NEW k \in Sides
                PROVE  /\ Once(chan'[k], FileMsg("ADR", NoFile))
                       /\ \A w : Has(chan'[k], FileMsg("ADR", w)) =>
                             w = NoFile /\ st'[k].phase \in Greeting /\ st'[Other(k)].phase # "start"
                       /\ st'[k].phase \notin Greeting => st'[Other(k)].phase # "start"
    OBVIOUS
  <2>1. /\ Once(chan[k], FileMsg("ADR", NoFile))
        /\ \A w : Has(chan[k], FileMsg("ADR", w)) =>
              w = NoFile /\ st[k].phase \in Greeting /\ st[Other(k)].phase # "start"
        /\ st[k].phase \notin Greeting => st[Other(k)].phase # "start"
    BY <1>7 DEF HelloInv
  <2>2. k = s => st[Other(k)].phase # "start"
    BY <1>8 DEF o
  <2>. QED  BY <1>4, <1>8, <1>9, <1>10, <2>1, <2>2
<1>12. /\ Once(chan'["answerer"], FileMsg("PWD", login.password))
       /\ \A w : Has(chan'["answerer"], FileMsg("PWD", w)) =>
             ~Established("answerer")' /\ st'["caller"].phase \notin Greeting
       /\ \A w : ~Has(chan'["caller"], FileMsg("PWD", w))
  <2>1. /\ Once(chan["answerer"], FileMsg("PWD", login.password))
        /\ \A w : Has(chan["answerer"], FileMsg("PWD", w)) =>
              ~Established("answerer") /\ st["caller"].phase \notin Greeting
        /\ \A w : ~Has(chan["caller"], FileMsg("PWD", w))
        /\ Established("answerer") => st["caller"].phase \notin Greeting
    BY DEF HelloInv
  <2>2. CASE s = "caller"
    <3>1. /\ ~Has(chan["answerer"], FileMsg("PWD", login.password))
          /\ ~Established("answerer")' /\ st'["caller"].phase \notin Greeting
      BY <1>9, <1>10, <2>1, <2>2
    <3>2. "caller" # "answerer"
      OBVIOUS
    <3>3. Once(chan'["answerer"], FileMsg("PWD", login.password))
      BY <1>5, <2>1, <2>2, <3>1
    <3>. QED  BY <1>4, <1>10, <2>1, <2>2, <3>1, <3>2, <3>3
  <2>3. CASE s # "caller"
    <3>1. Once(chan'["answerer"], FileMsg("PWD", login.password))
      BY <1>4, <1>10, <2>1, <2>3
    <3>2. ASSUME NEW w, Has(chan'["answerer"], FileMsg("PWD", w))
          PROVE  ~Established("answerer")' /\ st'["caller"].phase \notin Greeting
      BY <1>4, <1>9, <1>10, <2>1, <2>3, <3>2
    <3>. QED  BY <1>4, <1>10, <2>1, <2>3, <3>1, <3>2
  <2>. QED  BY <2>2, <2>3
<1>13. /\ Once(chan'["caller"], FileMsg("OK", OkWord))
       /\ \A w : Has(chan'["caller"], FileMsg("OK", w)) => Established("answerer")' /\ ~Established("caller")'
       /\ \A w : ~Has(chan'["answerer"], FileMsg("OK", w)) /\ ~Has(chan'["answerer"], FileMsg("ERR", w))
       /\ \A w : Has(chan'["caller"], FileMsg("ERR", w)) => over["answerer"] = "failed"
  BY <1>4, <1>9, <1>10 DEF HelloInv
<1>14. /\ over["caller"] = "failed" => over["answerer"] = "failed"
       /\ over["answerer"] = "failed" => ~Established("answerer")'
       /\ Established("caller")' => Established("answerer")'
       /\ Established("answerer")' => st'["caller"].phase \notin Greeting
  BY <1>9, <1>10 DEF HelloInv
<1>15. OkWord' = OkWord /\ login' = login /\ over' = over
  BY <1>2 DEF OkWord
<1>. QED  BY <1>7, <1>11, <1>12, <1>13, <1>14, <1>15 DEF HelloInv

LEMMA PasswordChecked ==
    ASSUME SessionInv, HelloInv, CheckPassword
    PROVE  HelloInv'
<1>0. /\ st \in [Sides -> SideRec] /\ chan \in [Sides -> Seq(Frame)] /\ over \in [Sides -> {"no", "ok", "failed"}]
      /\ login.expected \in BOOLEAN
      /\ "caller" \in Sides /\ "answerer" \in Sides /\ Other("answerer") = "caller" /\ Other("caller") = "answerer"
  BY BinkpAssumption DEF SessionInv, SessionType, BinkpAssumption, Sides, Other
<1>1. Runs("answerer") /\ st["answerer"].phase = "auth" /\ Next1("answerer", "PWD") /\ UNCHANGED login
  BY DEF CheckPassword, Aside, Settings
<1>2. PICK v : /\ Has(chan["answerer"], FileMsg("PWD", v))
               /\ chan'["answerer"] = Tail(chan["answerer"]) /\ Once(chan["answerer"], FileMsg("PWD", v))
                     => ~Has(chan'["answerer"], FileMsg("PWD", v))
  BY <1>0, <1>1, FirstRead
<1>3. v = login.password /\ st["caller"].phase \notin Greeting /\ ~Established("answerer")
  BY <1>2 DEF SessionInv, SecureInv, HelloInv
<1>4. ASSUME NEW u \in {"OK", "ERR"}, NEW f, FileMsg(u, f) \in Frame, Reply("answerer", FileMsg(u, f)),
             \A k \in Sides : st'[k].phase \in Greeting <=> st[k].phase \in Greeting,
             \A k \in Sides : st'[k].phase = "start" <=> st[k].phase = "start",
             Established("caller")' <=> Established("caller"),
             over'["caller"] = over["caller"],
             IF u = "ERR" THEN over'["answerer"] = "failed" /\ ~Established("answerer")'
             ELSE f = OkWord /\ Established("answerer")' /\ over'["answerer"] = over["answerer"]
      PROVE  HelloInv'
  <2>1. chan["answerer"] # <<>> /\ chan'["answerer"] = Tail(chan["answerer"])
    <3>1. chan["answerer"] # <<>>
      BY <1>1 DEF Next1
    <3>2. "answerer" # "caller"
      OBVIOUS
    <3>. QED  BY <1>0, <1>4, <3>1, <3>2 DEF Reply, Consumed
  <2>2. Flow({<<"caller", FileMsg(u, f)>>})
    BY <1>0, <1>4, <2>1, ReplyFlows
  <2>3. \A k \in Sides : \A t, w :
           /\ Has(chan'[k], FileMsg(t, w)) => Has(chan[k], FileMsg(t, w)) \/ (k = "caller" /\ t = u /\ w = f)
           /\ Once(chan[k], FileMsg(t, w)) /\ ~(k = "caller" /\ t = u /\ w = f /\ Has(chan[k], FileMsg(t, w)))
                 => Once(chan'[k], FileMsg(t, w))
    BY <2>2, FlowParts
  <2>4. \A w : ~Has(chan'["answerer"], FileMsg("PWD", w))
    <3>1. Once(chan["answerer"], FileMsg("PWD", v))
      BY <1>3 DEF HelloInv
    <3>2. \A w : Has(chan["answerer"], FileMsg("PWD", w)) => w = v
      BY <1>3 DEF SessionInv, SecureInv
    <3>3. \A w : Has(chan'["answerer"], FileMsg("PWD", w)) => Has(chan["answerer"], FileMsg("PWD", w))
      BY <1>0, <1>4, <2>3
    <3>. QED  BY <1>2, <2>1, <3>1, <3>2, <3>3
  <2>5. ~Established("caller") /\ over["caller"] # "failed" /\ over["answerer"] # "failed"
        /\ \A w : ~Has(chan["caller"], FileMsg("OK", w)) /\ ~Has(chan["caller"], FileMsg("ERR", w))
    BY <1>1, <1>3 DEF HelloInv, Runs
  <2>6. \A k \in Sides : \A t \in {"ADR", "PWD"} : \A w :
           /\ Has(chan'[k], FileMsg(t, w)) => Has(chan[k], FileMsg(t, w))
           /\ Once(chan[k], FileMsg(t, w)) => Once(chan'[k], FileMsg(t, w))
    BY <1>4, <2>3
  <2>7. \A k \in Sides :
           /\ Once(chan'[k], Msg("ADR"))
           /\ \A w : Has(chan'[k], FileMsg("ADR", w)) =>
                 w = NoFile /\ st'[k].phase \in Greeting /\ st'[Other(k)].phase # "start"
           /\ st'[k].phase \notin Greeting => st'[Other(k)].phase # "start"
    BY <1>0, <1>4, <2>6, FrameParts, TwoSides DEF HelloInv
  <2>8. /\ Once(chan'["answerer"], FileMsg("PWD", login.password))
        /\ \A w : ~Has(chan'["caller"], FileMsg("PWD", w))
    BY <1>0, <2>6 DEF HelloInv
  <2>9. Once(chan'["caller"], FileMsg("OK", OkWord))
    BY <1>0, <2>3, <2>5 DEF HelloInv
  <2>10. \A w : Has(chan'["caller"], FileMsg("OK", w)) => Established("answerer")' /\ ~Established("caller")'
    BY <1>0, <1>4, <2>3, <2>5
  <2>11. /\ \A w : ~Has(chan'["answerer"], FileMsg("OK", w)) /\ ~Has(chan'["answerer"], FileMsg("ERR", w))
         /\ \A w : Has(chan'["caller"], FileMsg("ERR", w)) => over'["answerer"] = "failed"
    <3>1. "answerer" # "caller"
      OBVIOUS
    <3>2. \A w : ~Has(chan["answerer"], FileMsg("OK", w)) /\ ~Has(chan["answerer"], FileMsg("ERR", w))
      BY DEF HelloInv
    <3>. QED  BY <1>0, <1>4, <2>3, <2>5, <3>1, <3>2
  <2>12. /\ over'["caller"] = "failed" => over'["answerer"] = "failed"
         /\ over'["answerer"] = "failed" => ~Established("answerer")'
         /\ Established("caller")' => Established("answerer")'
         /\ Established("answerer")' => st'["caller"].phase \notin Greeting
    BY <1>0, <1>3, <1>4, <2>5
  <2>13. OkWord' = OkWord /\ login' = login
    BY <1>1 DEF OkWord
  <2>. QED  BY <2>4, <2>7, <2>8, <2>9, <2>10, <2>11, <2>12, <2>13 DEF HelloInv
<1>5. CASE login.expected /\ ~PasswordMatches(Head(chan["answerer"]).f)
  <2>1. /\ over' = [over EXCEPT !["answerer"] = "failed"] /\ UNCHANGED st
        /\ Reply("answerer", Msg("ERR"))
    BY <1>5 DEF CheckPassword
  <2>2. Msg("ERR") = FileMsg("ERR", NoFile) /\ Msg("ERR") \in Frame
    BY FrameParts DEF Msg, Frame
  <2>3. over'["answerer"] = "failed" /\ over'["caller"] = over["caller"]
    BY <1>0, <2>1
  <2>4. \A k \in Sides : st'[k] = st[k] /\ (Established(k)' <=> Established(k))
    BY <2>1 DEF Established
  <2>. QED  BY <1>0, <1>3, <1>4, <2>1, <2>2, <2>3, <2>4
<1>6. CASE ~(login.expected /\ ~PasswordMatches(Head(chan["answerer"]).f))
  <2>1. PICK G \in SUBSET FilesOf["answerer"] :
           Becomes("answerer", Begin([st["answerer"] EXCEPT !.secure = login.expected], G))
    BY <1>6 DEF CheckPassword
  <2>2. Reply("answerer", FileMsg("OK", OkWord)) /\ UNCHANGED over
    BY <1>6 DEF CheckPassword, OkWord
  <2>3. FileMsg("OK", OkWord) \in Frame
    BY <1>0 DEF FileMsg, Frame, OkWord
  <2>4. st'["answerer"].phase = "files" /\ st'["caller"] = st["caller"]
    BY <1>0, <2>1 DEF Becomes, Begin, SideRec
  <2>5. /\ \A k \in Sides : st'[k].phase \in Greeting <=> st[k].phase \in Greeting
        /\ \A k \in Sides : st'[k].phase = "start" <=> st[k].phase = "start"
        /\ Established("caller")' <=> Established("caller")
        /\ Established("answerer")'
    BY <1>1, <2>4 DEF Sides, Greeting, Established
  <2>. QED  BY <1>4, <2>2, <2>3, <2>5
<1>. QED  BY <1>5, <1>6

LEMMA OkRead ==
    ASSUME SessionInv, HelloInv, ReadOk
    PROVE  HelloInv'
<1>0. /\ st \in [Sides -> SideRec] /\ chan \in [Sides -> Seq(Frame)]
      /\ "caller" \in Sides /\ "answerer" \in Sides /\ \A k \in Sides : Other(k) \in Sides
  BY TwoSides DEF SessionInv, SessionType, Sides
<1>1. /\ st["caller"].phase = "auth" /\ Next1("caller", "OK") /\ UNCHANGED <<login, over>>
      /\ chan["caller"] # <<>> /\ chan' = Consumed("caller")
  BY DEF ReadOk, Aside, Settings, Next1
<1>2. PICK v : /\ Has(chan["caller"], FileMsg("OK", v))
               /\ chan'["caller"] = Tail(chan["caller"]) /\ Once(chan["caller"], FileMsg("OK", v))
                     => ~Has(chan'["caller"], FileMsg("OK", v))
  BY <1>0, <1>1, FirstRead
<1>3. v = OkWord /\ Established("answerer")
  BY <1>2 DEF SessionInv, SecureInv, HelloInv, OkWord
<1>4. \A k \in Sides : \A m : /\ Has(chan'[k], m) => Has(chan[k], m)
                              /\ Once(chan[k], m) => Once(chan'[k], m)
  BY <1>0, <1>1, ReadingFlows DEF Flow
<1>5. \A w : ~Has(chan'["caller"], FileMsg("OK", w))
  <2>1. chan'["caller"] = Tail(chan["caller"])
    BY <1>0, <1>1 DEF Consumed
  <2>2. Once(chan["caller"], FileMsg("OK", v))
    BY <1>3 DEF HelloInv
  <2>3. \A w : Has(chan["caller"], FileMsg("OK", w)) => w = v
    BY <1>3 DEF SessionInv, SecureInv, OkWord
  <2>. QED  BY <1>0, <1>2, <1>4, <2>1, <2>2, <2>3
<1>6. st'["caller"].phase = "files" /\ st'["answerer"] = st["answerer"]
  <2>1. PICK sec, G : Becomes("caller", Begin([st["caller"] EXCEPT !.secure = sec], G))
    BY DEF ReadOk
  <2>. QED  BY <1>0, <2>1 DEF Becomes, Begin, SideRec
<1>7. /\ \A k \in Sides : /\ st'[k].phase \in Greeting <=> st[k].phase \in Greeting
                          /\ st'[k].phase = "start" <=> st[k].phase = "start"
      /\ Established("answerer")' /\ st'["caller"].phase \notin Greeting
  BY <1>1, <1>3, <1>6 DEF Sides, Greeting, Established
<1>8. OkWord' = OkWord
  BY <1>1 DEF OkWord
<1>9. \A k \in Sides :
         /\ Once(chan'[k], Msg("ADR"))
         /\ \A w : Has(chan'[k], FileMsg("ADR", w)) =>
               w = NoFile /\ st'[k].phase \in Greeting /\ st'[Other(k)].phase # "start"
         /\ st'[k].phase \notin Greeting => st'[Other(k)].phase # "start"
  <2>1. Msg("ADR") = FileMsg("ADR", NoFile)
    BY FrameParts
  <2>2. \A k \in Sides : Once(chan'[k], Msg("ADR"))
    BY <1>4 DEF HelloInv
  <2>3. ASSUME NEW k \in Sides, NEW w, Has(chan'[k], FileMsg("ADR", w))
        PROVE  w = NoFile /\ st'[k].phase \in Greeting /\ st'[Other(k)].phase # "start"
    <3>1. w = NoFile /\ st[k].phase \in Greeting /\ st[Other(k)].phase # "start"
      BY <1>4, <2>3 DEF HelloInv
    <3>. QED  BY <1>0, <1>7, <3>1
  <2>4. \A k \in Sides : st'[k].phase \notin Greeting => st'[Other(k)].phase # "start"
    BY <1>0, <1>7 DEF HelloInv
  <2>. QED  BY <2>2, <2>3, <2>4
<1>. QED  BY <1>0, <1>1, <1>3, <1>4, <1>5, <1>7, <1>8, <1>9 DEF HelloInv

\* Refused, or cut off, in the handshake: the answerer has failed, the caller
\* with it or not yet.
LEMMA RefusalSaid ==
    ASSUME SessionInv, StepInv, Smooth, NEW s \in Sides, Refused(s)
    PROVE  HelloInv' /\ over'[s] = "failed" /\ Flow({}) /\ UNCHANGED st
<1>0. /\ chan \in [Sides -> Seq(Frame)] /\ over \in [Sides -> {"no", "ok", "failed"}]
      /\ "caller" \in Sides /\ "answerer" \in Sides /\ Other("caller") = "answerer"
      /\ HelloInv /\ BatchInv("answerer") /\ BatchInv("caller")
  BY DEF SessionInv, SessionType, Sides, Other, StepInv
<1>1. /\ Runs(s) /\ ~Established(s) /\ Closes(s, "failed", FALSE)
      /\ Next1(s, "ERR") \/ (chan[s] = <<>> /\ ~Runs(Other(s)))
  BY DEF Refused, Fails
<1>2. Flow({}) /\ UNCHANGED <<st, login>> /\ over' = [over EXCEPT ![s] = "failed"]
  BY <1>0, <1>1, ClosingFlows DEF Closes, Aside, Settings
<1>3. over'[s] = "failed" /\ \A k \in Sides : k # s => over'[k] = over[k]
  BY <1>0, <1>2
<1>4. s = "caller" => over["answerer"] = "failed"
  <2>. SUFFICES ASSUME s = "caller", over["answerer"] # "failed" PROVE FALSE
    OBVIOUS
  <2>1. ~Next1("caller", "ERR")
    <3>. SUFFICES ASSUME Next1("caller", "ERR") PROVE FALSE
      OBVIOUS
    <3>1. \E w : Has(chan["caller"], FileMsg("ERR", w))
      BY <1>0, FirstRead
    <3>. QED  BY <1>0, <3>1 DEF HelloInv
  <2>2. over["answerer"] = "ok" /\ NoneFailed
    BY <1>0, <1>1, <2>1 DEF Runs, NoneFailed, Sides
  <2>3. st["answerer"].done /\ ~st["caller"].eobSent
    BY <1>0, <1>1, <2>2 DEF BatchInv, Unstarted
  <2>4. Other("answerer") = "caller"
    BY DEF Other
  <2>. QED  BY <1>0, <2>2, <2>3, <2>4, DoneTogether
<1>5. /\ over'["caller"] = "failed" => over'["answerer"] = "failed"
      /\ over'["answerer"] = "failed" => ~Established("answerer")
      /\ over["answerer"] = "failed" => over'["answerer"] = "failed"
  <2>1. s = "caller" \/ s = "answerer"
    BY DEF Sides
  <2>. QED  BY <1>0, <1>1, <1>3, <1>4, <2>1 DEF HelloInv
<1>6. \A k \in Sides : \A m : /\ Has(chan'[k], m) => Has(chan[k], m)
                              /\ Once(chan[k], m) => Once(chan'[k], m)
  BY <1>2 DEF Flow
<1>7. OkWord' = OkWord /\ \A k \in Sides : Established(k)' <=> Established(k)
  BY <1>2 DEF OkWord, Established
<1>8. HelloInv'
  BY <1>0, <1>2, <1>5, <1>6, <1>7 DEF HelloInv
<1>. QED  BY <1>2, <1>3, <1>8

\* A step of the handshake that does not end it: side s reads a frame or
\* none, and writes one or none.
LEMMA Shaking ==
    ASSUME SessionInv, StepInv, NEW s \in Sides, ~Established(s), NEW r \in SideRec,
           st' = [st EXCEPT ![s] = r], UNCHANGED <<multi, over, faulty, outrun>>,
           r.phase # "data", st[s].phase # "data",
           r.batch = st[s].batch, r.rxBatch = st[s].rxBatch, r.rxEnded = st[s].rxEnded,
           r.moved = st[s].moved, r.current = st[s].current, r.owed = st[s].owed,
           r.awaiting = st[s].awaiting, st[s].files \subseteq r.files,
           r.eobSent = st[s].eobSent, r.wake = st[s].wake, r.done = st[s].done,
           r.failed = st[s].failed, r.hungUp = st[s].hungUp,
           \/ chan'[s] = chan[s]
           \/ /\ chan[s] # <<>> /\ chan'[s] = Tail(chan[s])
              /\ Head(chan[s]).t \in {"ADR", "PWD", "OK"},
           \/ chan'[Other(s)] = chan[Other(s)]
           \/ \E m \in Frame : m.t \in {"ADR", "PWD", "OK"} /\ chan'[Other(s)] = Append(chan[Other(s)], m),
           HelloInv => HelloInv'
    PROVE  StepInv'
<1>. DEFINE o == Other(s)
<1>1. o \in Sides /\ o # s /\ Other(o) = s /\ \A k \in Sides : k = s \/ k = o
  BY TwoSides
<1>2. /\ st \in [Sides -> SideRec] /\ st[s] \in SideRec /\ chan \in [Sides -> Seq(Frame)]
      /\ st'[s] = r /\ st'[o] = st[o] /\ SideInv(s)
  BY <1>1 DEF SessionInv, SessionType, FilesInv
<1>3. EndInv'
  BY <1>1, <1>2 DEF StepInv, EndInv
<1>4. ASSUME Smooth' PROVE Smooth /\ HelloInv /\ HelloInv' /\ BatchInv(s) /\ BatchInv(o)
  BY <1>1, <1>2, <1>4 DEF Smooth, StepInv
<1>5. ASSUME Smooth' PROVE BatchInv(s)'
  <2>1. Unstarted(st[s]) /\ ~st[s].done /\ Steady(st[s]) /\ BatchInv(s)
    BY <1>2, <1>4, <1>5 DEF BatchInv, SideInv
  <2>2. Steady(st[s])'
    BY <1>2, <2>1 DEF Steady, Unstarted
  <2>3. Checked(st[s])'
    BY <1>2, <2>1 DEF Checked, BatchOver, Unstarted
  <2>4. Unstarted(st[s])'
    BY <1>2, <2>1 DEF Unstarted
  <2>5. over'[s] = "ok" => st'[s].done /\ st'[s].owed = NothingOwed
    BY <1>2, <2>1 DEF BatchInv
  <2>. QED  BY <2>2, <2>3, <2>4, <2>5 DEF BatchInv
<1>6. ASSUME Smooth' PROVE BatchInv(o)'
  <2>1. BatchInv(o)
    BY <1>4, <1>6
  <2>. QED  BY <1>2, <2>1 DEF BatchInv, Steady, Checked, BatchOver, Another, Established, Unstarted
<1>7. ASSUME Smooth', NoneFailed' PROVE Heard(s)' /\ Heard(o)' /\ AnswerInv(s)' /\ AnswerInv(o)'
  <2>1. \A k \in Sides : Heard(k) /\ AnswerInv(k)
    BY <1>4, <1>7 DEF NoneFailed, StepInv
  <2>2. Unstarted(st[s])
    BY <1>4, <1>7 DEF BatchInv
  <2>3. Heard(s)'
    <3>1. st'[Other(s)] = st[Other(s)] /\ st[s].moved \subseteq st'[s].moved
      BY <1>2 DEF o
    <3>. QED  BY <1>2, <2>1, <3>1, HeardOn
  <2>4. Heard(o)'
    <3>1. /\ Announcing(r) = Announcing(st[s]) /\ EndsSent(r) = EndsSent(st[s])
          /\ r.batch >= st[s].batch /\ st[s].batch >= 1
      BY <1>2, <2>2, SideParts DEF Announcing, EndsSent, Unstarted
    <3>2. chan'[o] = chan[o] \/ \E m \in Frame : /\ m.t \notin {"FILE", "DATA", "EOB"}
                                                 /\ chan'[o] = Append(chan[o], m)
      BY DEF o
    <3>3. Heard(o) /\ st'[o] = st[o] /\ st'[Other(o)] = r /\ Other(o) = s
      BY <1>1, <1>2, <2>1
    <3>. HIDE DEF o
    <3>. QED  BY <1>1, <3>1, <3>2, <3>3, HeardMore
  <2>5. \A k \in Sides : \A t, w : t \in {"GOT", "SKIP", "FILE"} =>
           /\ Has(chan'[k], FileMsg(t, w)) <=> Has(chan[k], FileMsg(t, w))
           /\ Once(chan[k], FileMsg(t, w)) => Once(chan'[k], FileMsg(t, w))
    <3>. SUFFICES ASSUME NEW k \in Sides, NEW t \in {"GOT", "SKIP", "FILE"}, NEW w
                  PROVE  /\ Has(chan'[k], FileMsg(t, w)) <=> Has(chan[k], FileMsg(t, w))
                         /\ Once(chan[k], FileMsg(t, w)) => Once(chan'[k], FileMsg(t, w))
      OBVIOUS
    <3>1. CASE chan'[k] = chan[k]
      BY <3>1
    <3>2. CASE chan[k] # <<>> /\ chan'[k] = Tail(chan[k]) /\ Head(chan[k]).t \in {"ADR", "PWD", "OK"}
      <4>1. Head(chan[k]) \in Frame /\ chan[k] \in Seq(Frame)
        BY <1>2, <3>2, HasTail
      <4>2. FileMsg(t, w) # Head(chan[k])
        BY <3>2, FrameParts
      <4>. QED  BY <3>2, <4>1, <4>2, OneFrame
    <3>3. ASSUME NEW m \in Frame, m.t \in {"ADR", "PWD", "OK"}, chan'[k] = Append(chan[k], m)
          PROVE  /\ Has(chan'[k], FileMsg(t, w)) <=> Has(chan[k], FileMsg(t, w))
                 /\ Once(chan[k], FileMsg(t, w)) => Once(chan'[k], FileMsg(t, w))
      <4>1. FileMsg(t, w) # m /\ chan[k] \in Seq(Frame)
        BY <1>2, <3>3, FrameParts
      <4>. QED  BY <3>3, <4>1, OneFrame
    <3>. QED  BY <1>1, <3>1, <3>2, <3>3
  <2>. HIDE DEF o
  <2>6. AnswerInv(s)'
    <3>1. /\ o = Other(s) /\ AnswerInv(s) /\ st'[s].awaiting = st[s].awaiting
          /\ st[s].files \subseteq st'[s].files /\ st'[s].toSend \cap st[s].awaiting = {}
          /\ st'[o].current = st[o].current /\ st'[o].owed = st[o].owed
      BY <1>2, <2>1, <2>2 DEF o, Unstarted
    <3>. QED  BY <1>1, <2>5, <3>1, AnswersStay
  <2>7. AnswerInv(o)'
    <3>1. /\ s = Other(o) /\ AnswerInv(o) /\ st'[o] = st[o]
          /\ st'[o].toSend \cap st[o].awaiting = {}
          /\ st'[s].current = st[s].current /\ st'[s].owed = st[s].owed
      BY <1>1, <1>2, <2>1 DEF AnswerInv
    <3>. QED  BY <1>1, <2>5, <3>1, AnswersStay
  <2>. QED  BY <2>3, <2>4, <2>6, <2>7
<1>. QED  BY <1>1, <1>3, <1>4, <1>5, <1>6, <1>7 DEF StepInv

\* A side that has not ended fails: nothing is promised of the frames.
LEMMA Failing ==
    ASSUME SessionInv, StepInv, NEW s \in Sides, over' = [over EXCEPT ![s] = "failed"],
           UNCHANGED <<st, multi, faulty, outrun>>, Smooth => HelloInv'
    PROVE  StepInv'
<1>1. over'[s] = "failed" /\ \A k \in Sides : over'[k] = "ok" => over[k] = "ok"
  BY DEF SessionInv, SessionType
<1>2. EndInv'
  BY <1>1 DEF StepInv, EndInv
<1>3. ASSUME Smooth' PROVE HelloInv' /\ ~NoneFailed' /\ \A k \in Sides : BatchInv(k)'
  <2>1. Smooth /\ \A k \in Sides : BatchInv(k)
    BY <1>3 DEF Smooth, StepInv
  <2>2. \A k \in Sides : BatchInv(k)'
    BY <1>1, <2>1 DEF BatchInv, Steady, Checked, BatchOver, Another, Established, Unstarted
  <2>. QED  BY <1>1, <2>1, <2>2 DEF NoneFailed
<1>. QED  BY <1>2, <1>3 DEF StepInv

LEMMA HandshakeInStep ==
    ASSUME SessionInv, StepInv, NEW s \in Sides, HandshakeStep(s)
    PROVE  StepInv'
<1>. DEFINE o == Other(s)
<1>0. /\ st \in [Sides -> SideRec] /\ st[s] \in SideRec /\ chan \in [Sides -> Seq(Frame)]
      /\ login \in [password : {"none", "right", "wrong"}, expected : BOOLEAN]
      /\ "caller" \in Sides /\ "answerer" \in Sides
  BY BinkpAssumption DEF SessionInv, SessionType, BinkpAssumption, Sides
<1>1. o \in Sides /\ o # s /\ Other(o) = s
  BY TwoSides
<1>2. ASSUME SayHello(s) PROVE StepInv'
  <2>. DEFINE r == [st[s] EXCEPT !.phase = "address"]
  <2>1. /\ ~Established(s) /\ st[s].phase = "start" /\ st' = [st EXCEPT ![s] = r]
        /\ UNCHANGED <<multi, over, faulty, outrun>> /\ Send(s, Msg("ADR"))
    BY <1>2 DEF SayHello, Established, Becomes, Aside, Settings, History
  <2>2. /\ r \in SideRec /\ r.phase = "address"
        /\ r.batch = st[s].batch /\ r.rxBatch = st[s].rxBatch /\ r.rxEnded = st[s].rxEnded
        /\ r.moved = st[s].moved /\ r.current = st[s].current /\ r.owed = st[s].owed
        /\ r.awaiting = st[s].awaiting /\ r.files = st[s].files
        /\ r.eobSent = st[s].eobSent /\ r.wake = st[s].wake /\ r.done = st[s].done
        /\ r.failed = st[s].failed /\ r.hungUp = st[s].hungUp
    BY <1>0 DEF SideRec, Phase
  <2>3. Msg("ADR") \in Frame /\ Msg("ADR").t = "ADR"
    BY DEF Msg, Frame
  <2>4. chan'[s] = chan[s] /\ (chan'[o] = chan[o] \/ chan'[o] = Append(chan[o], Msg("ADR")))
    BY <1>0, <2>1, <2>3, Written
  <2>5. HelloInv => HelloInv'
    BY <1>2, HelloSaid
  <2>. HIDE DEF r
  <2>. QED  BY <2>1, <2>2, <2>3, <2>4, <2>5, Shaking
<1>3. ASSUME ReadAddress(s) PROVE StepInv'
  <2>. DEFINE r == [st[s] EXCEPT !.phase = "auth"]
              m == FileMsg("PWD", login.password)
  <2>1. /\ ~Established(s) /\ st[s].phase = "address" /\ st' = [st EXCEPT ![s] = r]
        /\ UNCHANGED <<multi, over, faulty, outrun>> /\ chan[s] # <<>> /\ Head(chan[s]).t = "ADR"
        /\ Reply(s, m) \/ chan' = Consumed(s)
    BY <1>3 DEF ReadAddress, Established, Becomes, Aside, Settings, History, Next1
  <2>2. /\ r \in SideRec /\ r.phase = "auth"
        /\ r.batch = st[s].batch /\ r.rxBatch = st[s].rxBatch /\ r.rxEnded = st[s].rxEnded
        /\ r.moved = st[s].moved /\ r.current = st[s].current /\ r.owed = st[s].owed
        /\ r.awaiting = st[s].awaiting /\ r.files = st[s].files
        /\ r.eobSent = st[s].eobSent /\ r.wake = st[s].wake /\ r.done = st[s].done
        /\ r.failed = st[s].failed /\ r.hungUp = st[s].hungUp
    BY <1>0 DEF SideRec, Phase
  <2>3. m \in Frame /\ m.t = "PWD"
    BY <1>0 DEF FileMsg, Frame, NoFile
  <2>. HIDE DEF m
  <2>4. chan'[s] = Tail(chan[s]) /\ (chan'[o] = chan[o] \/ chan'[o] = Append(chan[o], m))
    BY <1>0, <1>1, <2>1 DEF Reply, Consumed
  <2>5. HelloInv => HelloInv'
    BY <1>3, AddressRead
  <2>. HIDE DEF r
  <2>. QED  BY <2>1, <2>2, <2>3, <2>4, <2>5, Shaking
\* The transfer begins.
<1>4. ASSUME NEW sec \in BOOLEAN, NEW G \in SUBSET Files,
             Becomes(s, Begin([st[s] EXCEPT !.secure = sec], G)),
             ~Established(s), UNCHANGED <<multi, over, faulty, outrun>>,
             chan[s] # <<>>, Head(chan[s]).t \in {"PWD", "OK"}, chan'[s] = Tail(chan[s]),
             chan'[o] = chan[o] \/ \E m \in Frame : m.t = "OK" /\ chan'[o] = Append(chan[o], m),
             HelloInv => HelloInv'
      PROVE  StepInv'
  <2>. DEFINE r == Begin([st[s] EXCEPT !.secure = sec], G)
  <2>1. /\ r \in SideRec /\ r.phase = "files"
        /\ r.batch = st[s].batch /\ r.rxBatch = st[s].rxBatch /\ r.rxEnded = st[s].rxEnded
        /\ r.moved = st[s].moved /\ r.current = st[s].current /\ r.owed = st[s].owed
        /\ r.awaiting = st[s].awaiting /\ r.files = G
        /\ r.eobSent = st[s].eobSent /\ r.wake = st[s].wake /\ r.done = st[s].done
        /\ r.failed = st[s].failed /\ r.hungUp = st[s].hungUp
    BY <1>0, <1>4 DEF SideRec, Phase, Begin
  <2>2. st[s].files = {} /\ st[s].phase # "data" /\ st' = [st EXCEPT ![s] = r]
    BY <1>4 DEF SessionInv, FilesInv, SideInv, Established, Becomes
  <2>3. st[s].files \subseteq r.files
    BY <2>2
  <2>4. chan'[o] = chan[o] \/ \E m \in Frame : m.t \in {"ADR", "PWD", "OK"} /\ chan'[o] = Append(chan[o], m)
    BY <1>4
  <2>. HIDE DEF r
  <2>. QED  BY <1>4, <2>1, <2>2, <2>3, <2>4, Shaking
<1>5. ASSUME s = "answerer", CheckPassword PROVE StepInv'
  <2>1. CASE login.expected /\ ~PasswordMatches(Head(chan["answerer"]).f)
    <3>1. over' = [over EXCEPT ![s] = "failed"] /\ UNCHANGED <<st, multi, faulty, outrun>>
      BY <1>5, <2>1 DEF CheckPassword, Aside, Settings, History
    <3>2. Smooth => HelloInv'
      BY <1>5, PasswordChecked DEF StepInv
    <3>. QED  BY <3>1, <3>2, Failing
  <2>2. CASE ~(login.expected /\ ~PasswordMatches(Head(chan["answerer"]).f))
    <3>1. PICK G \in SUBSET FilesOf[s] : Becomes(s, Begin([st[s] EXCEPT !.secure = login.expected], G))
      BY <1>5, <2>2 DEF CheckPassword
    <3>2. G \in SUBSET Files /\ login.expected \in BOOLEAN
      BY <1>0, BinkpAssumption DEF BinkpAssumption
    <3>3. Reply(s, FileMsg("OK", OkWord)) /\ UNCHANGED <<multi, over, faulty, outrun>>
      BY <1>5, <2>2 DEF CheckPassword, Aside, Settings, History, OkWord
    <3>4. ~Established(s) /\ chan[s] # <<>> /\ Head(chan[s]).t = "PWD"
      BY <1>5 DEF CheckPassword, Established, Next1
    <3>5. FileMsg("OK", OkWord) \in Frame /\ FileMsg("OK", OkWord).t = "OK"
      BY <1>0 DEF FileMsg, Frame, OkWord
    <3>6. chan'[s] = Tail(chan[s]) /\ (chan'[o] = chan[o] \/ chan'[o] = Append(chan[o], FileMsg("OK", OkWord)))
      BY <1>0, <1>1, <3>3 DEF Reply, Consumed
    <3>7. HelloInv => HelloInv'
      BY <1>5, PasswordChecked
    <3>8. PICK sec \in BOOLEAN : sec = login.expected
      BY <3>2
    <3>9. Becomes(s, Begin([st[s] EXCEPT !.secure = sec], G))
      BY <3>1, <3>8
    <3>10. chan'[o] = chan[o] \/ \E m \in Frame : m.t = "OK" /\ chan'[o] = Append(chan[o], m)
      BY <3>5, <3>6
    <3>11. Head(chan[s]).t \in {"PWD", "OK"}
      BY <3>4
    <3>. QED  BY <1>4, <3>2, <3>3, <3>4, <3>6, <3>7, <3>9, <3>10, <3>11
  <2>. QED  BY <2>1, <2>2
<1>6. ASSUME s = "caller", ReadOk PROVE StepInv'
  <2>1. PICK sec \in BOOLEAN, G \in SUBSET FilesOf[s] : Becomes(s, Begin([st[s] EXCEPT !.secure = sec], G))
    BY <1>6 DEF ReadOk
  <2>2. G \in SUBSET Files
    BY BinkpAssumption DEF BinkpAssumption
  <2>3. /\ ~Established(s) /\ chan[s] # <<>> /\ Head(chan[s]).t = "OK" /\ UNCHANGED <<multi, over, faulty, outrun>>
        /\ chan' = Consumed(s)
    BY <1>6 DEF ReadOk, Established, Next1, Aside, Settings, History
  <2>4. chan'[s] = Tail(chan[s]) /\ chan'[o] = chan[o]
    BY <1>0, <2>3, Consuming
  <2>5. HelloInv => HelloInv'
    BY <1>6, OkRead
  <2>. QED  BY <1>4, <2>1, <2>2, <2>3, <2>4, <2>5
<1>7. ASSUME Refused(s) PROVE StepInv'
  <2>1. over' = [over EXCEPT ![s] = "failed"] /\ UNCHANGED <<st, multi, faulty, outrun>>
    BY <1>7 DEF Refused, Fails, Closes, Aside, Settings, History
  <2>2. Smooth => HelloInv'
    BY <1>7, RefusalSaid
  <2>. QED  BY <2>1, <2>2, Failing
<1>. QED  BY <1>2, <1>3, <1>5, <1>6, <1>7 DEF HandshakeStep

\* No frame is ever out of place between two mailers in step.
LEMMA InPlace ==
    ASSUME SessionInv, StepInv, Smooth, NEW s \in Sides
    PROVE  ~ReceiveMisplaced(s)
<1>. SUFFICES ASSUME ReceiveMisplaced(s) PROVE FALSE
  OBVIOUS
<1>1. /\ Established(s) /\ chan[s] # <<>>
      /\ \/ Head(chan[s]).t \in {"FILE", "EOB"} /\ st[s].current # NoFile
         \/ Head(chan[s]).t = "DATA" /\ st[s].current # Head(chan[s]).f
  BY DEF ReceiveMisplaced, Listens
<1>2. HelloInv /\ NoneFailed
  BY <1>1, NobodyFailed DEF StepInv
<1>3. PICK c, n : Hears(s, c, n)
  BY <1>2 DEF StepInv, Heard
<1>4. Reads(Head(chan[s]), c[0], n[0], c[1], n[1]) /\ c[0] = st[s].current
  BY <1>1, <1>3, Distance DEF Hears
<1>. QED  BY <1>1, <1>4 DEF Reads

\* Nor does one close while the other's session goes on.
LEMMA NotAlone ==
    ASSUME SessionInv, StepInv, Smooth, NEW s \in Sides, RemoteClosed(s)
    PROVE  st[s].done /\ NoneFailed
<1>1. /\ Established(s) /\ st[s].owed = NothingOwed
      /\ chan[s] = <<>> /\ ~Runs(Other(s))
  BY DEF RemoteClosed, Listens
<1>2. NoneFailed
  BY <1>1, NobodyFailed DEF StepInv
<1>. QED  BY <1>1, <1>2, NobodyLeft

\* A side that is done closes behind everything: nothing is lost by it.
LEMMA GoodEnd ==
    ASSUME SessionInv, StepInv, NEW s \in Sides, Runs(s), st[s].done, st[s].owed = NothingOwed,
           ~st[s].failed, Closes(s, "ok", TRUE), UNCHANGED <<multi, login, faulty, outrun>>
    PROVE  StepInv'
<1>1. /\ over' = [over EXCEPT ![s] = "ok"] /\ UNCHANGED st
      /\ over'[s] = "ok" /\ \A k \in Sides : k # s => over'[k] = over[k]
  BY DEF Closes, SessionInv, SessionType
<1>2. EndInv'
  BY <1>1 DEF StepInv, EndInv
<1>3. ASSUME Smooth'
      PROVE  (\A k \in Sides : BatchInv(k)') /\ HelloInv' /\ \A k \in Sides : Heard(k)' /\ AnswerInv(k)'
  <2>1. Smooth
    BY <1>1, <1>3 DEF Smooth
  <2>2. Established(s)
    BY DEF SessionInv, FilesInv, SideInv
  <2>3. HelloInv /\ NoneFailed
    BY <2>1, <2>2, NobodyFailed DEF StepInv
  <2>4. \A k \in Sides : BatchInv(k) /\ Heard(k) /\ AnswerInv(k)
    BY <2>1, <2>3 DEF StepInv
  <2>5. UNCHANGED chan
    <3>1. chan[s] = <<>>
      BY <2>1, <2>3, DoneTogether
    <3>2. chan' = [chan EXCEPT ![s] = <<>>, ![Other(s)] = chan[Other(s)]]
      BY <3>1 DEF Closes
    <3>3. chan \in [Sides -> Seq(Frame)] /\ Other(s) # s
      BY TwoSides DEF SessionInv, SessionType
    <3>. QED  BY <3>1, <3>2, <3>3
  <2>6. HelloInv'
    <3>1. Flow({}) /\ Payload({})
      BY <2>5, NothingFlows DEF Payload, SessionInv, SessionType
    <3>2. \A k \in Sides : /\ st'[k].phase = st[k].phase \/ (Established(k) /\ Established(k)')
                           /\ over'[k] = "failed" <=> over[k] = "failed"
      BY <1>1 DEF Runs
    <3>. QED  BY <2>3, <3>1, <3>2, HelloStays
  <2>7. \A k \in Sides : BatchInv(k)'
    BY <1>1, <2>4 DEF BatchInv, Steady, Checked, BatchOver, Another, Established, Unstarted
  <2>8. \A k \in Sides : Heard(k)'
    BY <1>1, <2>4, <2>5 DEF Heard, Hears
  <2>9. \A k \in Sides : AnswerInv(k)'
    BY <1>1, <2>4, <2>5 DEF AnswerInv, Going, Owing, Coming
  <2>. QED  BY <2>6, <2>7, <2>8, <2>9
<1>. QED  BY <1>2, <1>3 DEF StepInv

LEMMA InStep == SessionInv /\ SessionInv' /\ StepInv /\ [Next]_vars => StepInv'
<1>. SUFFICES ASSUME SessionInv, SessionInv', StepInv, [Next]_vars PROVE StepInv'
  OBVIOUS
<1>0. st \in [Sides -> SideRec] /\ over \in [Sides -> {"no", "ok", "failed"}]
  BY DEF SessionInv, SessionType
<1>1. CASE UNCHANGED vars
  <2>1. EndInv' /\ (Smooth' <=> Smooth) /\ (NoneFailed' <=> NoneFailed)
    BY <1>1 DEF vars, StepInv, EndInv, Smooth, NoneFailed
  <2>2. \A k \in Sides : BatchInv(k) => BatchInv(k)'
    BY <1>1 DEF vars, BatchInv, Steady, Checked, BatchOver, Another, Established, Unstarted
  <2>3. \A k \in Sides : Heard(k) => Heard(k)'
    BY <1>1 DEF vars, Heard, Hears
  <2>4. \A k \in Sides : AnswerInv(k) => AnswerInv(k)'
    BY <1>1 DEF vars, AnswerInv, Going, Owing, Coming
  <2>5. HelloInv => HelloInv'
    BY <1>1 DEF vars, HelloInv, Established, OkWord
  <2>. QED  BY <2>1, <2>2, <2>3, <2>4, <2>5 DEF StepInv
<1>2. ASSUME NEW s \in Sides, ReceiveMisplaced(s) PROVE StepInv'
  <2>1. over' = [over EXCEPT ![s] = "failed"] /\ UNCHANGED <<st, multi, faulty, outrun>>
    BY <1>2 DEF ReceiveMisplaced, Fails, Closes, Aside, Settings, History
  <2>. QED  BY <1>2, <2>1, InPlace, Failing
\* A side that still reads when its session is over
<1>3. ASSUME NEW s \in Sides, RemoteClosed(s) PROVE StepInv'
  <2>1. /\ faulty' = faulty /\ outrun' = (outrun \/ st[s].done)
        /\ \/ /\ st' = [st EXCEPT ![s] = [st[s] EXCEPT !.hungUp = TRUE, !.done = TRUE, !.wake = TRUE]]
              /\ UNCHANGED over
           \/ UNCHANGED st /\ over' = [over EXCEPT ![s] = "failed"]
    BY <1>3 DEF RemoteClosed, Closes, Becomes
  <2>2. \A k \in Sides : st'[k].failed = st[k].failed /\ (st[k].done => st'[k].done)
    <3>. DEFINE y == [st[s] EXCEPT !.hungUp = TRUE, !.done = TRUE, !.wake = TRUE]
    <3>1. y.failed = st[s].failed /\ y.done
      <4>1. st[s] \in SideRec
        BY <1>0
      <4>. QED  BY <4>1 DEF SideRec
    <3>2. st' = [st EXCEPT ![s] = y] \/ UNCHANGED st
      BY <2>1
    <3>. HIDE DEF y
    <3>. QED  BY <1>0, <3>1, <3>2
  <2>3. EndInv'
    BY <1>0, <2>1, <2>2 DEF StepInv, EndInv
  <2>4. ~Smooth'
    <3>1. Smooth => st[s].done
      BY <1>3, NotAlone
    <3>. QED  BY <2>1, <2>2, <3>1 DEF Smooth
  <2>. QED  BY <2>3, <2>4 DEF StepInv
<1>4. ASSUME NEW s \in Sides, Finish(s) PROVE StepInv'
  <2>1. /\ Runs(s) /\ st[s].done /\ st[s].owed = NothingOwed
        /\ Closes(s, IF st[s].failed THEN "failed" ELSE "ok", TRUE) /\ UNCHANGED <<multi, login, faulty, outrun>>
    BY <1>4 DEF Finish, Closes, Aside, Settings, History
  <2>2. CASE st[s].failed
    <3>1. over' = [over EXCEPT ![s] = "failed"] /\ UNCHANGED <<st, multi, faulty, outrun>>
      BY <2>1, <2>2 DEF Closes
    <3>. QED  BY <2>2, <3>1, Failing DEF Smooth
  <2>3. CASE ~st[s].failed
    BY <2>1, <2>3, GoodEnd
  <2>. QED  BY <2>2, <2>3
\* A fault of the line or of another mailer
<1>5. ASSUME NEW s \in Sides, Break(s) \/ HangUp(s) PROVE StepInv'
  <2>1. faulty' = TRUE /\ UNCHANGED st
    BY <1>5 DEF Break, HangUp, Closes
  <2>2. over' = [over EXCEPT ![s] = "failed"] \/ (over' = [over EXCEPT ![s] = "ok"] /\ ~st[s].done)
    BY <1>5 DEF Break, HangUp, Closes
  <2>3. EndInv'
    BY <1>0, <2>1, <2>2 DEF StepInv, EndInv
  <2>. QED  BY <2>1, <2>3 DEF StepInv, Smooth
<1>6. ASSUME NEW s \in Sides, CutShort(s) PROVE StepInv'
  <2>1. /\ st' = [st EXCEPT ![s] = [st[s] EXCEPT !.sending = NoFile, !.phase = "files"]]
        /\ faulty' = TRUE /\ UNCHANGED over
    BY <1>6 DEF CutShort, Becomes
  <2>2. \A k \in Sides : st'[k].failed = st[k].failed /\ st'[k].done = st[k].done
    BY <1>0, <2>1 DEF SideRec
  <2>. QED  BY <2>1, <2>2 DEF StepInv, EndInv, Smooth
<1>7. ASSUME NEW s \in Sides, ReceiveFile(s) \/ ReceiveData(s) \/ SendGot(s) \/ ReceiveAnswer(s) \/ ReceiveEob(s)
      PROVE  StepInv'
  BY <1>7, ReceiverInStep
<1>. QED  BY <1>1, <1>2, <1>3, <1>4, <1>5, <1>6, <1>7, HandshakeInStep, SenderInStep
          DEF Next, ReceiverStep

LEMMA StartsInStep == Init => StepInv
<1>. SUFFICES ASSUME Init PROVE StepInv
  OBVIOUS
<1>1. /\ \A s \in Sides : st[s] = Fresh /\ chan[s] = <<>> /\ over[s] = "no"
      /\ "caller" \in Sides /\ "answerer" \in Sides /\ \A s \in Sides : Other(s) \in Sides
  BY TwoSides DEF Init, Sides
<1>2. /\ Fresh.phase = "start" /\ Fresh.files = {} /\ Fresh.toSend = {} /\ Fresh.awaiting = {}
      /\ Fresh.batch = 1 /\ Fresh.rxBatch = 1 /\ Fresh.rxEnded = {} /\ Fresh.moved = {}
      /\ Fresh.current = NoFile /\ Fresh.owed = NothingOwed
      /\ ~Fresh.eobSent /\ ~Fresh.wake /\ ~Fresh.done /\ ~Fresh.failed /\ ~Fresh.hungUp
  BY DEF Fresh
<1>3. EndInv
  BY <1>1, <1>2 DEF EndInv
<1>4. \A s \in Sides : BatchInv(s)
  BY <1>1, <1>2 DEF BatchInv, Steady, Checked, BatchOver, Unstarted, Established
<1>5. HelloInv
  BY <1>1, <1>2, HasEmpty DEF HelloInv, Greeting, Established
<1>6. ASSUME NEW s \in Sides PROVE Heard(s)
  <2>. DEFINE c == [i \in 0 .. 0 |-> NoFile]
              n == [i \in 0 .. 0 |-> 0]
  <2>1. c[0] = NoFile /\ n[0] = 0 /\ Len(<<>>) = 0 /\ 1 .. 0 = {}
    OBVIOUS
  <2>2. Reading(<<>>, c, n)
    BY <2>1 DEF Reading
  <2>3. Announcing(Fresh) = NoFile /\ EndsSent(Fresh) = 0
    BY <1>2 DEF Announcing, EndsSent
  <2>4. 1 \in {0, 0 + 1} /\ 1 \in 1 .. 1
    OBVIOUS
  <2>. HIDE DEF c, n
  <2>5. Hears(s, c, n)
    BY <1>1, <1>2, <2>1, <2>2, <2>3, <2>4 DEF Hears
  <2>. QED  BY <2>5 DEF Heard
<1>7. ASSUME NEW s \in Sides PROVE AnswerInv(s)
  <2>1. \A f \in Files : NothingOwed \notin {FileMsg("GOT", f), FileMsg("SKIP", f)} /\ NoFile # f
    BY FrameParts, BinkpAssumption DEF NothingOwed, BinkpAssumption
  <2>2. \A w : ~Coming(s, w)
    BY <1>1, HasEmpty DEF Coming
  <2>3. \A f \in Files : ~Going(s, f) /\ ~Owing(s, f)
    BY <1>1, <1>2, <2>1, HasEmpty DEF Going, Owing
  <2>. QED  BY <1>1, <1>2, <2>2, <2>3, HasEmpty DEF AnswerInv
<1>. QED  BY <1>3, <1>4, <1>5, <1>6, <1>7 DEF StepInv

LEMMA AlwaysInStep == Spec => [](SessionInv /\ StepInv)
BY SessionAlways, StartsInStep, InStep, PTL DEF Spec

-----------------------------------------------------------------------------
(* A side that reads on when its session is over finds both at their end.    *)

Level ==
    \A s \in Sides :
        st[s].done /\ st[s].batches = st[s].batch /\ st[s].batches = st[Other(s)].batches

EarlyInv == outrun => faulty \/ Level \/ \E s \in Sides : st[s].failed

\* A side that is done stays so, in the batch it is in.
Lasting(r, x) ==
    /\ r.failed => x.failed
    /\ r.done => x.done /\ x.batch = r.batch /\ x.batches = r.batches

LEMMA CheckLasts ==
    ASSUME NEW r, NEW x \in SideRec, Lasting(r, x)
    PROVE  Lasting(r, CheckDone(x))
<1>1. x.failed => CheckDone(x).failed
  BY CheckKeeps
<1>2. x.done => CheckDone(x) = x
  BY DEF CheckDone
<1>. QED  BY <1>1, <1>2 DEF Lasting

LEMMA DoneLasts ==
    ASSUME SessionInv, SessionInv', [Next]_vars
    PROVE  /\ \A k \in Sides : Lasting(st[k], st'[k])
           /\ faulty => faulty'
           /\ outrun' => outrun \/ \E s \in Sides : RemoteClosed(s) /\ st[s].done
<1>0. st \in [Sides -> SideRec] /\ \A s \in Sides : st[s] \in SideRec
  BY DEF SessionInv, SessionType
<1>1. \A k \in Sides : Lasting(st[k], st[k])
  BY DEF Lasting
<1>2. ASSUME NEW s \in Sides, NEW x, st' = [st EXCEPT ![s] = x], Lasting(st[s], x)
      PROVE  \A k \in Sides : Lasting(st[k], st'[k])
  BY <1>0, <1>1, <1>2
<1>3. CASE UNCHANGED vars
  BY <1>1, <1>3 DEF vars
<1>4. ASSUME NEW s \in Sides, HandshakeStep(s)
      PROVE  (\A k \in Sides : Lasting(st[k], st'[k])) /\ UNCHANGED <<faulty, outrun>>
  <2>1. CASE SayHello(s) \/ ReadAddress(s)
    <3>1. \E p : st' = [st EXCEPT ![s] = [st[s] EXCEPT !.phase = p]] /\ UNCHANGED <<faulty, outrun>>
      BY <2>1 DEF SayHello, ReadAddress, Becomes, History
    <3>. QED  BY <1>0, <1>2, <3>1 DEF Lasting, SideRec
  <2>2. CASE Refused(s)
    BY <1>1, <2>2 DEF Refused, Fails, Closes, History
  <2>3. ASSUME CheckPassword \/ ReadOk
        PROVE  (\A k \in Sides : Lasting(st[k], st'[k])) /\ UNCHANGED <<faulty, outrun>>
    <3>1. /\ UNCHANGED <<faulty, outrun>>
          /\ \/ UNCHANGED st
             \/ \E k \in Sides : \E sec, G :
                   st' = [st EXCEPT ![k] = Begin([st[k] EXCEPT !.secure = sec], G)]
      BY <2>3 DEF CheckPassword, ReadOk, Becomes, History, Sides
    <3>2. ASSUME NEW k \in Sides, NEW sec, NEW G
          PROVE  Lasting(st[k], Begin([st[k] EXCEPT !.secure = sec], G))
      BY <1>0 DEF Lasting, Begin, SideRec
    <3>. QED  BY <1>1, <1>2, <3>1, <3>2
  <2>. QED  BY <1>4, <2>1, <2>2, <2>3 DEF HandshakeStep
<1>5. ASSUME NEW s \in Sides, SenderStep(s)
      PROVE  (\A k \in Sides : Lasting(st[k], st'[k])) /\ UNCHANGED <<faulty, outrun>>
  <2>1. ASSUME NEW f, AnnounceFile(s, f)
        PROVE  (\A k \in Sides : Lasting(st[k], st'[k])) /\ UNCHANGED <<faulty, outrun>>
    <3>1. ~st[s].done /\ UNCHANGED <<faulty, outrun>>
      BY <2>1 DEF AnnounceFile, History
    <3>. DEFINE x == [st[s] EXCEPT !.toSend = @ \ {f}, !.awaiting = @ \cup {f},
                        !.moved = @ \cup {st[s].batch},
                        !.sending = IF f \in EmptyFiles THEN NoFile ELSE f,
                        !.phase = IF f \in EmptyFiles THEN "files" ELSE "data"]
    <3>2. st' = [st EXCEPT ![s] = x] /\ x.failed = st[s].failed
      <4>1. x.failed = st[s].failed
        BY <1>0 DEF SideRec
      <4>2. st' = [st EXCEPT ![s] = x]
        BY <2>1 DEF AnnounceFile, Becomes
      <4>. QED  BY <4>1, <4>2
    <3>. HIDE DEF x
    <3>3. Lasting(st[s], x)
      BY <3>1, <3>2 DEF Lasting
    <3>. QED  BY <1>2, <3>1, <3>2, <3>3
  <2>2. CASE SendData(s) \/ AskNextBatch(s)
    <3>1. ~st[s].done /\ UNCHANGED <<faulty, outrun>>
      BY <2>2 DEF SendData, AskNextBatch, History
    <3>3. CASE SendData(s)
      <4>. DEFINE x == [st[s] EXCEPT !.sending = NoFile, !.phase = "files"]
      <4>1. st' = [st EXCEPT ![s] = x]
        BY <3>3 DEF SendData, Becomes
      <4>2. x.failed = st[s].failed
        BY <1>0 DEF SideRec
      <4>. HIDE DEF x
      <4>3. Lasting(st[s], x)
        BY <3>1, <4>2 DEF Lasting
      <4>. QED  BY <1>2, <3>1, <4>1, <4>3
    <3>4. CASE AskNextBatch(s)
      <4>1. PICK G : st' = [st EXCEPT ![s] = [st[s] EXCEPT !.phase = "files", !.files = @ \cup G,
                                                          !.toSend = @ \cup (G \ st[s].files)]]
        BY <3>4 DEF AskNextBatch, Becomes
      <4>. DEFINE x == [st[s] EXCEPT !.phase = "files", !.files = @ \cup G, !.toSend = @ \cup (G \ st[s].files)]
      <4>2. x.failed = st[s].failed
        BY <1>0 DEF SideRec
      <4>3. st' = [st EXCEPT ![s] = x]
        BY <4>1
      <4>. HIDE DEF x
      <4>4. Lasting(st[s], x)
        BY <3>1, <4>2 DEF Lasting
      <4>. QED  BY <1>2, <3>1, <4>3, <4>4
    <3>. QED  BY <2>2, <3>3, <3>4
  <2>3. CASE SendEob(s)
    <3>. DEFINE x == [st[s] EXCEPT !.phase = "wait", !.eobSent = TRUE]
    <3>1. ~st[s].done /\ UNCHANGED <<faulty, outrun>> /\ st' = [st EXCEPT ![s] = CheckDone(x)]
      BY <2>3 DEF SendEob, Becomes, History
    <3>2. x \in SideRec /\ x.failed = st[s].failed
      <4>1. st[s] \in SideRec
        BY <1>0
      <4>. QED  BY <4>1 DEF SideRec, Phase
    <3>. HIDE DEF x
    <3>3. Lasting(st[s], x)
      BY <3>1, <3>2 DEF Lasting
    <3>. QED  BY <1>2, <3>1, <3>2, <3>3, CheckLasts
  <2>4. CASE Wake(s)
    <3>1. \E p : st' = [st EXCEPT ![s] = [st[s] EXCEPT !.wake = FALSE, !.phase = p]]
      BY <2>4 DEF Wake, Becomes
    <3>2. UNCHANGED <<faulty, outrun>>
      BY <2>4 DEF Wake, History
    <3>. QED  BY <1>0, <1>2, <3>1, <3>2 DEF Lasting, SideRec
  <2>. QED  BY <1>5, <2>1, <2>2, <2>3, <2>4 DEF SenderStep
<1>6. ASSUME NEW s \in Sides, ReceiveFile(s) \/ ReceiveData(s)
      PROVE  (\A k \in Sides : Lasting(st[k], st'[k])) /\ UNCHANGED <<faulty, outrun>>
  <2>1. UNCHANGED <<faulty, outrun>>
    BY <1>6 DEF ReceiveFile, ReceiveData
  <2>2. ASSUME NEW y \in SideRec, NEW f, Finished(s, y, f), Lasting(st[s], y)
        PROVE  \A k \in Sides : Lasting(st[k], st'[k])
    <3>1. /\ st' = [st EXCEPT ![s] = st'[s]]
          /\ st'[s].failed = y.failed /\ st'[s].done = y.done
          /\ st'[s].batch = y.batch /\ st'[s].batches = y.batches
      BY <1>0, <2>2, FinishedParts
    <3>2. Lasting(st[s], st'[s])
      BY <2>2, <3>1 DEF Lasting
    <3>. QED  BY <1>2, <3>1, <3>2
  <2>3. CASE ReceiveData(s)
    BY <1>0, <1>1, <2>2, <2>3 DEF ReceiveData
  <2>4. CASE ReceiveFile(s)
    <3>. DEFINE y == Announced(st[s])
    <3>1. PICK b \in Nat : y = [st[s] EXCEPT !.rxBatch = b, !.moved = @ \cup {b}]
      BY <1>0, CountingBatches
    <3>2. \/ \E f : Finished(s, y, f)
          \/ \E f : st' = [st EXCEPT ![s] = [y EXCEPT !.current = f]]
      BY <2>4 DEF ReceiveFile, Becomes
    <3>. HIDE DEF y
    <3>3. y \in SideRec /\ Lasting(st[s], y)
      <4>1. st[s] \in SideRec
        BY <1>0
      <4>2. /\ y.failed = st[s].failed /\ y.done = st[s].done
            /\ y.batch = st[s].batch /\ y.batches = st[s].batches
        BY <3>1, <4>1 DEF SideRec
      <4>3. y \in SideRec
        BY <3>1, <4>1 DEF SideRec
      <4>. QED  BY <4>2, <4>3 DEF Lasting
    <3>4. ASSUME NEW f PROVE Lasting(st[s], [y EXCEPT !.current = f])
      <4>. DEFINE z == [y EXCEPT !.current = f]
      <4>1. z.failed = y.failed /\ z.done = y.done /\ z.batch = y.batch /\ z.batches = y.batches
        BY <3>3 DEF SideRec
      <4>. HIDE DEF z
      <4>2. Lasting(st[s], z)
        BY <3>3, <4>1 DEF Lasting
      <4>. QED  BY <4>2 DEF z
    <3>5. CASE \E f : Finished(s, y, f)
      BY <2>1, <2>2, <3>3, <3>5
    <3>6. ASSUME NEW f, st' = [st EXCEPT ![s] = [y EXCEPT !.current = f]]
          PROVE  \A k \in Sides : Lasting(st[k], st'[k])
      <4>. DEFINE z == [y EXCEPT !.current = f]
      <4>1. Lasting(st[s], z) /\ st' = [st EXCEPT ![s] = z]
        BY <3>4, <3>6
      <4>. HIDE DEF z
      <4>. QED  BY <1>2, <4>1
    <3>. QED  BY <2>1, <3>2, <3>5, <3>6
  <2>. QED  BY <1>6, <2>1, <2>3, <2>4
<1>7. ASSUME NEW s \in Sides, SendGot(s) \/ ReceiveAnswer(s) \/ ReceiveEob(s)
      PROVE  (\A k \in Sides : Lasting(st[k], st'[k])) /\ UNCHANGED <<faulty, outrun>>
  <2>1. UNCHANGED <<faulty, outrun>>
    BY <1>7 DEF SendGot, ReceiveAnswer, ReceiveEob, History
  <2>2. PICK x : /\ st' = [st EXCEPT ![s] = CheckDone(x)]
                 /\ \/ x = [st[s] EXCEPT !.owed = NothingOwed]
                    \/ \E m : x = Confirmed(st[s], m)
                    \/ x = Ended(st[s])
    BY <1>7 DEF SendGot, ReceiveAnswer, ReceiveEob, Becomes
  <2>3. x \in SideRec /\ Lasting(st[s], x)
    <3>1. CASE x = [st[s] EXCEPT !.owed = NothingOwed]
      BY <1>0, <3>1 DEF Lasting, SideRec, NothingOwed
    <3>2. ASSUME NEW m, x = Confirmed(st[s], m) PROVE x \in SideRec /\ Lasting(st[s], x)
      <4>1. x \in SideRec
        BY <1>0, <3>2, AnswerTaken
      <4>2. /\ x.failed = st[s].failed /\ x.done = st[s].done
            /\ x.batch = st[s].batch /\ x.batches = st[s].batches
        BY <1>0, <3>2 DEF Confirmed, SideRec
      <4>. QED  BY <4>1, <4>2 DEF Lasting
    <3>3. CASE x = Ended(st[s])
      <4>1. PICK b \in Nat : x = [st[s] EXCEPT !.rxBatch = b, !.rxEnded = @ \cup {b}]
        BY <1>0, <3>3, CountingBatches
      <4>2. st[s] \in SideRec
        BY <1>0
      <4>3. x \in SideRec
        BY <4>1, <4>2 DEF SideRec
      <4>4. /\ x.failed = st[s].failed /\ x.done = st[s].done
            /\ x.batch = st[s].batch /\ x.batches = st[s].batches
        BY <4>1, <4>2 DEF SideRec
      <4>. QED  BY <4>3, <4>4 DEF Lasting
    <3>. QED  BY <2>2, <3>1, <3>2, <3>3
  <2>. QED  BY <1>2, <2>1, <2>2, <2>3, CheckLasts
<1>8. ASSUME NEW s \in Sides, ReceiveMisplaced(s) \/ Finish(s) \/ HangUp(s) \/ Break(s)
      PROVE  UNCHANGED <<st, outrun>> /\ (faulty => faulty')
  BY <1>8 DEF ReceiveMisplaced, Finish, HangUp, Break, Fails, Closes, History
<1>9. ASSUME NEW s \in Sides, RemoteClosed(s)
      PROVE  (\A k \in Sides : Lasting(st[k], st'[k])) /\ UNCHANGED faulty /\ outrun' = (outrun \/ st[s].done)
  <2>1. /\ UNCHANGED faulty /\ outrun' = (outrun \/ st[s].done)
        /\ \/ st' = [st EXCEPT ![s] = [st[s] EXCEPT !.hungUp = TRUE, !.done = TRUE, !.wake = TRUE]]
           \/ UNCHANGED st
    BY <1>9 DEF RemoteClosed, Closes, Becomes
  <2>2. Lasting(st[s], [st[s] EXCEPT !.hungUp = TRUE, !.done = TRUE, !.wake = TRUE])
    BY <1>0 DEF Lasting, SideRec
  <2>. QED  BY <1>1, <1>2, <2>1, <2>2
<1>10. ASSUME NEW s \in Sides, CutShort(s)
       PROVE  (\A k \in Sides : Lasting(st[k], st'[k])) /\ faulty' = TRUE /\ UNCHANGED outrun
  <2>1. /\ st' = [st EXCEPT ![s] = [st[s] EXCEPT !.sending = NoFile, !.phase = "files"]]
        /\ faulty' = TRUE /\ UNCHANGED outrun
    BY <1>10 DEF CutShort, Becomes
  <2>2. Lasting(st[s], [st[s] EXCEPT !.sending = NoFile, !.phase = "files"])
    BY <1>0 DEF Lasting, SideRec
  <2>. QED  BY <1>2, <2>1, <2>2
<1>. QED  BY <1>1, <1>3, <1>4, <1>5, <1>6, <1>7, <1>8, <1>9, <1>10 DEF vars, Next, ReceiverStep

LEMMA EarlyStep == SessionInv /\ SessionInv' /\ StepInv /\ EarlyInv /\ [Next]_vars => EarlyInv'
<1>. SUFFICES ASSUME SessionInv, SessionInv', StepInv, EarlyInv, [Next]_vars, outrun', ~faulty',
                     \A k \in Sides : ~st'[k].failed
              PROVE  Level'
  BY DEF EarlyInv
<1>1. \A k \in Sides : Lasting(st[k], st'[k])
  BY DoneLasts
<1>2. ~faulty /\ \A k \in Sides : ~st[k].failed
  BY <1>1, DoneLasts DEF Lasting
<1>3. Level
  <2>1. CASE outrun
    BY <1>2, <2>1 DEF EarlyInv
  <2>2. CASE ~outrun
    <3>1. PICK s \in Sides : RemoteClosed(s) /\ st[s].done
      BY <2>2, DoneLasts
    <3>. DEFINE o == Other(s)
    <3>2. Smooth
      BY <1>2, <2>2 DEF Smooth
    <3>3. NoneFailed
      BY <3>1, <3>2, NotAlone
    <3>4. o \in Sides /\ Other(o) = s /\ \A k \in Sides : k = s \/ k = o
      BY TwoSides
    <3>5. over[o] = "ok"
      BY <3>1, <3>3, <3>4 DEF RemoteClosed, Runs, NoneFailed, SessionInv, SessionType
    <3>6. \A k \in Sides : Steady(st[k]) /\ (over[k] = "ok" => st[k].done)
      BY <3>2 DEF StepInv, BatchInv
    <3>7. \A k \in Sides : st[k].done /\ st[k].batches = st[k].batch
      BY <3>1, <3>4, <3>5, <3>6 DEF Steady
    <3>8. st[o].batch = st[s].batch
      BY <3>1, <3>2, <3>3, DoneTogether
    <3>. QED  BY <3>4, <3>7, <3>8 DEF Level
  <2>. QED  BY <2>1, <2>2
<1>. QED  BY <1>1, <1>3, TwoSides DEF Level, Lasting

LEMMA AlwaysEarly == Spec => [](SessionInv /\ StepInv /\ EarlyInv)
<1>1. Init => EarlyInv
  BY DEF Init, EarlyInv
<1>. QED  BY <1>1, AlwaysInStep, EarlyStep, PTL DEF Spec

LEMMA LevelIsComplete == SessionInv /\ Level => Complete
<1>. SUFFICES ASSUME SessionInv, Level, NEW s \in Sides, NEW f \in st[s].files
              PROVE  f \in st[s].sent \cup skipped
  BY DEF Level, Complete
<1>1. f \in Files
  BY DEF SessionInv, SessionType, SideRec
<1>2. FileInv(s, f) /\ SideInv(s) /\ st[s].done
  BY <1>1 DEF SessionInv, FilesInv, Level
<1>. QED  BY <1>2 DEF FileInv, SideInv

\* _receive, check_done and between_batches: two mailers that keep to the
\* protocol never take each other's frames for misplaced ones, and neither
\* closes while the other has more to say or to hear.  An established session
\* fails, or is taken to have been hung up, only for a fault of the line or of
\* the other mailer, by MAX_BATCHES, or because a side that had everything
\* closed before the other, as complete, had stopped reading.
THEOREM OnlyFaultsEndSessions == Spec => []OnlyFaultsFail
<1>1. SessionInv /\ StepInv /\ EarlyInv => OnlyFaultsFail
  <2>. SUFFICES ASSUME SessionInv, StepInv, EarlyInv, ~faulty, \A s \in Sides : ~st[s].failed,
                       ~(outrun /\ Complete), NEW s \in Sides, Established(s)
                PROVE  over[s] # "failed" /\ ~st[s].hungUp
    BY DEF OnlyFaultsFail
  <2>1. Smooth /\ HelloInv /\ BatchInv(s)
    BY LevelIsComplete DEF Smooth, StepInv, EarlyInv
  <2>2. NoneFailed
    BY <2>1, NobodyFailed
  <2>. QED  BY <2>1, <2>2 DEF NoneFailed, BatchInv, Steady
<1>. QED  BY <1>1, AlwaysEarly, PTL

\* transfer, check_done: a session that ends well on both sides has confirmed
\* or refused every file of both, and unless the line or another mailer was at
\* fault, both sides count the same batches though each ends on what it has
\* seen alone.
THEOREM GoodEndsAgree == Spec => []CleanEnd
<1>1. SessionInv /\ StepInv /\ EarlyInv => CleanEnd
  <2>. SUFFICES ASSUME SessionInv, StepInv, EarlyInv, \A k \in Sides : over[k] = "ok", NEW s \in Sides
                PROVE  /\ st[s].files \subseteq st[s].sent \cup skipped
                       /\ faulty \/ st[s].batches = st[Other(s)].batches
    BY DEF CleanEnd
  <2>1. ASSUME NEW f \in st[s].files PROVE f \in st[s].sent \cup skipped
    BY <2>1, NothingUnsettled
  <2>2. ASSUME ~faulty PROVE st[s].batches = st[Other(s)].batches
    <3>1. /\ NoneFailed /\ \A k \in Sides : ~st[k].failed
      BY DEF StepInv, EndInv, NoneFailed
    <3>2. CASE outrun
      BY <2>2, <3>1, <3>2 DEF EarlyInv, Level
    <3>3. CASE ~outrun
      <4>1. Smooth /\ Other(s) \in Sides
        BY <2>2, <3>1, <3>3, TwoSides DEF Smooth
      <4>2. \A k \in Sides : st[k].done /\ st[k].batches = st[k].batch
        BY <4>1 DEF StepInv, BatchInv, Steady
      <4>3. st[Other(s)].batch = st[s].batch
        BY <3>1, <4>1, <4>2, DoneTogether
      <4>. QED  BY <4>1, <4>2, <4>3
    <3>. QED  BY <3>2, <3>3
  <2>. QED  BY <2>1, <2>2
<1>. QED  BY <1>1, AlwaysEarly, PTL

-----------------------------------------------------------------------------
(* Two mailers never wait for each other.                                    *)

\* Side s has nothing to do before a frame comes: in the handshake, or having
\* sent its M_EOB and answered every file.
Waits(s) ==
    /\ Runs(s) /\ chan[s] = <<>>
    /\ \/ st[s].phase \in {"address", "auth"}
       \/ /\ st[s].phase = "wait" /\ ~st[s].wake
          /\ ~st[s].done /\ st[s].owed = NothingOwed

\* A sender waits only for the end of the batch it has ended itself.
Awake(r) == r.phase = "wait" => r.eobSent \/ r.wake \/ r.done

\* What the handshake still waits for is on its way.
HandInv ==
    /\ \A s \in Sides : st[s].phase \in Greeting /\ st[Other(s)].phase # "start" => Has(chan[s], Msg("ADR"))
    /\ st["caller"].phase = "auth" =>
          IF Established("answerer") THEN Has(chan["caller"], FileMsg("OK", OkWord))
          ELSE Has(chan["answerer"], FileMsg("PWD", login.password))

BothRun == \A s \in Sides : Runs(s)

WaitInv ==
    /\ \A s \in Sides : Awake(st[s])
    /\ Smooth /\ BothRun => HandInv

LEMMA StaysAwake ==
    ASSUME NEW r \in SideRec, Awake(r)
    PROVE  Awake(CheckDone(r))
<1>. DEFINE x == CheckDone(r)
<1>1. x.phase = r.phase /\ (r.done => x = r)
  BY CheckingDone DEF CheckDone
<1>2. (r.eobSent => x.eobSent \/ x.wake) /\ (r.wake => x.wake)
  <2>1. CASE r.done \/ ~BatchOver(r)
    BY <2>1 DEF CheckDone
  <2>2. CASE ~r.done /\ BatchOver(r)
    <3>1. x.wake
      BY <2>2 DEF CheckDone, SideRec
    <3>. QED  BY <3>1
  <2>. QED  BY <2>1, <2>2
<1>. QED  BY <1>1, <1>2 DEF Awake

\* A step that is none of the handshake's
LEMMA Onward ==
    ASSUME SessionInv, WaitInv, NEW s \in Sides, NEW r, Awake(r),
           st' = [st EXCEPT ![s] = r], UNCHANGED <<login, over>>, faulty => faulty', outrun => outrun',
           st[s].failed => r.failed,
           Established(s), r.phase \notin {"start", "address", "auth"},
           \A k \in Sides : \A t \in {"ADR", "PWD", "OK"} : \A w :
              Has(chan[k], FileMsg(t, w)) => Has(chan'[k], FileMsg(t, w))
    PROVE  WaitInv'
<1>1. /\ st'[s] = r /\ \A k \in Sides : k # s => st'[k] = st[k]
      /\ "caller" \in Sides /\ "answerer" \in Sides /\ \A k \in Sides : Other(k) \in Sides
  BY TwoSides DEF SessionInv, SessionType, Sides
<1>2. \A k \in Sides : Awake(st[k])'
  BY <1>1 DEF WaitInv, Awake
<1>3. ASSUME Smooth', BothRun' PROVE HandInv'
  <2>1. HandInv
    BY <1>1, <1>3 DEF WaitInv, Smooth, BothRun, Runs
  <2>2. \A k \in Sides : /\ Established(k)' <=> Established(k)
                         /\ st'[k].phase \in Greeting <=> st[k].phase \in Greeting
                         /\ st'[k].phase # "start" => st[k].phase # "start"
                         /\ st'[k].phase = "auth" => st[k].phase = "auth"
    BY <1>1 DEF Established, Greeting
  <2>2a. \A k \in Sides : st'[Other(k)].phase # "start" => st[Other(k)].phase # "start"
    BY <1>1, <2>2
  <2>3. OkWord' = OkWord /\ Msg("ADR") = FileMsg("ADR", NoFile) /\ login' = login
    BY FrameParts DEF OkWord
  <2>4. \A k \in Sides : st'[k].phase \in Greeting /\ st'[Other(k)].phase # "start" => Has(chan'[k], Msg("ADR"))
    BY <2>1, <2>2, <2>2a, <2>3 DEF HandInv
  <2>5. st'["caller"].phase = "auth" =>
           IF Established("answerer")' THEN Has(chan'["caller"], FileMsg("OK", OkWord))
           ELSE Has(chan'["answerer"], FileMsg("PWD", login.password))
    BY <1>1, <2>1, <2>2 DEF HandInv
  <2>. QED  BY <2>3, <2>4, <2>5 DEF HandInv
<1>. QED  BY <1>2, <1>3 DEF WaitInv

LEMMA HandshakeWaits ==
    ASSUME SessionInv, StepInv, WaitInv, NEW s \in Sides, HandshakeStep(s)
    PROVE  WaitInv'
<1>. DEFINE o == Other(s)
<1>0. /\ st \in [Sides -> SideRec] /\ st[s] \in SideRec /\ chan \in [Sides -> Seq(Frame)]
      /\ login \in [password : {"none", "right", "wrong"}, expected : BOOLEAN]
      /\ o \in Sides /\ o # s /\ Other(o) = s /\ \A k \in Sides : k = s \/ k = o
      /\ "caller" \in Sides /\ "answerer" \in Sides /\ Msg("ADR") = FileMsg("ADR", NoFile)
  BY TwoSides, FrameParts, BinkpAssumption DEF SessionInv, SessionType, BinkpAssumption, Sides
<1>1. ASSUME NEW r, Awake(r), st' = [st EXCEPT ![s] = r], UNCHANGED <<login, over, faulty, outrun>>,
             r.failed = st[s].failed,
             Smooth /\ BothRun /\ HandInv /\ HelloInv /\ OkWord' = OkWord => HandInv'
      PROVE  WaitInv'
  <2>1. st'[s] = r /\ st'[o] = st[o]
    BY <1>0, <1>1
  <2>2. (Smooth' => Smooth) /\ (BothRun' => BothRun) /\ OkWord' = OkWord
    BY <1>0, <1>1, <2>1 DEF Smooth, BothRun, Runs, OkWord
  <2>. QED  BY <1>0, <1>1, <2>1, <2>2 DEF WaitInv, StepInv, Awake
<1>2. ASSUME SayHello(s) PROVE WaitInv'
  <2>. DEFINE r == [st[s] EXCEPT !.phase = "address"]
  <2>1. /\ st[s].phase = "start" /\ st' = [st EXCEPT ![s] = r] /\ UNCHANGED <<login, over, faulty, outrun>>
        /\ Send(s, Msg("ADR")) /\ Msg("ADR") \in Frame
    BY <1>2 DEF SayHello, Becomes, Aside, Settings, History, Msg, Frame
  <2>2. r.phase = "address" /\ r.failed = st[s].failed
    BY <1>0 DEF SideRec
  <2>. HIDE DEF r
  <2>3. ASSUME BothRun, HandInv, OkWord' = OkWord PROVE HandInv'
    <3>1. /\ chan'[s] = chan[s] /\ chan'[o] = Append(chan[o], Msg("ADR"))
          /\ st'[s].phase = "address" /\ st'[o] = st[o]
      BY <1>0, <2>1, <2>2, <2>3, Written DEF BothRun
    <3>2. \A m : Has(chan'[o], m) <=> Has(chan[o], m) \/ m = Msg("ADR")
      BY <1>0, <2>1, <3>1, HasAppend
    <3>3. /\ st'[s].phase \in Greeting /\ st'[o].phase # "start" => Has(chan'[s], Msg("ADR"))
          /\ st'[o].phase \in Greeting /\ st'[s].phase # "start" => Has(chan'[o], Msg("ADR"))
      BY <1>0, <2>1, <2>3, <3>1, <3>2 DEF HandInv, Greeting
    <3>4. /\ Established("answerer")' <=> Established("answerer")
          /\ st'["caller"].phase = "auth" => st["caller"].phase = "auth"
      BY <1>0, <2>1, <3>1 DEF Established
    <3>5. \A k \in Sides : \A m : Has(chan[k], m) => Has(chan'[k], m)
      BY <1>0, <3>1, <3>2
    <3>. QED  BY <1>0, <2>1, <2>3, <3>3, <3>4, <3>5 DEF HandInv
  <2>. QED  BY <1>1, <2>1, <2>2, <2>3 DEF Awake
<1>3. ASSUME ReadAddress(s) PROVE WaitInv'
  <2>. DEFINE r == [st[s] EXCEPT !.phase = "auth"]
              m == FileMsg("PWD", login.password)
  <2>1. /\ st[s].phase = "address" /\ st' = [st EXCEPT ![s] = r] /\ UNCHANGED <<login, over, faulty, outrun>>
        /\ chan[s] # <<>> /\ Head(chan[s]).t = "ADR"
        /\ IF s = "caller" THEN Reply(s, m) ELSE chan' = Consumed(s)
    BY <1>3 DEF ReadAddress, Becomes, Aside, Settings, History, Next1
  <2>2. r.phase = "auth" /\ r.failed = st[s].failed
    BY <1>0 DEF SideRec
  <2>3. m \in Frame
    BY <1>0 DEF FileMsg, Frame, NoFile
  <2>. HIDE DEF r
  <2>4. ASSUME BothRun, HandInv, HelloInv, OkWord' = OkWord PROVE HandInv'
    <3>1. /\ chan'[s] = Tail(chan[s]) /\ st'[s].phase = "auth" /\ st'[o] = st[o]
          /\ chan'[o] = IF s = "caller" THEN Append(chan[o], m) ELSE chan[o]
      BY <1>0, <2>1, <2>2, <2>4 DEF Reply, Consumed, BothRun
    <3>2. /\ \A f : Has(chan[o], f) => Has(chan'[o], f)
          /\ s = "caller" => Has(chan'[o], m)
      BY <1>0, <2>3, <3>1, HasAppend
    <3>3. Has(chan[o], Msg("ADR")) \/ st[o].phase \notin Greeting
      BY <1>0, <2>1, <2>4 DEF HandInv
    <3>4. \A k \in Sides : st'[k].phase \in Greeting /\ st'[Other(k)].phase # "start" => Has(chan'[k], Msg("ADR"))
      BY <1>0, <3>1, <3>2, <3>3 DEF Greeting
    <3>5. CASE s = "caller"
      <4>1. o = "answerer" /\ ~Established("answerer")'
        BY <1>0, <2>1, <2>4, <3>1, <3>5 DEF HelloInv, Established, Greeting, Other
      <4>. QED  BY <2>1, <3>2, <3>4, <3>5, <4>1 DEF HandInv
    <3>6. CASE s # "caller"
      <4>1. s = "answerer" /\ o = "caller"
        BY <1>0, <3>6 DEF Sides, Other
      <4>2. ~Established("answerer")' /\ ~Established("answerer")
        BY <2>1, <3>1, <4>1 DEF Established
      <4>3. Has(chan["answerer"], m) => Has(chan'["answerer"], m)
        <5>1. m # Head(chan[s])
          BY <2>1, FrameParts
        <5>2. chan[s] \in Seq(Frame) /\ chan[s] # <<>>
          BY <1>0, <2>1
        <5>3. Has(chan[s], m) => Has(Tail(chan[s]), m)
          BY <5>1, <5>2, HasRest
        <5>. QED  BY <3>1, <4>1, <5>3
      <4>. QED  BY <2>1, <2>4, <3>1, <3>4, <4>1, <4>2, <4>3 DEF HandInv
    <3>. QED  BY <3>5, <3>6
  <2>. QED  BY <1>1, <2>1, <2>2, <2>4 DEF Awake
<1>4. ASSUME s = "answerer", CheckPassword PROVE WaitInv'
  <2>1. CASE login.expected /\ ~PasswordMatches(Head(chan["answerer"]).f)
    <3>1. over' = [over EXCEPT !["answerer"] = "failed"] /\ UNCHANGED st
      BY <1>4, <2>1 DEF CheckPassword
    <3>2. over'["answerer"] = "failed"
      BY <1>0, <3>1 DEF SessionInv, SessionType
    <3>. QED  BY <1>0, <3>1, <3>2 DEF WaitInv, BothRun, Runs, Awake
  <2>2. CASE ~(login.expected /\ ~PasswordMatches(Head(chan["answerer"]).f))
    <3>1. PICK G \in SUBSET FilesOf[s] : Becomes(s, Begin([st[s] EXCEPT !.secure = login.expected], G))
      BY <1>4, <2>2 DEF CheckPassword
    <3>. DEFINE r == Begin([st[s] EXCEPT !.secure = login.expected], G)
                m == FileMsg("OK", OkWord)
    <3>2. /\ st' = [st EXCEPT ![s] = r] /\ Reply(s, m) /\ UNCHANGED <<login, over, faulty, outrun>>
          /\ chan[s] # <<>> /\ st[s].phase = "auth"
      BY <1>4, <2>2, <3>1 DEF CheckPassword, Becomes, Aside, Settings, History, OkWord, Next1
    <3>3. r.phase = "files" /\ r.failed = st[s].failed
      BY <1>0 DEF SideRec, Begin
    <3>4. m \in Frame
      BY <1>0 DEF FileMsg, Frame, OkWord
    <3>. HIDE DEF r
    <3>5. ASSUME BothRun, HandInv, OkWord' = OkWord PROVE HandInv'
      <4>1. chan'[o] = Append(chan[o], m) /\ st'[s].phase = "files" /\ st'[o] = st[o] /\ o = "caller"
        BY <1>0, <1>4, <3>2, <3>3, <3>5 DEF Reply, Consumed, BothRun, Other
      <4>2. Has(chan'[o], m) /\ \A f : Has(chan[o], f) => Has(chan'[o], f)
        BY <1>0, <3>4, <4>1, HasAppend
      <4>3. Established("answerer")'
        BY <1>4, <4>1 DEF Established
      <4>4. Has(chan[o], Msg("ADR")) \/ st[o].phase \notin Greeting
        BY <1>0, <3>2, <3>5 DEF HandInv
      <4>5. \A k \in Sides : st'[k].phase \in Greeting /\ st'[Other(k)].phase # "start" => Has(chan'[k], Msg("ADR"))
        BY <1>0, <4>1, <4>2, <4>4 DEF Greeting
      <4>. QED  BY <3>5, <4>1, <4>2, <4>3, <4>5 DEF HandInv
    <3>. QED  BY <1>1, <3>2, <3>3, <3>5 DEF Awake
  <2>. QED  BY <2>1, <2>2
<1>5. ASSUME s = "caller", ReadOk PROVE WaitInv'
  <2>1. PICK sec, G : Becomes(s, Begin([st[s] EXCEPT !.secure = sec], G))
    BY <1>5 DEF ReadOk
  <2>. DEFINE r == Begin([st[s] EXCEPT !.secure = sec], G)
  <2>2. /\ st' = [st EXCEPT ![s] = r] /\ chan' = Consumed(s) /\ UNCHANGED <<login, over, faulty, outrun>>
        /\ st[s].phase = "auth"
    BY <1>5, <2>1 DEF ReadOk, Becomes, Aside, Settings, History
  <2>3. r.phase = "files" /\ r.failed = st[s].failed
    BY <1>0 DEF SideRec, Begin
  <2>. HIDE DEF r
  <2>4. ASSUME HandInv PROVE HandInv'
    <3>1. chan'[o] = chan[o] /\ st'[s].phase = "files" /\ st'[o] = st[o]
      BY <1>0, <2>2, <2>3, Consuming
    <3>2. \A k \in Sides : st'[k].phase \in Greeting /\ st'[Other(k)].phase # "start" => Has(chan'[k], Msg("ADR"))
      BY <1>0, <2>2, <2>4, <3>1 DEF HandInv, Greeting
    <3>. QED  BY <1>5, <3>1, <3>2 DEF HandInv
  <2>. QED  BY <1>1, <2>2, <2>3, <2>4 DEF Awake
<1>6. ASSUME Refused(s) PROVE WaitInv'
  <2>1. over' = [over EXCEPT ![s] = "failed"] /\ UNCHANGED st
    BY <1>6 DEF Refused, Fails, Closes
  <2>2. over'[s] = "failed"
    BY <2>1 DEF SessionInv, SessionType
  <2>. QED  BY <2>1, <2>2 DEF WaitInv, BothRun, Runs, Awake
<1>. QED  BY <1>2, <1>3, <1>4, <1>5, <1>6 DEF HandshakeStep

LEMMA WaitStep == SessionInv /\ SessionInv' /\ StepInv /\ WaitInv /\ [Next]_vars => WaitInv'
<1>. SUFFICES ASSUME SessionInv, SessionInv', StepInv, WaitInv, [Next]_vars PROVE WaitInv'
  OBVIOUS
<1>0. /\ st \in [Sides -> SideRec] /\ chan \in [Sides -> Seq(Frame)] /\ over \in [Sides -> {"no", "ok", "failed"}]
      /\ \A s \in Sides : SideInv(s) /\ Awake(st[s]) /\ st[s] \in SideRec
      /\ \A s \in Sides : Other(s) \in Sides /\ Other(s) # s /\ \A k \in Sides : k = s \/ k = Other(s)
  BY TwoSides DEF SessionInv, SessionType, FilesInv, WaitInv
<1>1. CASE UNCHANGED vars
  <2>1. (Smooth' => Smooth) /\ (BothRun' => BothRun) /\ \A k \in Sides : Awake(st[k])'
    BY <1>0, <1>1 DEF vars, Smooth, BothRun, Runs, Awake
  <2>2. HandInv => HandInv'
    BY <1>1 DEF vars, HandInv, Established, OkWord
  <2>. QED  BY <2>1, <2>2 DEF WaitInv
\* A side that ends its session
<1>2. ASSUME NEW s \in Sides, NEW how \in {"ok", "failed"}, NEW certain, Closes(s, how, certain)
      PROVE  WaitInv'
  <2>1. over'[s] # "no" /\ UNCHANGED st
    BY <1>0, <1>2 DEF Closes
  <2>. QED  BY <1>0, <2>1 DEF WaitInv, BothRun, Runs, Awake
\* A side that writes a frame of the transfer or none, or reads one
<1>3. ASSUME NEW s \in Sides, NEW m \in Frame, Send(s, m) \/ UNCHANGED chan
      PROVE  \A k \in Sides : \A f : Has(chan[k], f) => Has(chan'[k], f)
  <2>1. CASE UNCHANGED chan
    BY <2>1
  <2>2. CASE Send(s, m)
    <3>1. chan'[s] = chan[s] /\ (chan'[Other(s)] = chan[Other(s)] \/ chan'[Other(s)] = Append(chan[Other(s)], m))
      BY <1>0, <1>3, <2>2, Written
    <3>2. /\ chan[s] \in Seq(Frame) /\ chan[Other(s)] \in Seq(Frame)
          /\ \A k \in Sides : k = s \/ k = Other(s)
      BY <1>0
    <3>3. \A f : Has(chan[Other(s)], f) => Has(chan'[Other(s)], f)
      <4>1. CASE chan'[Other(s)] = chan[Other(s)]
        BY <4>1
      <4>2. CASE chan'[Other(s)] = Append(chan[Other(s)], m)
        <5>1. \A f : Has(chan[Other(s)], f) => Has(Append(chan[Other(s)], m), f)
          BY <3>2, HasAppend
        <5>. QED  BY <4>2, <5>1
      <4>. QED  BY <3>1, <4>1, <4>2
    <3>. QED  BY <3>1, <3>2, <3>3
  <2>. QED  BY <1>3, <2>1, <2>2
<1>4. ASSUME NEW s \in Sides, chan' = Consumed(s), NEW u \in {"FILE", "DATA", "GOT", "SKIP", "EOB"}, Next1(s, u)
      PROVE  \A k \in Sides : \A t \in {"ADR", "PWD", "OK"} : \A w :
                Has(chan[k], FileMsg(t, w)) => Has(chan'[k], FileMsg(t, w))
  <2>. SUFFICES ASSUME NEW k \in Sides, NEW t \in {"ADR", "PWD", "OK"}, NEW w, Has(chan[k], FileMsg(t, w))
                PROVE  Has(chan'[k], FileMsg(t, w))
    OBVIOUS
  <2>1. chan'[s] = Tail(chan[s]) /\ chan'[Other(s)] = chan[Other(s)]
    BY <1>0, <1>4, Consuming
  <2>2. FileMsg(t, w) # Head(chan[s]) /\ chan[s] # <<>>
    BY <1>4, FrameParts DEF Next1
  <2>3. CASE k = s
    <3>1. chan[s] \in Seq(Frame)
      BY <1>0
    <3>. QED  BY <2>1, <2>2, <2>3, <3>1, HasRest
  <2>4. CASE k # s
    BY <1>0, <2>1, <2>4
  <2>. QED  BY <2>3, <2>4
<1>5. ASSUME NEW s \in Sides, SenderStep(s) \/ CutShort(s) PROVE WaitInv'
  <2>1. ASSUME NEW f \in st[s].toSend, AnnounceFile(s, f) PROVE WaitInv'
    <3>1. PICK r : /\ st' = [st EXCEPT ![s] = r] /\ r.phase \in {"files", "data"} /\ r.failed = st[s].failed
      <4>. DEFINE r == [st[s] EXCEPT !.toSend = @ \ {f}, !.awaiting = @ \cup {f},
                      !.moved = @ \cup {st[s].batch},
                      !.sending = IF f \in EmptyFiles THEN NoFile ELSE f,
                      !.phase = IF f \in EmptyFiles THEN "files" ELSE "data"]
      <4>1. r.phase = (IF f \in EmptyFiles THEN "files" ELSE "data") /\ r.failed = st[s].failed
        BY <1>0 DEF SideRec
      <4>2. st' = [st EXCEPT ![s] = r]
        BY <2>1 DEF AnnounceFile, Becomes
      <4>. QED  BY <4>1, <4>2
    <3>2. /\ FileMsg("FILE", f) \in Frame /\ Send(s, FileMsg("FILE", f)) /\ Established(s)
          /\ UNCHANGED <<login, over, faulty, outrun>>
      BY <1>0, <2>1 DEF AnnounceFile, Aside, Settings, History, Established, FileMsg, Frame, SideRec
    <3>. QED  BY <1>3, <3>1, <3>2, Onward DEF Awake
  <2>2. ASSUME SendData(s) \/ CutShort(s) PROVE WaitInv'
    <3>. DEFINE r == [st[s] EXCEPT !.sending = NoFile, !.phase = "files"]
                m == FileMsg("DATA", st[s].sending)
    <3>1. st' = [st EXCEPT ![s] = r] /\ r.phase = "files" /\ r.failed = st[s].failed
      BY <1>0, <2>2 DEF SendData, CutShort, Becomes, SideRec
    <3>. HIDE DEF r
    <3>2. Send(s, m) \/ UNCHANGED chan
      BY <2>2 DEF SendData, CutShort
    <3>. HIDE DEF m
    <3>3. m \in Frame
      BY <1>0, <2>2 DEF SendData, CutShort, FileMsg, Frame, SideInv, m
    <3>4. \A k \in Sides : \A f : Has(chan[k], f) => Has(chan'[k], f)
      BY <1>3, <3>2, <3>3
    <3>5. Established(s) /\ UNCHANGED <<login, over>> /\ (faulty => faulty') /\ (outrun => outrun')
      BY <2>2 DEF SendData, CutShort, Aside, Settings, History, Established
    <3>. QED  BY <3>1, <3>4, <3>5, Onward DEF Awake
  <2>3. ASSUME SendEob(s) PROVE WaitInv'
    <3>. DEFINE x == [st[s] EXCEPT !.phase = "wait", !.eobSent = TRUE]
                r == CheckDone(x)
    <3>1. x \in SideRec /\ x.phase = "wait" /\ x.eobSent /\ x.failed = st[s].failed
      <4>1. st[s] \in SideRec
        BY <1>0
      <4>. QED  BY <4>1 DEF SideRec, Phase
    <3>2. st' = [st EXCEPT ![s] = r] /\ Send(s, Msg("EOB")) /\ Established(s) /\ UNCHANGED <<login, over, faulty, outrun>>
      BY <2>3 DEF SendEob, Becomes, Aside, Settings, History, Established
    <3>. HIDE DEF x
    <3>3. Awake(r) /\ r.phase = "wait" /\ (st[s].failed => r.failed)
      BY <3>1, StaysAwake, CheckingDone, CheckKeeps DEF Awake
    <3>. HIDE DEF r
    <3>4. Msg("EOB") \in Frame
      BY DEF Msg, Frame
    <3>. QED  BY <1>3, <3>2, <3>3, <3>4, Onward
  <2>4. ASSUME Wake(s) PROVE WaitInv'
    <3>. DEFINE r == [st[s] EXCEPT !.wake = FALSE, !.phase = IF st[s].done THEN "stop" ELSE "hook"]
    <3>1. st' = [st EXCEPT ![s] = r] /\ Established(s) /\ UNCHANGED <<chan, login, over, faulty, outrun>>
      BY <2>4 DEF Wake, Becomes, Aside, Settings, History, Established
    <3>2. r.phase \in {"stop", "hook"} /\ r.failed = st[s].failed
      BY <1>0 DEF SideRec
    <3>. HIDE DEF r
    <3>. QED  BY <3>1, <3>2, Onward DEF Awake
  <2>5. ASSUME AskNextBatch(s) PROVE WaitInv'
    <3>1. PICK G : st' = [st EXCEPT ![s] = [st[s] EXCEPT !.phase = "files", !.files = @ \cup G,
                                                        !.toSend = @ \cup (G \ st[s].files)]]
      BY <2>5 DEF AskNextBatch, Becomes
    <3>. DEFINE r == [st[s] EXCEPT !.phase = "files", !.files = @ \cup G, !.toSend = @ \cup (G \ st[s].files)]
    <3>2. r.phase = "files" /\ r.failed = st[s].failed
      BY <1>0 DEF SideRec
    <3>3. st' = [st EXCEPT ![s] = r] /\ Established(s) /\ UNCHANGED <<chan, login, over, faulty, outrun>>
      BY <2>5, <3>1 DEF AskNextBatch, Aside, Settings, History, Established
    <3>. HIDE DEF r
    <3>. QED  BY <3>2, <3>3, Onward DEF Awake
  <2>. QED  BY <1>5, <2>1, <2>2, <2>3, <2>4, <2>5 DEF SenderStep
\* The receiver leaves its sender's place alone, and wakes it by check_done.
<1>6. ASSUME NEW s \in Sides, NEW y \in SideRec, NEW r, r = y \/ r = CheckDone(y),
             st' = [st EXCEPT ![s] = r], y.phase = st[s].phase, y.failed = st[s].failed,
             y.eobSent = st[s].eobSent, st[s].wake => y.wake, st[s].done => y.done,
             Established(s), UNCHANGED <<login, over>>, faulty => faulty', outrun => outrun',
             \A k \in Sides : \A t \in {"ADR", "PWD", "OK"} : \A w :
                Has(chan[k], FileMsg(t, w)) => Has(chan'[k], FileMsg(t, w))
      PROVE  WaitInv'
  <2>1. Awake(y)
    BY <1>0, <1>6 DEF Awake
  <2>2. Awake(r) /\ r.phase = st[s].phase /\ (st[s].failed => r.failed)
    BY <1>6, <2>1, StaysAwake, CheckingDone, CheckKeeps
  <2>. QED  BY <1>6, <2>2, Onward DEF Established
<1>7. ASSUME NEW s \in Sides,
             ReceiveFile(s) \/ ReceiveData(s) \/ SendGot(s) \/ ReceiveAnswer(s) \/ ReceiveEob(s) \/ RemoteClosed(s)
      PROVE  WaitInv'
  <2>1. ASSUME ReceiveFile(s) PROVE WaitInv'
    <3>. DEFINE f == Head(chan[s]).f
                a == Announced(st[s])
    <3>1. /\ Established(s) /\ Next1(s, "FILE") /\ chan' = Consumed(s) /\ UNCHANGED <<login, over, faulty, outrun>>
          /\ IF f \in EmptyFiles THEN Finished(s, a, f) ELSE Becomes(s, [a EXCEPT !.current = f])
      BY <2>1 DEF ReceiveFile, Takes, Listens, Aside, Settings
    <3>2. /\ a \in SideRec /\ a.phase = st[s].phase /\ a.failed = st[s].failed
          /\ a.eobSent = st[s].eobSent /\ a.wake = st[s].wake /\ a.done = st[s].done
      <4>1. st[s] \in SideRec
        BY <1>0
      <4>2. PICK b \in Nat : a = [st[s] EXCEPT !.rxBatch = b, !.moved = @ \cup {b}]
        BY <4>1, Counted
      <4>. HIDE DEF a
      <4>. QED  BY <4>1, <4>2 DEF SideRec
    <3>. HIDE DEF a
    <3>3. /\ st' = [st EXCEPT ![s] = st'[s]] /\ st'[s].phase = a.phase /\ st'[s].failed = a.failed
          /\ st'[s].eobSent = a.eobSent /\ st'[s].wake = a.wake /\ st'[s].done = a.done
      <4>1. CASE f \in EmptyFiles
        <5>1. Finished(s, a, f)
          BY <3>1, <4>1
        <5>. HIDE DEF f
        <5>. QED  BY <1>0, <3>2, <5>1, FinishedParts
      <4>2. CASE f \notin EmptyFiles
        BY <1>0, <3>1, <3>2, <4>2 DEF Becomes, SideRec
      <4>. QED  BY <4>1, <4>2
    <3>4. st'[s] \in SideRec
      BY DEF SessionInv, SessionType
    <3>5. PICK y \in SideRec : y = st'[s]
      BY <3>4
    <3>. QED  BY <1>4, <1>6, <3>1, <3>2, <3>3, <3>5
  <2>2. ASSUME ReceiveData(s) PROVE WaitInv'
    <3>1. /\ Established(s) /\ Next1(s, "DATA") /\ chan' = Consumed(s) /\ UNCHANGED <<login, over, faulty, outrun>>
          /\ Finished(s, st[s], st[s].current)
      BY <2>2 DEF ReceiveData, Takes, Listens, Aside, Settings
    <3>2. /\ st' = [st EXCEPT ![s] = st'[s]] /\ st'[s].phase = st[s].phase /\ st'[s].failed = st[s].failed
          /\ st'[s].eobSent = st[s].eobSent /\ st'[s].wake = st[s].wake /\ st'[s].done = st[s].done
      BY <1>0, <3>1, FinishedParts
    <3>3. PICK y \in SideRec : y = st'[s]
      BY DEF SessionInv, SessionType
    <3>. QED  BY <1>4, <1>6, <3>1, <3>2, <3>3
  <2>3. ASSUME SendGot(s) PROVE WaitInv'
    <3>. DEFINE y == [st[s] EXCEPT !.owed = NothingOwed]
    <3>1. /\ st' = [st EXCEPT ![s] = CheckDone(y)] /\ Send(s, st[s].owed) /\ UNCHANGED <<login, over, faulty, outrun>>
          /\ Established(s)
      BY <1>0, <2>3 DEF SendGot, Becomes, Aside, Settings, History, SideInv
    <3>2. /\ y \in SideRec /\ y.phase = st[s].phase /\ y.failed = st[s].failed
          /\ y.eobSent = st[s].eobSent /\ y.wake = st[s].wake /\ y.done = st[s].done
          /\ st[s].owed \in Frame
      <4>1. st[s] \in SideRec
        BY <1>0
      <4>. QED  BY <4>1 DEF SideRec, NothingOwed, Msg, Frame
    <3>. HIDE DEF y
    <3>. QED  BY <1>3, <1>6, <3>1, <3>2
  <2>4. ASSUME ReceiveAnswer(s) PROVE WaitInv'
    <3>. DEFINE m == Head(chan[s])
                y == Confirmed(st[s], m)
    <3>1. /\ st' = [st EXCEPT ![s] = CheckDone(y)]
          /\ Next1(s, "GOT") \/ Next1(s, "SKIP")
          /\ chan' = Consumed(s) /\ UNCHANGED <<login, over, faulty, outrun>> /\ Established(s)
      BY <2>4 DEF ReceiveAnswer, Takes, Becomes, Aside, Settings, History, Listens
    <3>2. /\ y \in SideRec /\ y.phase = st[s].phase /\ y.failed = st[s].failed
          /\ y.eobSent = st[s].eobSent /\ y.wake = st[s].wake /\ y.done = st[s].done
      <4>1. st[s] \in SideRec
        BY <1>0
      <4>2. y \in SideRec /\ y.phase = st[s].phase /\ y.done = st[s].done
        BY <4>1, AnswerTaken
      <4>3. y = [st[s] EXCEPT !.awaiting = @ \ {m.f},
                              !.sent = IF m.f \in st[s].awaiting /\ m.t = "GOT" THEN @ \cup {m.f} ELSE @]
        BY DEF Confirmed
      <4>. HIDE DEF y
      <4>4. y.failed = st[s].failed /\ y.eobSent = st[s].eobSent /\ y.wake = st[s].wake
        BY <4>1, <4>3 DEF SideRec
      <4>. QED  BY <4>2, <4>4
    <3>. HIDE DEF y
    <3>3. \A k \in Sides : \A u \in {"ADR", "PWD", "OK"} : \A w :
             Has(chan[k], FileMsg(u, w)) => Has(chan'[k], FileMsg(u, w))
      BY <1>4, <3>1
    <3>. QED  BY <1>6, <3>1, <3>2, <3>3
  <2>5. ASSUME ReceiveEob(s) PROVE WaitInv'
    <3>. DEFINE y == Ended(st[s])
    <3>1. /\ st' = [st EXCEPT ![s] = CheckDone(y)] /\ Next1(s, "EOB")
          /\ chan' = Consumed(s) /\ UNCHANGED <<login, over, faulty, outrun>> /\ Established(s)
      BY <2>5 DEF ReceiveEob, Takes, Becomes, Aside, Settings, History, Listens
    <3>2. /\ y \in SideRec /\ y.phase = st[s].phase /\ y.failed = st[s].failed
          /\ y.eobSent = st[s].eobSent /\ y.wake = st[s].wake /\ y.done = st[s].done
      <4>1. st[s] \in SideRec
        BY <1>0
      <4>2. PICK b \in Nat : y = [st[s] EXCEPT !.rxBatch = b, !.rxEnded = @ \cup {b}]
        BY <4>1, Counted
      <4>. HIDE DEF y
      <4>. QED  BY <4>1, <4>2 DEF SideRec
    <3>. HIDE DEF y
    <3>. QED  BY <1>4, <1>6, <3>1, <3>2
  <2>6. ASSUME RemoteClosed(s) PROVE WaitInv'
    <3>1. CASE BetweenBatches(st[s])
      <4>. DEFINE y == [st[s] EXCEPT !.hungUp = TRUE, !.done = TRUE, !.wake = TRUE]
      <4>1. /\ st' = [st EXCEPT ![s] = y] /\ UNCHANGED <<chan, login, over, faulty>>
            /\ (outrun => outrun') /\ Established(s)
        BY <2>6, <3>1 DEF RemoteClosed, Becomes, Aside, Settings, History, Listens
      <4>2. /\ y \in SideRec /\ y.phase = st[s].phase /\ y.failed = st[s].failed
            /\ y.eobSent = st[s].eobSent /\ y.wake /\ y.done
        <5>1. st[s] \in SideRec
          BY <1>0
        <5>. QED  BY <5>1 DEF SideRec
      <4>. HIDE DEF y
      <4>3. \A k \in Sides : \A t \in {"ADR", "PWD", "OK"} : \A w :
               Has(chan[k], FileMsg(t, w)) => Has(chan'[k], FileMsg(t, w))
        BY <4>1
      <4>4. faulty => faulty'
        BY <4>1
      <4>5. UNCHANGED <<login, over>> /\ (st[s].wake => y.wake) /\ (st[s].done => y.done)
        BY <4>1, <4>2
      <4>6. /\ y \in SideRec /\ y.phase = st[s].phase /\ y.failed = st[s].failed
            /\ y.eobSent = st[s].eobSent
        BY <4>2
      <4>7. st' = [st EXCEPT ![s] = y] /\ (outrun => outrun') /\ Established(s)
        BY <4>1
      <4>. QED  BY <1>6, <4>3, <4>4, <4>5, <4>6, <4>7
    <3>2. CASE ~BetweenBatches(st[s])
      BY <1>2, <2>6, <3>2 DEF RemoteClosed
    <3>. QED  BY <3>1, <3>2
  <2>. QED  BY <1>7, <2>1, <2>2, <2>3, <2>4, <2>5, <2>6
<1>8. ASSUME NEW s \in Sides, ReceiveMisplaced(s) \/ Finish(s) \/ HangUp(s) \/ Break(s) PROVE WaitInv'
  <2>1. PICK how \in {"ok", "failed"}, certain \in BOOLEAN : Closes(s, how, certain)
    BY <1>8 DEF ReceiveMisplaced, Finish, HangUp, Break, Fails
  <2>. QED  BY <1>2, <2>1
<1>. QED  BY <1>1, <1>5, <1>7, <1>8, HandshakeWaits DEF Next, ReceiverStep

\* _send_files waits at the end of a batch, and _receive for a frame; each
\* side's check_done lets the batch end by what it has seen itself.  Without a
\* fault the two sides of a session are never both waiting, at any point of the
\* handshake or of the transfer: no deadlock is left to the time-out.
THEOREM NeverBothWait == Spec => [](~faulty => ~\A s \in Sides : Waits(s))
<1>1. Init => WaitInv
  <2>. SUFFICES ASSUME Init PROVE WaitInv
    OBVIOUS
  <2>1. \A s \in Sides : st[s].phase = "start"
    BY DEF Init, Fresh
  <2>2. "caller" \in Sides /\ \A s \in Sides : Other(s) \in Sides
    BY TwoSides DEF Sides
  <2>. QED  BY <2>1, <2>2 DEF WaitInv, Awake, HandInv
<1>2. SessionInv /\ StepInv /\ EarlyInv /\ WaitInv => (~faulty => ~\A s \in Sides : Waits(s))
  <2>. SUFFICES ASSUME SessionInv, StepInv, EarlyInv, WaitInv, ~faulty, \A s \in Sides : Waits(s) PROVE FALSE
    OBVIOUS
  <2>0. /\ "caller" \in Sides /\ "answerer" \in Sides /\ Other("caller") = "answerer"
        /\ \A s \in Sides : Other(s) \in Sides /\ Other(Other(s)) = s
        /\ \A s \in Sides : st[s] \in SideRec /\ SideInv(s)
    BY TwoSides DEF Sides, Other, SessionInv, SessionType, FilesInv
  <2>1. \A s \in Sides : chan[s] = <<>> /\ Runs(s) /\ ~st[s].done
    BY <2>0 DEF Waits, SideInv, Established
  <2>2. Smooth /\ BothRun /\ NoneFailed
    BY <2>0, <2>1 DEF Smooth, BothRun, StepInv, EndInv, EarlyInv, Level, NoneFailed, Runs
  <2>3. HandInv /\ HelloInv /\ \A s \in Sides : BatchInv(s) /\ Heard(s) /\ AnswerInv(s)
    BY <2>2 DEF WaitInv, StepInv
  <2>4. \A s \in Sides : st[s].phase = "wait"
    <3>1. \A s \in Sides : st[s].phase \in {"address", "auth", "wait"}
      BY DEF Waits
    <3>2. \A s \in Sides : st[s].phase # "address"
      BY <2>0, <2>1, <2>3, <3>1, HasEmpty DEF HandInv, Greeting
    <3>3. st["caller"].phase # "auth"
      BY <2>0, <2>1, <2>3, HasEmpty DEF HandInv
    <3>4. st["answerer"].phase # "auth"
      BY <2>0, <2>3, <3>1, <3>2, <3>3 DEF HelloInv, Established
    <3>. QED  BY <3>1, <3>2, <3>3, <3>4 DEF Sides
  <2>5. \A s \in Sides : st[s].eobSent /\ st[s].owed = NothingOwed
    BY <2>1, <2>4 DEF Waits, WaitInv, Awake
  \* Of two sides that wait, one is in no later batch than the other.
  <2>6. PICK s \in Sides : st[s].batch <= st[Other(s)].batch
    BY <2>0, SideParts
  <2>7. st[s].batch \in Nat /\ st[Other(s)].batch \in Nat /\ st[s].batch >= 1 /\ st[s].toSend = {}
    BY <2>0, <2>3, <2>5, SideParts DEF BatchInv, Steady
  <2>8. \A k \in Sides : st[k].current = NoFile /\ st[k].rxEnded = 1 .. st[Other(k)].batch
    <3>. SUFFICES ASSUME NEW k \in Sides PROVE st[k].current = NoFile /\ st[k].rxEnded = 1 .. st[Other(k)].batch
      OBVIOUS
    <3>1. PICK c, n : Hears(k, c, n)
      BY <2>3 DEF Heard
    <3>2. st[k].current = Announcing(st[Other(k)]) /\ n[0] = EndsSent(st[Other(k)])
      BY <2>1, <3>1, Distance
    <3>3. st[k].rxEnded = 1 .. n[0]
      BY <3>1 DEF Hears
    <3>. QED  BY <2>0, <2>4, <2>5, <3>2, <3>3 DEF Announcing, EndsSent
  <2>9. st[s].awaiting = {}
    <3>1. \A f \in Files : f # NoFile /\ NothingOwed \notin {FileMsg("GOT", f), FileMsg("SKIP", f)}
      BY FrameParts, BinkpAssumption DEF NothingOwed, BinkpAssumption
    <3>2. \A f \in Files : ~Going(s, f) /\ ~Owing(s, f) /\ ~Coming(s, f)
      BY <2>0, <2>1, <2>5, <2>8, <3>1, HasEmpty DEF Going, Owing, Coming
    <3>3. st[s].awaiting \subseteq Files
      BY <2>0, SideParts
    <3>. QED  BY <2>3, <3>2, <3>3 DEF AnswerInv
  <2>10. st[s].batch \in st[s].rxEnded
    BY <2>6, <2>7, <2>8
  <2>11. BatchOver(st[s])
    BY <2>5, <2>7, <2>8, <2>9, <2>10 DEF BatchOver
  <2>. QED  BY <2>1, <2>3, <2>5, <2>11 DEF BatchInv, Checked
<1>3. SessionInv /\ SessionInv' /\ StepInv /\ WaitInv /\ [Next]_vars => WaitInv'
  BY WaitStep
<1>. QED  BY <1>1, <1>2, <1>3, AlwaysEarly, PTL DEF Spec

-----------------------------------------------------------------------------
(* The batches of a session, whatever goes wrong, are no more than           *)
(* MAX_BATCHES, and one for a remote that runs ahead.                        *)

Ends(m) == IF m.t = "EOB" THEN 1 ELSE 0

\* q holds at most hi - lo M_EOB frames: n[i] - lo is no less than those up to
\* the i-th.
Counts(q, n, lo, hi) ==
    /\ n \in [0 .. Len(q) -> Nat]
    /\ n[0] = lo
    /\ \A i \in 1 .. Len(q) : n[i - 1] + Ends(q[i]) <= n[i]
    /\ \A i \in 0 .. Len(q) : n[i] <= hi

Apart(q, lo, hi) == \E n : Counts(q, n, lo, hi)

LEMMA ApartAtAll ==
    ASSUME NEW lo \in Nat, NEW hi \in Nat, lo <= hi
    PROVE  Apart(<<>>, lo, hi)
<1>. DEFINE n == [i \in 0 .. 0 |-> lo]
<1>1. Len(<<>>) = 0 /\ 0 .. 0 = {0} /\ 1 .. 0 = {}
  OBVIOUS
<1>2. Counts(<<>>, n, lo, hi)
  BY <1>1 DEF Counts
<1>. QED  BY <1>2 DEF Apart

LEMMA ApartNow ==
    ASSUME NEW q \in Seq(Frame), NEW lo \in Nat, NEW hi \in Nat, Apart(q, lo, hi)
    PROVE  lo <= hi
BY DEF Apart, Counts

LEMMA ApartMore ==
    ASSUME NEW q \in Seq(Frame), NEW m \in Frame, NEW lo \in Nat, NEW hi \in Nat, NEW top \in Nat,
           Apart(q, lo, hi), hi + Ends(m) <= top
    PROVE  Apart(Append(q, m), lo, top)
<1>. DEFINE longer == Append(q, m)
            L == Len(q)
<1>1. PICK n : Counts(q, n, lo, hi)
  BY DEF Apart
<1>2. /\ L \in Nat /\ Len(longer) = L + 1 /\ Ends(m) \in {0, 1}
      /\ \A i \in 1 .. L : longer[i] = q[i]
      /\ longer[L + 1] = m
  BY DEF Ends
<1>3. /\ n \in [0 .. L -> Nat] /\ n[0] = lo
      /\ \A i \in 1 .. L : n[i - 1] + Ends(q[i]) <= n[i]
      /\ \A i \in 0 .. L : n[i] <= hi /\ n[i] \in Nat
  BY <1>1 DEF Counts
<1>. HIDE DEF longer, L
<1>. DEFINE n2 == [i \in 0 .. L + 1 |-> IF i = L + 1 THEN top ELSE n[i]]
<1>4. /\ \A i \in 0 .. L : n2[i] = n[i]
      /\ n2[L + 1] = top /\ 0 \in 0 .. L /\ L \in 0 .. L
      /\ n2 \in [0 .. L + 1 -> Nat]
  BY <1>2, <1>3
<1>. HIDE DEF n2
<1>5. ASSUME NEW i \in 1 .. L + 1 PROVE n2[i - 1] + Ends(longer[i]) <= n2[i]
  <2>1. CASE i = L + 1
    <3>1. i - 1 = L /\ n[L] <= hi /\ n[L] \in Nat
      BY <1>2, <1>3, <1>4, <2>1
    <3>. QED  BY <1>2, <1>4, <2>1, <3>1
  <2>2. CASE i # L + 1
    <3>1. i \in 1 .. L /\ i - 1 \in 0 .. L /\ i \in 0 .. L
      BY <1>2, <2>2
    <3>. QED  BY <1>2, <1>3, <1>4, <3>1
  <2>. QED  BY <2>1, <2>2
<1>6. ASSUME NEW i \in 0 .. L + 1 PROVE n2[i] <= top
  <2>1. CASE i = L + 1
    BY <1>4, <2>1
  <2>2. CASE i # L + 1
    <3>1. i \in 0 .. L
      BY <1>2, <2>2
    <3>2. n[i] <= hi /\ n[i] \in Nat
      BY <1>3, <3>1
    <3>. QED  BY <1>2, <1>4, <3>1, <3>2
  <2>. QED  BY <2>1, <2>2
<1>7. Counts(longer, n2, lo, top)
  BY <1>2, <1>3, <1>4, <1>5, <1>6 DEF Counts
<1>. QED  BY <1>7 DEF Apart, longer

LEMMA ApartLess ==
    ASSUME NEW q \in Seq(Frame), q # <<>>, NEW lo \in Nat, NEW hi \in Nat, Apart(q, lo, hi)
    PROVE  \E low \in Nat : lo + Ends(Head(q)) <= low /\ Apart(Tail(q), low, hi)
<1>. DEFINE rest == Tail(q)
            L == Len(q)
<1>1. PICK n : Counts(q, n, lo, hi)
  BY DEF Apart
<1>2. /\ L \in Nat \ {0} /\ Len(rest) = L - 1 /\ Head(q) = q[1]
      /\ \A i \in 1 .. L - 1 : rest[i] = q[i + 1]
  OBVIOUS
<1>3. /\ n \in [0 .. L -> Nat] /\ n[0] = lo
      /\ \A i \in 1 .. L : n[i - 1] + Ends(q[i]) <= n[i]
      /\ \A i \in 0 .. L : n[i] <= hi /\ n[i] \in Nat
  BY <1>1 DEF Counts
<1>. HIDE DEF rest, L
<1>. DEFINE n2 == [i \in 0 .. L - 1 |-> n[i + 1]]
<1>4. \A i \in 0 .. L - 1 : i + 1 \in 0 .. L /\ i + 1 \in 1 .. L
  BY <1>2
<1>5. /\ \A i \in 0 .. L - 1 : n2[i] = n[i + 1] /\ n2[i] <= hi
      /\ n2 \in [0 .. L - 1 -> Nat] /\ 0 \in 0 .. L - 1 /\ L - 1 \in 0 .. L - 1
  BY <1>2, <1>3, <1>4
<1>. HIDE DEF n2
<1>6. ASSUME NEW i \in 1 .. L - 1 PROVE n2[i - 1] + Ends(rest[i]) <= n2[i]
  <2>1. /\ i \in 0 .. L - 1 /\ i - 1 \in 0 .. L - 1 /\ (i - 1) + 1 = i /\ i + 1 \in 1 .. L
        /\ (i + 1) - 1 = i
    BY <1>2
  <2>2. n[i] + Ends(q[i + 1]) <= n[i + 1]
    BY <1>3, <2>1
  <2>. QED  BY <1>2, <1>5, <2>1, <2>2
<1>7. n2[0] = n[1] /\ n[1] \in Nat /\ lo + Ends(q[1]) <= n[1]
  <2>1. 0 + 1 = 1 /\ 1 \in 1 .. L /\ 1 \in 0 .. L /\ 1 - 1 = 0
    BY <1>2
  <2>. QED  BY <1>3, <1>5, <2>1
<1>8. Counts(rest, n2, n[1], hi)
  BY <1>2, <1>5, <1>6, <1>7 DEF Counts
<1>. QED  BY <1>2, <1>7, <1>8 DEF Apart, rest

LEMMA ApartCut ==
    ASSUME NEW q \in Seq(Frame), NEW p \in Prefixes(q), NEW lo \in Nat, NEW hi \in Nat, Apart(q, lo, hi)
    PROVE  Apart(p, lo, hi)
<1>1. PICK n : Counts(q, n, lo, hi)
  BY DEF Apart
<1>2. PICK k \in 0 .. Len(q) : p = SubSeq(q, 1, k)
  BY DEF Prefixes
<1>3. Len(q) \in Nat /\ Len(p) = k /\ \A i \in 1 .. k : p[i] = q[i]
  BY <1>2
<1>4. \A i \in 0 .. k : i \in 0 .. Len(q)
  BY <1>3
<1>5. \A i \in 1 .. k : i \in 1 .. Len(q) /\ i \in 0 .. k /\ i - 1 \in 0 .. k
  BY <1>3
<1>. DEFINE n2 == [i \in 0 .. k |-> n[i]]
<1>6. /\ n \in [0 .. Len(q) -> Nat] /\ n[0] = lo
      /\ \A i \in 1 .. Len(q) : n[i - 1] + Ends(q[i]) <= n[i]
      /\ \A i \in 0 .. Len(q) : n[i] <= hi
  BY <1>1 DEF Counts
<1>7. /\ n2 \in [0 .. k -> Nat] /\ 0 \in 0 .. k
      /\ \A i \in 0 .. k : n2[i] = n[i]
  BY <1>3, <1>4, <1>6
<1>. HIDE DEF n2
<1>8. Counts(p, n2, lo, hi)
  BY <1>3, <1>4, <1>5, <1>6, <1>7 DEF Counts
<1>. QED  BY <1>8 DEF Apart

LEMMA ApartFurther ==
    ASSUME NEW q \in Seq(Frame), NEW lo \in Nat, NEW hi \in Nat, NEW top \in Nat,
           Apart(q, lo, hi), hi <= top
    PROVE  Apart(q, lo, top)
<1>1. PICK n : Counts(q, n, lo, hi)
  BY DEF Apart
<1>2. /\ n \in [0 .. Len(q) -> Nat] /\ n[0] = lo
      /\ \A i \in 1 .. Len(q) : n[i - 1] + Ends(q[i]) <= n[i]
      /\ \A i \in 0 .. Len(q) : n[i] <= hi /\ n[i] \in Nat
  BY <1>1 DEF Counts
<1>3. \A i \in 0 .. Len(q) : n[i] <= top
  BY <1>2
<1>4. Counts(q, n, lo, top)
  BY <1>2, <1>3 DEF Counts
<1>. QED  BY <1>4 DEF Apart

\* What s has read ends at most lo batches of the other, and its rxBatch is
\* among them or the next.
Within(r, lo) == r.rxEnded \subseteq 1 .. lo /\ r.rxBatch \in 1 .. lo + 1

\* A sender's place, whatever has happened: it ends a batch once, and its
\* number is at most MaxBatches.
Place(r) ==
    /\ r.batch \in 1 .. MaxBatches /\ r.batches <= MaxBatches
    /\ r.moved \subseteq Batches
    /\ r.eobSent => /\ r.phase \in {"wait", "stop"}
                    /\ r.done \/ (r.phase = "wait" /\ ~r.wake)
    /\ r.wake => r.done \/ r.phase = "wait"

Limited(s) ==
    /\ Place(st[s])
    /\ \E lo \in Nat : Within(st[s], lo) /\ Apart(chan[s], lo, EndsSent(st[Other(s)]))

LimitInv == \A s \in Sides : Limited(s)

\* What a step of s may do to the channel of the other side, and to its own
Writes(s, r) ==
    LET o == Other(s) IN
    \/ /\ chan'[o] = chan[o] \/ chan'[o] \in Prefixes(chan[o])
       /\ EndsSent(st[s]) <= EndsSent(r)
    \/ \E m \in Frame : /\ chan'[o] = Append(chan[o], m)
                        /\ EndsSent(st[s]) + Ends(m) <= EndsSent(r)

ReadsOn(s, r) ==
    \/ /\ chan'[s] = chan[s] \/ chan'[s] = <<>>
       /\ r.rxEnded = st[s].rxEnded /\ r.rxBatch = st[s].rxBatch
    \/ /\ chan[s] # <<>> /\ chan'[s] = Tail(chan[s])
       /\ \A lo, low \in Nat :
             Within(st[s], lo) /\ lo + Ends(Head(chan[s])) <= low => Within(r, low)

LEMMA Limiting ==
    ASSUME SessionInv, LimitInv, NEW s \in Sides, NEW r \in SideRec, st' = [st EXCEPT ![s] = r],
           Place(r), Writes(s, r), ReadsOn(s, r)
    PROVE  LimitInv'
<1>. DEFINE o == Other(s)
<1>0. /\ o \in Sides /\ o # s /\ Other(o) = s /\ \A k \in Sides : k = s \/ k = o
      /\ st[s] \in SideRec /\ st[o] \in SideRec /\ chan[s] \in Seq(Frame) /\ chan[o] \in Seq(Frame)
  BY TwoSides DEF SessionInv, SessionType
<1>1. st'[s] = r /\ st'[o] = st[o]
  BY <1>0 DEF SessionInv, SessionType
<1>2. /\ EndsSent(st[s]) \in Nat /\ EndsSent(r) \in Nat /\ EndsSent(st[o]) \in Nat
  <2>1. \A x \in SideRec : Place(x) => EndsSent(x) \in Nat
    BY SideParts DEF Place
  <2>. QED  BY <1>0, <2>1 DEF LimitInv, Limited
<1>3. Limited(o)'
  <2>1. PICK lo \in Nat : Within(st[o], lo) /\ Apart(chan[o], lo, EndsSent(st[s]))
    BY <1>0 DEF LimitInv, Limited
  <2>2. Apart(chan'[o], lo, EndsSent(r))
    <3>1. CASE chan'[o] = chan[o] /\ EndsSent(st[s]) <= EndsSent(r)
      BY <1>0, <1>2, <2>1, <3>1, ApartFurther
    <3>2. CASE chan'[o] \in Prefixes(chan[o]) /\ EndsSent(st[s]) <= EndsSent(r)
      <4>1. Apart(chan'[o], lo, EndsSent(st[s])) /\ chan'[o] \in Seq(Frame)
        BY <1>0, <1>2, <2>1, <3>2, ApartCut, HasPrefix
      <4>. QED  BY <1>2, <3>2, <4>1, ApartFurther
    <3>3. CASE \E m \in Frame : /\ chan'[o] = Append(chan[o], m)
                                /\ EndsSent(st[s]) + Ends(m) <= EndsSent(r)
      BY <1>0, <1>2, <2>1, <3>3, ApartMore
    <3>. QED  BY <3>1, <3>2, <3>3 DEF Writes
  <2>. QED  BY <1>0, <1>1, <2>1, <2>2 DEF LimitInv, Limited
<1>4. Limited(s)'
  <2>1. PICK lo \in Nat : Within(st[s], lo) /\ Apart(chan[s], lo, EndsSent(st[o]))
    BY DEF LimitInv, Limited
  <2>2. \E low \in Nat : Within(r, low) /\ Apart(chan'[s], low, EndsSent(st[o]))
    <3>1. CASE /\ chan'[s] = chan[s] \/ chan'[s] = <<>>
               /\ r.rxEnded = st[s].rxEnded /\ r.rxBatch = st[s].rxBatch
      <4>1. lo <= EndsSent(st[o])
        BY <1>0, <1>2, <2>1, ApartNow
      <4>2. Within(r, lo)
        BY <2>1, <3>1 DEF Within
      <4>3. Apart(<<>>, lo, EndsSent(st[o]))
        BY <1>2, <4>1, ApartAtAll
      <4>. QED  BY <2>1, <3>1, <4>2, <4>3
    <3>2. CASE /\ chan[s] # <<>> /\ chan'[s] = Tail(chan[s])
               /\ \A i, low \in Nat :
                     Within(st[s], i) /\ i + Ends(Head(chan[s])) <= low => Within(r, low)
      <4>1. PICK low \in Nat : lo + Ends(Head(chan[s])) <= low /\ Apart(Tail(chan[s]), low, EndsSent(st[o]))
        BY <1>0, <1>2, <2>1, <3>2, ApartLess
      <4>. QED  BY <2>1, <3>2, <4>1
    <3>. QED  BY <3>1, <3>2 DEF ReadsOn
  <2>. QED  BY <1>0, <1>1, <2>2 DEF LimitInv, Limited
<1>. QED  BY <1>0, <1>3, <1>4 DEF LimitInv

LEMMA CheckLimits ==
    ASSUME NEW r \in SideRec, Place(r)
    PROVE  LET x == CheckDone(r) IN
           /\ x \in SideRec /\ Place(x) /\ EndsSent(x) = EndsSent(r)
           /\ x.rxEnded = r.rxEnded /\ x.rxBatch = r.rxBatch
<1>. DEFINE x == CheckDone(r)
<1>0. /\ x \in SideRec /\ x.phase = r.phase /\ r.batch \in Nat /\ MaxBatches \in Nat /\ r.batches \in Nat
  BY CheckingDone, SideParts, BinkpAssumption DEF BinkpAssumption
<1>1. CASE x = r
  BY <1>0, <1>1
<1>2. CASE ~r.done /\ BatchOver(r)
  <2>1. r.eobSent /\ r.phase = "wait" /\ ~r.wake
    BY <1>2 DEF BatchOver, Place
  <2>2. \/ x = [r EXCEPT !.batches = r.batch, !.done = TRUE, !.wake = TRUE]
        \/ x = [r EXCEPT !.batches = r.batch, !.failed = TRUE, !.done = TRUE, !.wake = TRUE]
        \/ /\ x = [r EXCEPT !.batches = r.batch, !.batch = r.batch + 1, !.eobSent = FALSE, !.wake = TRUE]
           /\ ~(r.batch >= MaxBatches)
    BY <1>2 DEF CheckDone
  <2>3. /\ x.batches = r.batch /\ x.moved = r.moved /\ x.rxEnded = r.rxEnded /\ x.rxBatch = r.rxBatch
        /\ \/ x.batch = r.batch /\ x.done /\ x.eobSent
           \/ x.batch = r.batch + 1 /\ ~x.eobSent /\ ~(r.batch >= MaxBatches)
    BY <2>1, <2>2 DEF SideRec
  <2>. HIDE DEF x
  <2>4. EndsSent(x) = EndsSent(r)
    BY <1>0, <2>1, <2>3 DEF EndsSent
  <2>5. Place(x)
    <3>1. r.batch \in 1 .. MaxBatches /\ r.moved \subseteq Batches
      BY DEF Place
    <3>2. x.batch \in 1 .. MaxBatches /\ x.batches <= MaxBatches
      BY <1>0, <2>3, <3>1
    <3>3. x.eobSent => x.done
      BY <2>3
    <3>4. x.phase = "wait" /\ x.moved \subseteq Batches
      BY <1>0, <2>1, <2>3, <3>1
    <3>. QED  BY <3>2, <3>3, <3>4 DEF Place
  <2>. QED  BY <1>0, <2>3, <2>4, <2>5 DEF x
<1>. QED  BY <1>1, <1>2 DEF CheckDone

LEMMA LimitStep == SessionInv /\ SessionInv' /\ LimitInv /\ [Next]_vars => LimitInv'
<1>. SUFFICES ASSUME SessionInv, SessionInv', LimitInv, [Next]_vars PROVE LimitInv'
  OBVIOUS
<1>0. /\ st \in [Sides -> SideRec] /\ chan \in [Sides -> Seq(Frame)] /\ MaxBatches \in Nat \ {0}
      /\ \A s \in Sides : st[s] \in SideRec /\ Place(st[s]) /\ chan[s] \in Seq(Frame)
      /\ \A s \in Sides : Other(s) \in Sides /\ Other(s) # s
      /\ \A s \in Sides : st[s].batch \in Nat /\ st[s].done \in BOOLEAN /\ EndsSent(st[s]) \in Nat
      /\ \A s \in Sides : SideInv(s)
  <2>1. \A r \in SideRec : Place(r) => EndsSent(r) \in Nat /\ r.batch \in Nat /\ r.done \in BOOLEAN
    BY SideParts DEF Place
  <2>. QED  BY <2>1, TwoSides, BinkpAssumption
            DEF SessionInv, SessionType, FilesInv, LimitInv, Limited, BinkpAssumption
<1>1. ASSUME NEW s \in Sides, NEW r, st' = [st EXCEPT ![s] = r] PROVE r \in SideRec
  <2>1. st'[s] = r /\ st'[s] \in SideRec
    BY <1>0, <1>1 DEF SessionInv, SessionType
  <2>. QED  BY <2>1
\* A side that ends its session
<1>2. ASSUME NEW s \in Sides, NEW how, NEW certain, Closes(s, how, certain) PROVE LimitInv'
  <2>1. /\ chan'[s] = <<>> /\ chan'[Other(s)] \in Prefixes(chan[Other(s)])
        /\ st' = [st EXCEPT ![s] = st[s]]
    BY <1>0, <1>2 DEF Closes
  <2>2. Writes(s, st[s]) /\ ReadsOn(s, st[s])
    BY <1>0, <2>1 DEF Writes, ReadsOn
  <2>. QED  BY <1>0, <2>1, <2>2, Limiting
<1>3. CASE UNCHANGED vars
  BY <1>3 DEF vars, LimitInv, Limited
\* A side that goes on to r and writes m
<1>4. ASSUME NEW s \in Sides, NEW r, st' = [st EXCEPT ![s] = r], NEW m \in Frame, Send(s, m),
             Place(r), EndsSent(st[s]) + Ends(m) <= EndsSent(r),
             r.rxEnded = st[s].rxEnded, r.rxBatch = st[s].rxBatch
      PROVE  LimitInv'
  <2>1. /\ r \in SideRec /\ chan'[s] = chan[s]
        /\ chan'[Other(s)] = Append(chan[Other(s)], m) \/ chan'[Other(s)] = chan[Other(s)]
    BY <1>0, <1>1, <1>4, Written
  <2>2. EndsSent(st[s]) <= EndsSent(r)
    <3>1. Ends(m) \in {0, 1} /\ EndsSent(r) \in Int
      BY <1>4, <2>1, SideParts DEF Ends
    <3>. QED  BY <1>0, <1>4, <3>1
  <2>3. Writes(s, r) /\ ReadsOn(s, r)
    BY <1>4, <2>1, <2>2 DEF Writes, ReadsOn
  <2>. QED  BY <1>4, <2>1, <2>3, Limiting
\* A side that goes on to r and writes nothing
<1>5. ASSUME NEW s \in Sides, NEW r, st' = [st EXCEPT ![s] = r], UNCHANGED chan,
             Place(r), EndsSent(r) = EndsSent(st[s]),
             r.rxEnded = st[s].rxEnded, r.rxBatch = st[s].rxBatch
      PROVE  LimitInv'
  <2>1. r \in SideRec
    BY <1>1, <1>5
  <2>2. Writes(s, r) /\ ReadsOn(s, r)
    BY <1>0, <1>5 DEF Writes, ReadsOn
  <2>. QED  BY <1>5, <2>1, <2>2, Limiting
\* A side that reads a frame and goes on to r
<1>6. ASSUME NEW s \in Sides, NEW r, st' = [st EXCEPT ![s] = r], chan' = Consumed(s), chan[s] # <<>>,
             Place(r), EndsSent(r) = EndsSent(st[s]),
             \A lo, low \in Nat : Within(st[s], lo) /\ lo + Ends(Head(chan[s])) <= low => Within(r, low)
      PROVE  LimitInv'
  <2>1. r \in SideRec
    BY <1>1, <1>6
  <2>2. chan'[s] = Tail(chan[s]) /\ chan'[Other(s)] = chan[Other(s)]
    BY <1>0, <1>6, Consuming
  <2>3. Writes(s, r) /\ ReadsOn(s, r)
    BY <1>0, <1>6, <2>2 DEF Writes, ReadsOn
  <2>. QED  BY <1>6, <2>1, <2>3, Limiting
\* What a side has read stays within what it has read and more.
<1>7. ASSUME NEW s \in Sides, NEW r, r.rxEnded = st[s].rxEnded, r.rxBatch = st[s].rxBatch
      PROVE  \A lo, low \in Nat :
                Within(st[s], lo) /\ lo + Ends(Head(chan[s])) <= low => Within(r, low)
  <2>. SUFFICES ASSUME NEW lo \in Nat, NEW low \in Nat, Within(st[s], lo), lo + Ends(Head(chan[s])) <= low
                PROVE  Within(r, low)
    OBVIOUS
  <2>1. Ends(Head(chan[s])) \in {0, 1}
    BY DEF Ends
  <2>2. lo <= low
    BY <2>1
  <2>. QED  BY <1>7, <2>2 DEF Within
\* The handshake
<1>8. ASSUME NEW s \in Sides, HandshakeStep(s) PROVE LimitInv'
  <2>1. CASE Refused(s)
    BY <1>2, <2>1 DEF Refused, Fails
  <2>2. ASSUME ~Established(s) PROVE ~st[s].eobSent /\ ~st[s].wake
    BY <1>0, <2>2 DEF Place, Established, SideInv
  <2>3. ASSUME NEW r, st' = [st EXCEPT ![s] = r], ~Established(s),
               r.eobSent = st[s].eobSent, r.wake = st[s].wake, r.batch = st[s].batch,
               r.batches = st[s].batches, r.moved = st[s].moved,
               r.rxEnded = st[s].rxEnded, r.rxBatch = st[s].rxBatch,
               NEW m \in Frame, m.t # "EOB",
               \/ Send(s, m)
               \/ chan[s] # <<>> /\ (Reply(s, m) \/ chan' = Consumed(s))
        PROVE  LimitInv'
    <3>1. Place(r) /\ EndsSent(r) = EndsSent(st[s]) /\ Ends(m) = 0
      BY <1>0, <2>2, <2>3 DEF Place, EndsSent, Ends
    <3>2. CASE Send(s, m)
      <4>1. EndsSent(st[s]) + Ends(m) <= EndsSent(r)
        BY <1>0, <3>1
      <4>. QED  BY <1>4, <2>3, <3>1, <3>2, <4>1
    <3>3. CASE chan[s] # <<>> /\ (Reply(s, m) \/ chan' = Consumed(s))
      <4>1. /\ chan'[s] = Tail(chan[s])
            /\ chan'[Other(s)] = chan[Other(s)] \/ chan'[Other(s)] = Append(chan[Other(s)], m)
        BY <1>0, <3>3 DEF Reply, Consumed
      <4>2. EndsSent(st[s]) <= EndsSent(r) /\ EndsSent(st[s]) + Ends(m) <= EndsSent(r)
        BY <1>0, <3>1
      <4>3. Writes(s, r)
        BY <4>1, <4>2 DEF Writes
      <4>4. ReadsOn(s, r)
        BY <1>7, <2>3, <3>3, <4>1 DEF ReadsOn
      <4>. QED  BY <1>1, <2>3, <3>1, <4>3, <4>4, Limiting
    <3>. QED  BY <2>3, <3>2, <3>3
  <2>4. /\ Msg("ADR") \in Frame /\ Msg("ERR") \in Frame
        /\ FileMsg("OK", "secure") \in Frame /\ FileMsg("OK", "non-secure") \in Frame
        /\ Msg("ADR").t = "ADR" /\ Msg("ERR").t = "ERR"
        /\ FileMsg("OK", "secure").t = "OK" /\ FileMsg("OK", "non-secure").t = "OK"
    BY DEF Msg, FileMsg, Frame
  <2>5. FileMsg("PWD", login.password) \in Frame /\ FileMsg("PWD", login.password).t = "PWD"
    BY BinkpAssumption DEF SessionInv, SessionType, BinkpAssumption, FileMsg, Frame, NoFile
  <2>6. CASE SayHello(s)
    <3>. DEFINE r == [st[s] EXCEPT !.phase = "address"]
    <3>1. st' = [st EXCEPT ![s] = r] /\ ~Established(s) /\ Send(s, Msg("ADR"))
      BY <2>6 DEF SayHello, Becomes, Established
    <3>2. /\ r.eobSent = st[s].eobSent /\ r.wake = st[s].wake /\ r.batch = st[s].batch
          /\ r.batches = st[s].batches /\ r.moved = st[s].moved
          /\ r.rxEnded = st[s].rxEnded /\ r.rxBatch = st[s].rxBatch
      BY <1>0 DEF SideRec
    <3>. HIDE DEF r
    <3>. QED  BY <2>3, <2>4, <3>1, <3>2
  <2>7. CASE ReadAddress(s)
    <3>. DEFINE r == [st[s] EXCEPT !.phase = "auth"]
    <3>1. /\ st' = [st EXCEPT ![s] = r] /\ ~Established(s) /\ chan[s] # <<>>
          /\ Reply(s, FileMsg("PWD", login.password)) \/ chan' = Consumed(s)
      BY <2>7 DEF ReadAddress, Becomes, Established, Next1
    <3>2. /\ r.eobSent = st[s].eobSent /\ r.wake = st[s].wake /\ r.batch = st[s].batch
          /\ r.batches = st[s].batches /\ r.moved = st[s].moved
          /\ r.rxEnded = st[s].rxEnded /\ r.rxBatch = st[s].rxBatch
      BY <1>0 DEF SideRec
    <3>. HIDE DEF r
    <3>. QED  BY <2>3, <2>5, <3>1, <3>2
  <2>8. CASE CheckPassword /\ s = "answerer"
    <3>1. ~Established(s) /\ chan[s] # <<>>
      BY <2>8 DEF CheckPassword, Established, Next1
    <3>2. CASE UNCHANGED st /\ Reply(s, Msg("ERR"))
      <4>1. st' = [st EXCEPT ![s] = st[s]]
        BY <1>0, <3>2
      <4>. QED  BY <2>3, <2>4, <3>1, <3>2, <4>1
    <3>3. CASE /\ \E G \in SUBSET FilesOf[s] : Becomes(s, Begin([st[s] EXCEPT !.secure = login.expected], G))
               /\ \E w \in {"secure", "non-secure"} : Reply(s, FileMsg("OK", w))
      <4>1. PICK G \in SUBSET FilesOf[s] : Becomes(s, Begin([st[s] EXCEPT !.secure = login.expected], G))
        BY <3>3
      <4>. DEFINE r == Begin([st[s] EXCEPT !.secure = login.expected], G)
      <4>2. st' = [st EXCEPT ![s] = r]
        BY <4>1 DEF Becomes
      <4>3. /\ r.eobSent = st[s].eobSent /\ r.wake = st[s].wake /\ r.batch = st[s].batch
            /\ r.batches = st[s].batches /\ r.moved = st[s].moved
            /\ r.rxEnded = st[s].rxEnded /\ r.rxBatch = st[s].rxBatch
        BY <1>0 DEF SideRec, Begin
      <4>. HIDE DEF r
      <4>4. Reply(s, FileMsg("OK", "secure")) \/ Reply(s, FileMsg("OK", "non-secure"))
        BY <3>3
      <4>. QED  BY <2>3, <2>4, <3>1, <4>2, <4>3, <4>4
    <3>. QED  BY <2>8, <3>2, <3>3 DEF CheckPassword
  <2>9. CASE ReadOk /\ s = "caller"
    <3>1. ~Established(s) /\ chan[s] # <<>> /\ chan' = Consumed(s)
      BY <2>9 DEF ReadOk, Established, Next1
    <3>2. PICK G \in SUBSET FilesOf[s], secure \in BOOLEAN :
             Becomes(s, Begin([st[s] EXCEPT !.secure = secure], G))
      BY <2>9 DEF ReadOk
    <3>. DEFINE r == Begin([st[s] EXCEPT !.secure = secure], G)
    <3>3. st' = [st EXCEPT ![s] = r]
      BY <3>2 DEF Becomes
    <3>4. /\ r.eobSent = st[s].eobSent /\ r.wake = st[s].wake /\ r.batch = st[s].batch
          /\ r.batches = st[s].batches /\ r.moved = st[s].moved
          /\ r.rxEnded = st[s].rxEnded /\ r.rxBatch = st[s].rxBatch
      BY <1>0 DEF SideRec, Begin
    <3>. HIDE DEF r
    <3>. QED  BY <2>3, <2>4, <3>1, <3>3, <3>4
  <2>. QED  BY <1>8, <2>1, <2>6, <2>7, <2>8, <2>9 DEF HandshakeStep
\* The sender
<1>9. ASSUME NEW s \in Sides, SenderStep(s) \/ CutShort(s) PROVE LimitInv'
  <2>1. ASSUME st[s].phase \in {"files", "data", "hook"} PROVE ~st[s].eobSent
    BY <1>0, <2>1 DEF Place
  <2>2. ASSUME NEW f \in st[s].toSend, AnnounceFile(s, f) PROVE LimitInv'
    <3>. DEFINE r == [st[s] EXCEPT !.toSend = @ \ {f}, !.awaiting = @ \cup {f},
                        !.moved = @ \cup {st[s].batch},
                        !.sending = IF f \in EmptyFiles THEN NoFile ELSE f,
                        !.phase = IF f \in EmptyFiles THEN "files" ELSE "data"]
    <3>1. /\ st' = [st EXCEPT ![s] = r] /\ Send(s, FileMsg("FILE", f))
          /\ ~st[s].done /\ st[s].phase = "files"
      BY <2>2 DEF AnnounceFile, Becomes
    <3>2. /\ r.moved = st[s].moved \cup {st[s].batch} /\ r.batch = st[s].batch
          /\ r.batches = st[s].batches /\ r.eobSent = st[s].eobSent /\ r.wake = st[s].wake
          /\ r.rxEnded = st[s].rxEnded /\ r.rxBatch = st[s].rxBatch
      BY <1>0 DEF SideRec
    <3>3. FileMsg("FILE", f) \in Frame /\ Ends(FileMsg("FILE", f)) = 0
      BY <1>0, <2>2 DEF SideRec, FileMsg, Frame, Ends
    <3>. HIDE DEF r
    <3>4. ~st[s].eobSent /\ ~st[s].wake
      BY <1>0, <2>1, <3>1 DEF Place
    <3>5. st[s].batch \in Batches
      BY <1>0 DEF Place, Batches
    <3>6. Place(r) /\ EndsSent(st[s]) + 0 <= EndsSent(r)
      <4>1. EndsSent(r) = EndsSent(st[s])
        BY <3>2 DEF EndsSent
      <4>. QED  BY <1>0, <3>2, <3>4, <3>5, <4>1 DEF Place
    <3>. QED  BY <1>4, <3>1, <3>2, <3>3, <3>6
  <2>3. CASE SendData(s) \/ CutShort(s)
    <3>. DEFINE r == [st[s] EXCEPT !.sending = NoFile, !.phase = "files"]
    <3>1. /\ st' = [st EXCEPT ![s] = r] /\ ~st[s].done /\ st[s].phase = "data"
          /\ Send(s, FileMsg("DATA", st[s].sending)) \/ UNCHANGED chan
      BY <2>3 DEF SendData, CutShort, Becomes
    <3>2. /\ r.moved = st[s].moved /\ r.batch = st[s].batch
          /\ r.batches = st[s].batches /\ r.eobSent = st[s].eobSent /\ r.wake = st[s].wake
          /\ r.rxEnded = st[s].rxEnded /\ r.rxBatch = st[s].rxBatch
      BY <1>0 DEF SideRec
    <3>3. FileMsg("DATA", st[s].sending) \in Frame /\ Ends(FileMsg("DATA", st[s].sending)) = 0
      BY <1>0 DEF SideRec, FileMsg, Frame, Ends
    <3>. HIDE DEF r
    <3>4. ~st[s].eobSent /\ ~st[s].wake
      BY <1>0, <2>1, <3>1 DEF Place
    <3>5. Place(r) /\ EndsSent(r) = EndsSent(st[s]) /\ EndsSent(st[s]) + 0 <= EndsSent(r)
      <4>1. EndsSent(r) = EndsSent(st[s])
        BY <3>2 DEF EndsSent
      <4>. QED  BY <1>0, <3>2, <3>4, <4>1 DEF Place
    <3>6. CASE Send(s, FileMsg("DATA", st[s].sending))
      BY <1>4, <3>1, <3>2, <3>3, <3>5, <3>6
    <3>7. CASE UNCHANGED chan
      BY <1>5, <3>1, <3>2, <3>5, <3>7
    <3>. QED  BY <3>1, <3>6, <3>7
  <2>4. CASE SendEob(s)
    <3>. DEFINE x == [st[s] EXCEPT !.phase = "wait", !.eobSent = TRUE]
                r == CheckDone(x)
    <3>1. /\ st' = [st EXCEPT ![s] = r] /\ ~st[s].done /\ st[s].phase = "files" /\ Send(s, Msg("EOB"))
      BY <2>4 DEF SendEob, Becomes
    <3>2. /\ x.moved = st[s].moved /\ x.batch = st[s].batch /\ x.batches = st[s].batches
          /\ x.eobSent = TRUE /\ x.wake = st[s].wake /\ x.phase = "wait"
          /\ x.rxEnded = st[s].rxEnded /\ x.rxBatch = st[s].rxBatch /\ x \in SideRec
      <4>1. st[s] \in SideRec
        BY <1>0
      <4>. QED  BY <4>1 DEF SideRec, Phase
    <3>3. Msg("EOB") \in Frame /\ Ends(Msg("EOB")) = 1
      BY DEF Msg, Frame, Ends
    <3>. HIDE DEF x
    <3>4. ~st[s].eobSent /\ ~st[s].wake
      BY <1>0, <2>1, <3>1 DEF Place
    <3>5. Place(x) /\ EndsSent(x) = EndsSent(st[s]) + 1
      <4>1. EndsSent(x) = st[s].batch /\ EndsSent(st[s]) = st[s].batch - 1
        BY <3>2, <3>4 DEF EndsSent
      <4>. QED  BY <1>0, <3>2, <3>4, <4>1 DEF Place
    <3>6. /\ Place(r) /\ EndsSent(st[s]) + 1 <= EndsSent(r)
          /\ r.rxEnded = st[s].rxEnded /\ r.rxBatch = st[s].rxBatch
      BY <1>0, <3>2, <3>5, CheckLimits
    <3>. HIDE DEF r
    <3>. QED  BY <1>4, <3>1, <3>3, <3>6
  <2>5. CASE Wake(s)
    <3>. DEFINE r == [st[s] EXCEPT !.wake = FALSE, !.phase = IF st[s].done THEN "stop" ELSE "hook"]
    <3>1. st' = [st EXCEPT ![s] = r] /\ st[s].phase = "wait" /\ st[s].wake /\ UNCHANGED chan
      BY <2>5 DEF Wake, Becomes
    <3>2. /\ r.moved = st[s].moved /\ r.batch = st[s].batch /\ r.batches = st[s].batches
          /\ r.eobSent = st[s].eobSent /\ r.wake = FALSE /\ r.done = st[s].done
          /\ r.phase = (IF st[s].done THEN "stop" ELSE "hook")
          /\ r.rxEnded = st[s].rxEnded /\ r.rxBatch = st[s].rxBatch
      BY <1>0 DEF SideRec
    <3>. HIDE DEF r
    <3>3. st[s].eobSent => st[s].done
      BY <1>0, <3>1 DEF Place
    <3>4. Place(r) /\ EndsSent(r) = EndsSent(st[s])
      BY <1>0, <3>2, <3>3 DEF Place, EndsSent
    <3>. QED  BY <1>5, <3>1, <3>2, <3>4
  <2>6. CASE AskNextBatch(s)
    <3>1. PICK G \in SUBSET FilesOf[s] :
             Becomes(s, [st[s] EXCEPT !.phase = "files", !.files = @ \cup G,
                           !.toSend = @ \cup (G \ st[s].files)])
      BY <2>6 DEF AskNextBatch
    <3>. DEFINE r == [st[s] EXCEPT !.phase = "files", !.files = @ \cup G, !.toSend = @ \cup (G \ st[s].files)]
    <3>2. /\ st' = [st EXCEPT ![s] = r] /\ UNCHANGED chan /\ ~st[s].done /\ st[s].phase = "hook"
      BY <2>6, <3>1 DEF AskNextBatch, Becomes
    <3>3. /\ r.moved = st[s].moved /\ r.batch = st[s].batch /\ r.batches = st[s].batches
          /\ r.eobSent = st[s].eobSent /\ r.wake = st[s].wake
          /\ r.rxEnded = st[s].rxEnded /\ r.rxBatch = st[s].rxBatch
      BY <1>0 DEF SideRec
    <3>. HIDE DEF r
    <3>4. ~st[s].eobSent /\ ~st[s].wake
      BY <1>0, <2>1, <3>2 DEF Place
    <3>5. Place(r) /\ EndsSent(r) = EndsSent(st[s])
      BY <1>0, <3>3, <3>4 DEF Place, EndsSent
    <3>. QED  BY <1>5, <3>2, <3>3, <3>5
  <2>. QED  BY <1>9, <2>2, <2>3, <2>4, <2>5, <2>6 DEF SenderStep
\* The receiver
<1>10. ASSUME NEW s \in Sides, ReceiverStep(s) PROVE LimitInv'
  <2>1. CASE ReceiveMisplaced(s) \/ Finish(s)
    BY <1>2, <2>1 DEF ReceiveMisplaced, Finish, Fails
  <2>2. CASE RemoteClosed(s)
    <3>1. CASE Closes(s, "failed", FALSE)
      BY <1>2, <3>1
    <3>2. CASE Becomes(s, [st[s] EXCEPT !.hungUp = TRUE, !.done = TRUE, !.wake = TRUE]) /\ UNCHANGED chan
      <4>. DEFINE r == [st[s] EXCEPT !.hungUp = TRUE, !.done = TRUE, !.wake = TRUE]
      <4>1. st' = [st EXCEPT ![s] = r]
        BY <3>2 DEF Becomes
      <4>2. /\ r.moved = st[s].moved /\ r.batch = st[s].batch /\ r.batches = st[s].batches
            /\ r.eobSent = st[s].eobSent /\ r.done = TRUE /\ r.phase = st[s].phase
            /\ r.rxEnded = st[s].rxEnded /\ r.rxBatch = st[s].rxBatch
        BY <1>0 DEF SideRec
      <4>. HIDE DEF r
      <4>3. Place(r) /\ EndsSent(r) = EndsSent(st[s])
        BY <1>0, <4>2 DEF Place, EndsSent
      <4>. QED  BY <1>5, <3>2, <4>1, <4>2, <4>3
    <3>. QED  BY <2>2, <3>1, <3>2 DEF RemoteClosed
  \* A file is announced.
  <2>3. CASE ReceiveFile(s)
    <3>. DEFINE y == Announced(st[s])
                f == Head(chan[s]).f
    <3>1. /\ chan[s] # <<>> /\ Head(chan[s]).t = "FILE" /\ chan' = Consumed(s)
          /\ Finished(s, y, f) \/ st' = [st EXCEPT ![s] = [y EXCEPT !.current = f]]
      BY <2>3 DEF ReceiveFile, Takes, Next1, Becomes
    <3>2. f \in Files /\ Head(chan[s]) \in Frame
      <4>1. Head(chan[s]) \in Frame /\ Has(chan[s], Head(chan[s]))
        BY <1>0, <3>1, HasTail
      <4>2. Head(chan[s]) = FileMsg("FILE", f)
        BY <3>1, <4>1, FrameParts
      <4>3. \A w : Has(chan[s], FileMsg("FILE", w)) => w \in Files
        BY <1>0 DEF SideInv
      <4>. QED  BY <4>1, <4>2, <4>3
    <3>3. PICK b \in Nat : y = [st[s] EXCEPT !.rxBatch = b, !.moved = @ \cup {b}]
      BY <1>0, CountingBatches
    <3>4. /\ y \in SideRec /\ y.batch = st[s].batch /\ y.batches = st[s].batches
          /\ y.eobSent = st[s].eobSent /\ y.wake = st[s].wake /\ y.done = st[s].done
          /\ y.phase = st[s].phase /\ y.rxEnded = st[s].rxEnded /\ y.rxBatch = b
          /\ y.moved = st[s].moved \cup {b}
      <4>. HIDE DEF y
      <4>1. st[s] \in SideRec
        BY <1>0
      <4>2. y \in SideRec
        BY <3>3, <4>1, ZenonT(60) DEF SideRec
      <4>. QED  BY <3>3, <4>1, <4>2 DEF SideRec
    <3>5. b = IF multi /\ st[s].rxBatch \in st[s].rxEnded THEN st[s].rxBatch + 1 ELSE st[s].rxBatch
      <4>1. y.rxBatch = IF multi /\ st[s].rxBatch \in st[s].rxEnded THEN st[s].rxBatch + 1 ELSE st[s].rxBatch
        BY <1>0 DEF Announced, SideRec
      <4>. QED  BY <3>4, <4>1
    <3>. HIDE DEF y
    <3>6. \A lo, low \in Nat : Within(st[s], lo) /\ lo <= low => Within(y, low) /\ b \in 1 .. lo + 1
      <4>. SUFFICES ASSUME NEW lo \in Nat, NEW low \in Nat, Within(st[s], lo), lo <= low
                    PROVE  Within(y, low) /\ b \in 1 .. lo + 1
        OBVIOUS
      <4>1. b \in 1 .. lo + 1
        BY <3>5 DEF Within
      <4>. QED  BY <3>4, <4>1 DEF Within
    <3>7. b \in Batches
      <4>1. PICK lo \in Nat : Within(st[s], lo) /\ Apart(chan[s], lo, EndsSent(st[Other(s)]))
        BY DEF LimitInv, Limited
      <4>2. lo <= EndsSent(st[Other(s)]) /\ EndsSent(st[Other(s)]) <= MaxBatches
        BY <1>0, <4>1, ApartNow DEF EndsSent, Place
      <4>3. b \in 1 .. lo + 1
        BY <3>6, <4>1
      <4>. QED  BY <1>0, <4>2, <4>3 DEF Batches
    <3>8. PICK r : /\ st' = [st EXCEPT ![s] = r]
                   /\ r.moved = y.moved /\ r.batch = y.batch /\ r.batches = y.batches
                   /\ r.eobSent = y.eobSent /\ r.wake = y.wake /\ r.done = y.done /\ r.phase = y.phase
                   /\ r.rxEnded = y.rxEnded /\ r.rxBatch = y.rxBatch
      <4>1. CASE Finished(s, y, f)
        <5>1. st' = [st EXCEPT ![s] = st'[s]]
          BY <1>0, <3>4, <4>1, FinishedParts
        <5>2. /\ st'[s].moved = y.moved /\ st'[s].batch = y.batch /\ st'[s].batches = y.batches
              /\ st'[s].eobSent = y.eobSent /\ st'[s].wake = y.wake /\ st'[s].done = y.done
              /\ st'[s].phase = y.phase /\ st'[s].rxEnded = y.rxEnded /\ st'[s].rxBatch = y.rxBatch
          BY <1>0, <3>4, <4>1, FinishedParts
        <5>. QED  BY <5>1, <5>2
      <4>2. CASE st' = [st EXCEPT ![s] = [y EXCEPT !.current = f]]
        <5>. DEFINE x == [y EXCEPT !.current = f]
        <5>1. /\ x.moved = y.moved /\ x.batch = y.batch /\ x.batches = y.batches
              /\ x.eobSent = y.eobSent /\ x.wake = y.wake /\ x.done = y.done /\ x.phase = y.phase
              /\ x.rxEnded = y.rxEnded /\ x.rxBatch = y.rxBatch
          BY <3>4 DEF SideRec
        <5>. HIDE DEF x
        <5>2. st' = [st EXCEPT ![s] = x]
          BY <4>2 DEF x
        <5>. QED  BY <5>1, <5>2
      <4>. QED  BY <3>1, <4>1, <4>2
    <3>9. Place(r) /\ EndsSent(r) = EndsSent(st[s])
      BY <1>0, <3>4, <3>7, <3>8 DEF Place, EndsSent
    <3>10. \A lo, low \in Nat : Within(st[s], lo) /\ lo + Ends(Head(chan[s])) <= low => Within(r, low)
      <4>1. Ends(Head(chan[s])) = 0
        BY <3>1 DEF Ends
      <4>. QED  BY <3>6, <3>8, <4>1 DEF Within
    <3>. QED  BY <1>6, <3>1, <3>8, <3>9, <3>10
  <2>4. CASE ReceiveData(s)
    <3>1. /\ chan[s] # <<>> /\ chan' = Consumed(s) /\ Finished(s, st[s], st[s].current)
      BY <2>4 DEF ReceiveData, Takes, Next1
    <3>2. PICK r : /\ st' = [st EXCEPT ![s] = r]
                   /\ r.moved = st[s].moved /\ r.batch = st[s].batch /\ r.batches = st[s].batches
                   /\ r.eobSent = st[s].eobSent /\ r.wake = st[s].wake /\ r.done = st[s].done
                   /\ r.phase = st[s].phase /\ r.rxEnded = st[s].rxEnded /\ r.rxBatch = st[s].rxBatch
      BY <1>0, <3>1, FinishedParts
    <3>3. Place(r) /\ EndsSent(r) = EndsSent(st[s])
      BY <1>0, <3>2 DEF Place, EndsSent
    <3>. QED  BY <1>6, <1>7, <3>1, <3>2, <3>3
  \* An answer is sent or read.
  <2>5. ASSUME NEW x, x \in SideRec, x.moved = st[s].moved, x.batch = st[s].batch,
               x.batches = st[s].batches, x.eobSent = st[s].eobSent, x.wake = st[s].wake,
               x.done = st[s].done, x.phase = st[s].phase,
               x.rxEnded = st[s].rxEnded, x.rxBatch = st[s].rxBatch
        PROVE  /\ Place(CheckDone(x)) /\ EndsSent(CheckDone(x)) = EndsSent(st[s])
               /\ CheckDone(x).rxEnded = st[s].rxEnded /\ CheckDone(x).rxBatch = st[s].rxBatch
    <3>1. Place(x) /\ EndsSent(x) = EndsSent(st[s])
      BY <1>0, <2>5 DEF Place, EndsSent
    <3>. QED  BY <2>5, <3>1, CheckLimits
  <2>6. CASE SendGot(s)
    <3>. DEFINE x == [st[s] EXCEPT !.owed = NothingOwed]
                r == CheckDone(x)
    <3>1. st' = [st EXCEPT ![s] = r] /\ Send(s, st[s].owed) /\ st[s].owed # NothingOwed
      BY <2>6 DEF SendGot, Becomes
    <3>2. /\ x \in SideRec /\ x.moved = st[s].moved /\ x.batch = st[s].batch
          /\ x.batches = st[s].batches /\ x.eobSent = st[s].eobSent /\ x.wake = st[s].wake
          /\ x.done = st[s].done /\ x.phase = st[s].phase
          /\ x.rxEnded = st[s].rxEnded /\ x.rxBatch = st[s].rxBatch
      <4>1. st[s] \in SideRec
        BY <1>0
      <4>. QED  BY <4>1 DEF SideRec, NothingOwed
    <3>. HIDE DEF x
    <3>3. st[s].owed \in Frame /\ Ends(st[s].owed) = 0
      BY <1>0, <3>1 DEF SideRec, NothingOwed, Msg, Frame, Ends
    <3>4. /\ Place(r) /\ EndsSent(r) = EndsSent(st[s])
          /\ r.rxEnded = st[s].rxEnded /\ r.rxBatch = st[s].rxBatch
      BY <2>5, <3>2
    <3>. HIDE DEF r
    <3>5. EndsSent(st[s]) + Ends(st[s].owed) <= EndsSent(r)
      BY <1>0, <3>3, <3>4
    <3>. QED  BY <1>4, <3>1, <3>3, <3>4, <3>5
  <2>7. CASE ReceiveAnswer(s)
    <3>. DEFINE x == Confirmed(st[s], Head(chan[s]))
                r == CheckDone(x)
    <3>1. st' = [st EXCEPT ![s] = r] /\ chan[s] # <<>> /\ chan' = Consumed(s)
      BY <2>7 DEF ReceiveAnswer, Takes, Becomes, Next1
    <3>2. /\ x \in SideRec /\ x.moved = st[s].moved /\ x.batch = st[s].batch
          /\ x.batches = st[s].batches /\ x.eobSent = st[s].eobSent /\ x.wake = st[s].wake
          /\ x.done = st[s].done /\ x.phase = st[s].phase
          /\ x.rxEnded = st[s].rxEnded /\ x.rxBatch = st[s].rxBatch
      <4>1. PICK A \in SUBSET Files, S \in SUBSET Files : x = [st[s] EXCEPT !.awaiting = A, !.sent = S]
        <5>1. /\ st[s].awaiting \ {Head(chan[s]).f} \in SUBSET Files
              /\ (IF Head(chan[s]).f \in st[s].awaiting /\ Head(chan[s]).t = "GOT"
                  THEN st[s].sent \cup {Head(chan[s]).f} ELSE st[s].sent) \in SUBSET Files
          BY <1>0 DEF SideRec
        <5>. QED  BY <5>1 DEF Confirmed
      <4>. HIDE DEF x
      <4>2. st[s] \in SideRec
        BY <1>0
      <4>3. x \in SideRec
        BY <4>1, <4>2, ZenonT(60) DEF SideRec
      <4>. QED  BY <4>1, <4>2, <4>3 DEF SideRec
    <3>. HIDE DEF x
    <3>3. /\ Place(r) /\ EndsSent(r) = EndsSent(st[s])
          /\ r.rxEnded = st[s].rxEnded /\ r.rxBatch = st[s].rxBatch
      BY <2>5, <3>2
    <3>. HIDE DEF r
    <3>. QED  BY <1>6, <1>7, <3>1, <3>3
  \* The other side ends a batch.
  <2>8. CASE ReceiveEob(s)
    <3>. DEFINE x == Ended(st[s])
                r == CheckDone(x)
    <3>1. st' = [st EXCEPT ![s] = r] /\ chan[s] # <<>> /\ chan' = Consumed(s) /\ Head(chan[s]).t = "EOB"
      BY <2>8 DEF ReceiveEob, Takes, Becomes, Next1
    <3>2. PICK b \in Nat : x = [st[s] EXCEPT !.rxBatch = b, !.rxEnded = @ \cup {b}]
      BY <1>0, CountingBatches
    <3>3. /\ x \in SideRec /\ x.moved = st[s].moved /\ x.batch = st[s].batch
          /\ x.batches = st[s].batches /\ x.eobSent = st[s].eobSent /\ x.wake = st[s].wake
          /\ x.done = st[s].done /\ x.phase = st[s].phase
          /\ x.rxBatch = b /\ x.rxEnded = st[s].rxEnded \cup {b}
      <4>. HIDE DEF x
      <4>1. st[s] \in SideRec
        BY <1>0
      <4>2. x \in SideRec
        BY <3>2, <4>1, ZenonT(60) DEF SideRec
      <4>. QED  BY <3>2, <4>1, <4>2 DEF SideRec
    <3>4. b = IF multi /\ st[s].rxBatch \in st[s].rxEnded THEN st[s].rxBatch + 1 ELSE st[s].rxBatch
      <4>1. x.rxBatch = IF multi /\ st[s].rxBatch \in st[s].rxEnded THEN st[s].rxBatch + 1 ELSE st[s].rxBatch
        BY <1>0 DEF Ended, SideRec
      <4>. QED  BY <3>3, <4>1
    <3>. HIDE DEF x
    <3>5. Place(x) /\ EndsSent(x) = EndsSent(st[s])
      BY <1>0, <3>3 DEF Place, EndsSent
    <3>6. /\ Place(r) /\ EndsSent(r) = EndsSent(st[s])
          /\ r.rxEnded = x.rxEnded /\ r.rxBatch = x.rxBatch
      BY <3>3, <3>5, CheckLimits
    <3>. HIDE DEF r
    <3>7. \A lo, low \in Nat : Within(st[s], lo) /\ lo + Ends(Head(chan[s])) <= low => Within(r, low)
      <4>. SUFFICES ASSUME NEW lo \in Nat, NEW low \in Nat, Within(st[s], lo), lo + Ends(Head(chan[s])) <= low
                    PROVE  Within(r, low)
        OBVIOUS
      <4>1. lo + 1 <= low
        BY <3>1 DEF Ends
      <4>2. b \in 1 .. lo + 1
        BY <3>4 DEF Within
      <4>. QED  BY <3>3, <3>6, <4>1, <4>2 DEF Within
    <3>. QED  BY <1>6, <3>1, <3>6, <3>7
  <2>. QED  BY <1>10, <2>1, <2>2, <2>3, <2>4, <2>6, <2>7, <2>8 DEF ReceiverStep
<1>11. ASSUME NEW s \in Sides, HangUp(s) \/ Break(s) PROVE LimitInv'
  BY <1>2, <1>11 DEF HangUp, Break
<1>. QED  BY <1>3, <1>8, <1>9, <1>10, <1>11 DEF Next

LEMMA StartsLimited == Init => LimitInv
<1>. SUFFICES ASSUME Init, NEW s \in Sides PROVE Limited(s)
  BY DEF LimitInv
<1>1. Other(s) \in Sides /\ MaxBatches \in Nat \ {0}
  BY TwoSides, BinkpAssumption DEF BinkpAssumption
<1>2. \A k \in Sides : st[k] = Fresh /\ chan[k] = <<>>
  BY DEF Init
<1>3. Place(Fresh) /\ EndsSent(Fresh) = 0 /\ Within(Fresh, 0)
  BY <1>1 DEF Place, EndsSent, Within, Fresh
<1>4. Apart(<<>>, 0, 0)
  BY ApartAtAll
<1>. QED  BY <1>1, <1>2, <1>3, <1>4 DEF Limited

ModesInv == /\ multi \in BOOLEAN /\ faulty \in BOOLEAN /\ outrun \in BOOLEAN
            /\ late \subseteq Sides

LEMMA ModesStep == ModesInv /\ [Next]_vars => ModesInv'
<1>. SUFFICES ASSUME ModesInv, [Next]_vars PROVE ModesInv'
  OBVIOUS
<1>. USE DEF ModesInv, Aside, Settings, History
<1>1. ASSUME NEW s \in Sides, NEW how, NEW certain, Closes(s, how, certain),
             faulty' \in BOOLEAN, outrun' \in BOOLEAN
      PROVE  ModesInv'
  BY <1>1 DEF Closes
<1>2. ASSUME NEW s \in Sides, HandshakeStep(s) PROVE ModesInv'
  BY <1>1, <1>2 DEF HandshakeStep, SayHello, ReadAddress, Refused, Fails, CheckPassword, ReadOk
<1>3. ASSUME NEW s \in Sides, SenderStep(s) \/ CutShort(s) PROVE ModesInv'
  <2>1. CASE SendEob(s)
    BY <2>1 DEF SendEob
  <2>. QED  BY <1>3, <2>1 DEF SenderStep, AnnounceFile, SendData, Wake, AskNextBatch, CutShort
<1>4. ASSUME NEW s \in Sides, ReceiverStep(s) PROVE ModesInv'
  <2>1. CASE ReceiveFile(s) \/ ReceiveData(s) \/ SendGot(s) \/ ReceiveAnswer(s) \/ ReceiveEob(s)
    BY <2>1 DEF ReceiveFile, Takes, ReceiveData, SendGot, ReceiveAnswer, ReceiveEob
  <2>2. CASE ReceiveMisplaced(s) \/ Finish(s)
    BY <1>1, <2>2 DEF ReceiveMisplaced, Finish, Fails
  <2>3. CASE RemoteClosed(s)
    <3>1. outrun' \in BOOLEAN /\ faulty' = faulty
      BY <2>3 DEF RemoteClosed
    <3>2. \/ Closes(s, "failed", FALSE)
          \/ late' = late \ {s} /\ UNCHANGED Settings
      BY <2>3 DEF RemoteClosed
    <3>. QED  BY <1>1, <3>1, <3>2
  <2>. QED  BY <1>4, <2>1, <2>2, <2>3 DEF ReceiverStep
<1>5. ASSUME NEW s \in Sides, HangUp(s) \/ Break(s) PROVE ModesInv'
  BY <1>1, <1>5 DEF HangUp, Break
<1>6. CASE UNCHANGED vars
  BY <1>6 DEF vars
<1>. QED  BY <1>2, <1>3, <1>4, <1>5, <1>6 DEF Next

\* check_done: a session has at most MAX_BATCHES batches however the two sides
\* and the line behave, and no side takes the remote to be more than one batch
\* beyond that; with the types of everything else.
THEOREM TypeCorrect == Spec => []TypeOK
<1>1. SessionInv /\ LimitInv /\ ModesInv => TypeOK
  <2>. SUFFICES ASSUME SessionInv, LimitInv, ModesInv PROVE TypeOK
    OBVIOUS
  <2>1. ASSUME NEW s \in Sides PROVE st[s] \in Side
    <3>0. /\ st[s] \in SideRec /\ chan[s] \in Seq(Frame) /\ MaxBatches \in Nat
          /\ Other(s) \in Sides /\ st[Other(s)] \in SideRec
          /\ Place(st[s]) /\ Place(st[Other(s)])
      BY TwoSides, BinkpAssumption DEF SessionInv, SessionType, LimitInv, Limited, BinkpAssumption
    <3>1. PICK lo \in Nat : Within(st[s], lo) /\ Apart(chan[s], lo, EndsSent(st[Other(s)]))
      BY DEF LimitInv, Limited
    <3>2. EndsSent(st[Other(s)]) \in Nat /\ EndsSent(st[Other(s)]) <= MaxBatches
      BY <3>0 DEF EndsSent, Place
    <3>3. lo <= MaxBatches
      BY <3>0, <3>1, <3>2, ApartNow
    <3>4. /\ st[s].rxBatch \in Batches /\ st[s].rxEnded \in SUBSET Batches
          /\ st[s].batch \in Batches /\ st[s].moved \in SUBSET Batches
          /\ st[s].batches \in 0 .. MaxBatches
      <4>1. 1 .. lo \subseteq Batches /\ 1 .. lo + 1 \subseteq Batches /\ 1 .. MaxBatches \subseteq Batches
        BY <3>0, <3>3 DEF Batches
      <4>2. st[s].batches \in Nat
        BY <3>0, SideParts
      <4>. QED  BY <3>0, <3>1, <4>1, <4>2 DEF Within, Place
    <3>. QED  BY <3>0, <3>4, ZenonT(60) DEF SideRec, Side
  <2>. QED  BY <2>1 DEF TypeOK, SessionInv, SessionType, ModesInv
<1>2. Init => ModesInv
  BY DEF Init, ModesInv
<1>. QED  BY <1>1, <1>2, StartsLimited, LimitStep, ModesStep, SessionAlways, PTL DEF Spec
=============================================================================
