---------------------------- MODULE ServerProofs ----------------------------
(***************************************************************************)
(* Proofs about a server process, for any set of connections, any bounds,  *)
(* and every set of servers: about the loop (ServerLoop), about the path   *)
(* (ServerBind), and that the process (Server) is both.                    *)
(*                                                                         *)
(* The invariants of the loop rest on each other.  Which connection an id  *)
(* stands for (Owned) and who is in the table, with the poller, or leaving *)
(* (Table) say that what is registered is open.  A batch names each client *)
(* once, has something to read from it, and finds it in the table (Batch); *)
(* so its end is never that of another, and what it disarms it arms again  *)
(* or drops (Wakes).  Counted, Excuses and Hellos add whose objects were   *)
(* destroyed, why connections end, and that a hello is what is read first. *)
(*                                                                         *)
(* A server that came up without another inside bind keeps its path, and   *)
(* such a bind fails only where another server is up.  Neither is          *)
(* inductive.  What a server does to the path rests on what it saw there a *)
(* step earlier: for one that has bind to itself (Alone) that is still so  *)
(* (Seen), and who comes after it was up still has to be answered          *)
(* (Asking).                                                               *)
(*                                                                         *)
(* The composition keeps what its parts promise: a server process, from    *)
(* bind to its end, takes the steps of ServerBind and no others on the     *)
(* path, and those of ServerLoop and no others with its clients.           *)
(***************************************************************************)
EXTENDS Server, FiniteSetTheorems, LeastNumber, TLAPS

-----------------------------------------------------------------------------
(* The loop.                                                               *)

Distinct(s) == \A i, j \in 1..Len(s) : s[i] = s[j] => i = j

\* No two ids are of one connection, and a queued one has none.
Owned ==
  /\ Distinct(owner)
  /\ \A id \in 1..Len(owner) : place[owner[id]] \in {"held", "closed"}
  /\ Distinct(backlog)
  /\ \A i \in 1..Len(backlog) : place[backlog[i]] = "queued"

\* The poller has the table's clients, and the one that is leaving it.
Table ==
  /\ \A id \in clients : place[owner[id]] = "held"
  /\ leaving # 0 => /\ leaving \notin clients /\ place[owner[leaving]] = "held"
                    /\ pc = "reap" /\ dead # <<>> /\ Head(dead) = leaving
  /\ regs \ {Listener} = clients \cup ({leaving} \ {0})
  /\ pc = "down" => clients = {} /\ backlog = <<>>

\* A client that has gone was cleaned up once, any other never.
Counted ==
  \A id \in 1..Cardinality(Conns) :
    cleaned[id] = IF id \in 1..Len(owner) /\ id \notin clients THEN 1 ELSE 0

(* The events that are left are of clients in the table that have          *)
(* something to read; those found dead are others, and still in the table. *)
Batch ==
  /\ pc # "events" => events = <<>>
  /\ pc \notin {"events", "reap"} => dead = <<>>
  /\ Distinct(events) /\ Distinct(dead)
  /\ ToSet(events) \cap ToSet(dead) = {}
  /\ \A id \in ToSet(events) \ {Listener} : id \in clients /\ Readable(owner[id])
  /\ ToSet(dead) \subseteq clients \cup ({leaving} \ {0})

\* A key is armed, or in the batch, unless a dispatch has failed.
Wakes ==
  /\ backlog # <<>> => Listener \in regs
  /\ ~failed =>
       /\ Listener \in regs => Listener \in armed \cup ToSet(events)
       /\ clients \subseteq armed \cup ToSet(events) \cup ToSet(dead)

\* Whatever marks a connection as ended has a reason.
Excuses ==
  /\ hung \subseteq excused /\ shut \subseteq excused
  /\ \A id \in err : owner[id] \in excused
  /\ ToSet(dead) \subseteq err
  /\ \A c \in Conns : ToSet(inbox[c]) \cap {"stray", "bad"} # {} => c \in excused
  /\ HealthyStays

Asked(c) == c \in Rude \/ \E id \in polled : owner[id] = c

\* Who has been shown to the application was asked for.
Met ==
  /\ polled \subseteq creds \cup refused
  /\ \A id \in known : owner[id] \in Rude \/ id \in polled

(* A hello comes first, and is read before anything else, unless the peer  *)
(* is not of this library; it asks for the credentials.                    *)
Hellos ==
  /\ Met
  /\ \A c \in Conns :
       /\ place[c] = "away" => sent[c] = 0
       /\ sent[c] = 0 => inbox[c] = <<>>
       /\ inbox[c] # <<>> => inbox[c][1] = "hello" \/ Asked(c)
       /\ sent[c] > 0 /\ inbox[c] = <<>> /\ place[c] \in {"queued", "held"} =>
            c \in shut \/ Asked(c)

IInv ==
  /\ TypeOK /\ Owned /\ Table /\ Counted /\ Batch /\ Wakes /\ Excuses /\ Hellos

-----------------------------------------------------------------------------
(* Sequences without repetitions, and their elements. *)

LEMMA EmptySet == ToSet(<<>>) = {} /\ Distinct(<<>>) /\ \A S : <<>> \in Seq(S)
  BY DEF ToSet, Distinct

LEMMA InSet ==
  ASSUME NEW S, NEW s \in Seq(S)
  PROVE  /\ \A i \in 1..Len(s) : s[i] \in ToSet(s)
         /\ \A x \in ToSet(s) : \E i \in 1..Len(s) : s[i] = x
         /\ ToSet(s) \subseteq S
  BY DEF ToSet

\* What a step takes from the front is out of the rest.
LEMMA TailSet ==
  ASSUME NEW S, NEW s \in Seq(S), s # <<>>
  PROVE  /\ Tail(s) \in Seq(S) /\ Head(s) \in S /\ Head(s) \in ToSet(s)
         /\ ToSet(Tail(s)) \subseteq ToSet(s)
         /\ ToSet(s) = ToSet(Tail(s)) \cup {Head(s)}
         /\ Distinct(s) => Distinct(Tail(s)) /\ Head(s) \notin ToSet(Tail(s))
<1>1. /\ Len(Tail(s)) = Len(s) - 1 /\ Len(s) >= 1 /\ Head(s) = s[1]
      /\ \A i \in 1..Len(Tail(s)) : Tail(s)[i] = s[i + 1]
  OBVIOUS
<1>2. ASSUME NEW x \in ToSet(s), x # Head(s)
      PROVE  x \in ToSet(Tail(s))
  <2>1. PICK i \in 1..Len(s) : s[i] = x
    BY DEF ToSet
  <2>2. i # 1 /\ Len(s) \in Nat
    BY <1>1, <1>2, <2>1
  <2>3. i - 1 \in 1..Len(Tail(s)) /\ (i - 1) + 1 = i
    BY <1>1, <2>1, <2>2
  <2>4. Tail(s)[i - 1] = x
    BY <1>1, <2>1, <2>3
  <2>5. Tail(s) \in Seq(S)
    OBVIOUS
  <2> QED
    BY <2>3, <2>4, <2>5, InSet
<1>3. \A x \in ToSet(Tail(s)) : \E i \in 2..Len(s) : s[i] = x
  BY <1>1 DEF ToSet
<1>4. ToSet(Tail(s)) \subseteq ToSet(s)
  BY <1>3 DEF ToSet
<1>5. Distinct(s) => Distinct(Tail(s))
  BY <1>1 DEF Distinct
<1>6. Distinct(s) => Head(s) \notin ToSet(Tail(s))
  BY <1>1, <1>3 DEF Distinct
<1>7. Head(s) \in ToSet(s)
  BY <1>1 DEF ToSet
<1> QED
  BY <1>2, <1>4, <1>5, <1>6, <1>7

LEMMA AppendSet ==
  ASSUME NEW S, NEW s \in Seq(S), NEW x \in S
  PROVE  /\ Append(s, x) \in Seq(S)
         /\ ToSet(Append(s, x)) = ToSet(s) \cup {x}
         /\ Distinct(s) /\ x \notin ToSet(s) => Distinct(Append(s, x))
<1>1. /\ Len(Append(s, x)) = Len(s) + 1 /\ Append(s, x)[Len(s) + 1] = x
      /\ \A i \in 1..Len(s) : Append(s, x)[i] = s[i]
  OBVIOUS
<1>2. ToSet(Append(s, x)) = ToSet(s) \cup {x}
  <2>1. \A y \in ToSet(s) : y \in ToSet(Append(s, x))
    BY <1>1 DEF ToSet
  <2>2. x \in ToSet(Append(s, x))
    BY <1>1 DEF ToSet
  <2>3. \A y \in ToSet(Append(s, x)) : y \in ToSet(s) \/ y = x
    BY <1>1 DEF ToSet
  <2> QED
    BY <2>1, <2>2, <2>3
<1>3. Distinct(s) /\ x \notin ToSet(s) => Distinct(Append(s, x))
  BY <1>1 DEF Distinct, ToSet
<1> QED
  BY <1>2, <1>3

\* A batch names each of the ready keys, each once.
LEMMA OrderedSet ==
  ASSUME NEW S, IsFiniteSet(S), NEW s \in SetToSeqs(S)
  PROVE  s \in Seq(S) /\ Distinct(s) /\ ToSet(s) = S
<1> DEFINE D == 1..Cardinality(S)
<1>1. Cardinality(S) \in Nat
  BY FS_CardinalityType
<1>2. s \in [D -> S] /\ \A i, j \in D : i # j => s[i] # s[j]
  BY DEF SetToSeqs
<1>3. s \in Seq(S) /\ Len(s) = Cardinality(S)
  BY <1>1, <1>2
<1>4. s \in Injection(D, S)
  BY <1>2 DEF Injection, IsInjective
<1>5. IsFiniteSet(D) /\ Cardinality(D) = Cardinality(S)
  BY <1>1, FS_Interval
<1>6. s \in Surjection(D, S)
  BY <1>4, <1>5, FS_Injection
<1>7. \A x \in S : \E i \in D : s[i] = x
  BY <1>6 DEF Surjection
<1>8. Distinct(s)
  BY <1>2, <1>3 DEF Distinct
<1>9. ToSet(s) = S
  BY <1>2, <1>3, <1>7 DEF ToSet
<1> QED
  BY <1>3, <1>8, <1>9

(* The messages a dispatch gets to are a prefix; it holds the first one,   *)
(* and ends in a bad one if it is not all.                                 *)
LEMMA HandledPrefix ==
  ASSUME NEW msgs \in Seq(Kinds)
  PROVE  /\ Handled(msgs) \in Seq(Kinds)
         /\ ToSet(Handled(msgs)) \subseteq ToSet(msgs)
         /\ msgs # <<>> => Handled(msgs) # <<>> /\ Handled(msgs)[1] = msgs[1]
<1> DEFINE bad == {i \in DOMAIN msgs : msgs[i] = "bad"}
           first == CHOOSE i \in bad : \A j \in bad : i <= j
<1>1. CASE bad = {}
  BY <1>1 DEF Handled
<1>2. CASE bad # {}
  <2>1. \E i \in bad : \A j \in bad : i <= j
    <3>1. bad \subseteq Nat
      OBVIOUS
    <3> HIDE DEF bad
    <3> QED
      BY <1>2, <3>1, LeastOf
  <2>2. first \in 1..Len(msgs)
    <3>1. first \in bad
      <4> HIDE DEF bad
      <4> QED
        BY <2>1
    <3> QED
      BY <3>1
  <2>3. Handled(msgs) = SubSeq(msgs, 1, first)
    BY <1>2 DEF Handled
  <2> HIDE DEF first
  <2>4. /\ SubSeq(msgs, 1, first) \in Seq(Kinds)
        /\ Len(SubSeq(msgs, 1, first)) = first
        /\ \A i \in 1..first : SubSeq(msgs, 1, first)[i] = msgs[i]
    BY <2>2
  <2>5. ToSet(Handled(msgs)) \subseteq ToSet(msgs)
    BY <2>2, <2>3, <2>4 DEF ToSet
  <2> QED
    BY <2>2, <2>3, <2>4, <2>5
<1> QED
  BY <1>1, <1>2

\* Keys that are ready are armed; they are finitely many.
LEMMA ReadyFinite ==
  ASSUME TypeOK
  PROVE  Ready \subseteq armed /\ Ready \subseteq Nat /\ IsFiniteSet(Ready)
<1>1. Ready \subseteq armed
  BY DEF Ready
<1>2. armed \subseteq 0..Len(owner) /\ Len(owner) \in Nat
  BY DEF TypeOK, Listener
<1>3. Ready \subseteq 0..Len(owner)
  BY <1>1, <1>2
<1>4. IsFiniteSet(0..Len(owner))
  BY <1>2, FS_Interval
<1>5. Ready \subseteq Nat
  BY <1>2, <1>3
<1> QED
  BY <1>1, <1>3, <1>4, <1>5, FS_Subset

-----------------------------------------------------------------------------
(* What the helpers of the steps do. *)

\* A new client has the next id, and every other id its connection.
LEMMA AdmitFacts ==
  ASSUME TypeOK, NEW c \in Conns, Admit(c)
  PROVE  /\ Id \in Nat \ {0} /\ Id \notin 1..Len(owner)
         /\ owner' \in Seq(Conns) /\ Len(owner') = Id /\ owner'[Id] = c
         /\ 1..Len(owner') = 1..Len(owner) \cup {Id}
         /\ \A id \in 1..Len(owner) : owner'[id] = owner[id]
  BY DEF TypeOK, Admit, Id

LEMMA IdFacts ==
  ASSUME TypeOK,
         NEW id \in clients \cup err \cup polled \cup known \cup ({leaving} \ {0})
  PROVE  id \in 1..Len(owner) /\ id \in Nat \ {0} /\ owner[id] \in Conns
  BY SMTT(30) DEF TypeOK

LEMMA OwnerType ==
  ASSUME TypeOK
  PROVE  \A id \in 1..Len(owner) : owner[id] \in Conns
  BY DEF TypeOK

LEMMA CleansFacts ==
  ASSUME cleaned \in [1..Cardinality(Conns) -> Nat], NEW id, Cleans(id)
  PROVE  /\ cleaned' \in [1..Cardinality(Conns) -> Nat]
         /\ \A i \in 1..Cardinality(Conns) :
              cleaned'[i] = IF i = id THEN cleaned[i] + 1 ELSE cleaned[i]
<1>1. cleaned' = [cleaned EXCEPT ![id] = cleaned[id] + 1]
  BY DEF Cleans
<1>2. CASE id \in 1..Cardinality(Conns)
  <2>1. cleaned[id] + 1 \in Nat
    BY <1>2
  <2> QED
    BY <1>1, <1>2, <2>1
<1>3. CASE id \notin 1..Cardinality(Conns)
  BY <1>1, <1>3
<1> QED
  BY <1>2, <1>3

LEMMA CloseFacts ==
  ASSUME TypeOK, NEW cs \in SUBSET Conns, Close(cs)
  PROVE  /\ place' \in [Conns -> {"away", "queued", "held", "closed"}]
         /\ inbox' \in [Conns -> Seq(Kinds)]
         /\ \A c \in cs : place'[c] = "closed" /\ inbox'[c] = <<>>
         /\ \A c \in Conns \ cs : place'[c] = place[c] /\ inbox'[c] = inbox[c]
         /\ hung' = hung \ cs /\ shut' = shut \ cs
         /\ hung' \subseteq Conns /\ shut' \subseteq Conns
  BY DEF TypeOK, Close

\* A queued connection is in the backlog; one that is away is nowhere.
LEMMA NewcomerFacts ==
  ASSUME TypeOK, Owned, backlog # <<>>
  PROVE  /\ Head(backlog) \in Conns /\ Tail(backlog) \in Seq(Conns)
         /\ place[Head(backlog)] = "queued"
  BY SMTT(30) DEF TypeOK, Owned

\* The event that is served is of a client in the table.
LEMMA ServedFacts ==
  ASSUME TypeOK, Table, Batch, AtClient
  PROVE  /\ Head(events) \in clients /\ Head(events) \in 1..Len(owner)
         /\ owner[Head(events)] \in Conns /\ place[owner[Head(events)]] = "held"
         /\ Head(events) \in regs /\ Tail(events) \in Seq(Nat)
         /\ Head(events) \in ToSet(events) /\ Readable(owner[Head(events)])
<1>1. events \in Seq(Nat) /\ events # <<>> /\ Head(events) # Listener
  BY DEF TypeOK, AtClient
<1>2. Head(events) \in ToSet(events) /\ Tail(events) \in Seq(Nat)
  BY <1>1, TailSet
<1>3. Head(events) \in clients /\ Readable(owner[Head(events)])
  BY <1>1, <1>2 DEF Batch
<1>4. Head(events) \in 1..Len(owner) /\ owner[Head(events)] \in Conns
  BY <1>3, IdFacts
<1>5. place[owner[Head(events)]] = "held" /\ Head(events) \in regs
  BY <1>3 DEF Table
<1> QED
  BY <1>2, <1>3, <1>4, <1>5

\* The client that is reaped is in the table until it leaves it.
LEMMA ReapedFacts ==
  ASSUME TypeOK, Table, Batch, dead # <<>>
  PROVE  /\ Head(dead) \in ToSet(dead) /\ Head(dead) \in 1..Len(owner)
         /\ Tail(dead) \in Seq(Nat)
         /\ leaving = 0 => Head(dead) \in clients
         /\ leaving # 0 => Head(dead) = leaving
<1>1. dead \in Seq(Nat)
  BY DEF TypeOK
<1>2. Head(dead) \in ToSet(dead) /\ Tail(dead) \in Seq(Nat)
  BY <1>1, TailSet
<1>3. Head(dead) \in clients \cup ({leaving} \ {0})
  BY <1>2 DEF Batch
<1>4. Head(dead) \in 1..Len(owner)
  BY <1>3, IdFacts
<1> QED
  BY <1>2, <1>3, <1>4 DEF Table

-----------------------------------------------------------------------------
(* The type of the state. *)

Marked == clients \cup err \cup polled \cup creds \cup known \cup refused

LEMMA TypeStep ==
  ASSUME IInv, [Next]_vars
  PROVE  TypeOK'
<1> USE DEF Trouble, Abandon, conns, table, poller, loop, ghosts
<1>0. /\ TypeOK /\ Owned /\ Table /\ Batch
      /\ backlog # <<>> => Listener \in regs
      /\ MaxSends \in [Conns -> Nat] /\ MaxTrouble \in Nat
      /\ Marked \subseteq DOMAIN owner
  BY LoopAssumption DEF IInv, Wakes, TypeOK, Marked
<1>1. ASSUME NEW listening \in BOOLEAN, Start(listening) PROVE TypeOK'
  BY <1>0, <1>1 DEF Start, TypeOK, Marked
<1>2. CASE Crash
  <2>1. Close({c \in Conns : place[c] # "away"})
    BY <1>2 DEF Crash
  <2>2. /\ place' \in [Conns -> {"away", "queued", "held", "closed"}]
        /\ inbox' \in [Conns -> Seq(Kinds)]
        /\ hung' \subseteq Conns /\ shut' \subseteq Conns
    BY <1>0, <2>1, CloseFacts
  <2>3. cleaned' \in [1..Cardinality(Conns) -> Nat]
    BY <1>2 DEF Crash, Never
  <2>4. /\ backlog' \in Seq(Conns) /\ owner' \in Seq(Conns)
        /\ events' \in Seq(Nat) /\ dead' \in Seq(Nat)
    BY <1>2 DEF Crash
  <2>5. /\ Marked' \subseteq DOMAIN owner'
        /\ armed' \subseteq regs' /\ regs' \subseteq {Listener} \cup DOMAIN owner'
        /\ leaving' \in {0} \cup DOMAIN owner'
    BY <1>2 DEF Crash, Marked
  <2>6. /\ excused' \subseteq Conns
        /\ sent' \in [Conns -> Nat] /\ \A c \in Conns : sent'[c] <= MaxSends[c]
        /\ pc' = "down" /\ block' \in BOOLEAN /\ failed' \in BOOLEAN
        /\ trouble' \in 0..MaxTrouble
    <3>1. /\ excused' = excused \cup {c \in Conns : place[c] # "away"}
          /\ UNCHANGED <<sent, block>> /\ Trouble
      BY <1>2 DEF Crash
    <3>2. pc' = "down" /\ failed' = FALSE
      BY <1>2 DEF Crash
    <3>3. excused' \subseteq Conns
      BY <1>0, <3>1 DEF TypeOK, Marked
    <3>4. /\ sent' \in [Conns -> Nat] /\ \A c \in Conns : sent'[c] <= MaxSends[c]
          /\ block' \in BOOLEAN
      BY <1>0, <3>1 DEF TypeOK, Marked
    <3>5. trouble' \in 0..MaxTrouble
      BY <1>0, <3>1 DEF TypeOK, Marked
    <3> QED
      BY <3>2, <3>3, <3>4, <3>5
  <2> QED
    BY <2>2, <2>3, <2>4, <2>5, <2>6 DEF TypeOK, Marked
<1>3. CASE Wait
  <2>1. events' \in Seq(Nat)
    BY <1>0, <1>3, ReadyFinite, OrderedSet DEF Wait
  <2>2. /\ UNCHANGED <<place, hung, shut, inbox, sent, backlog, clients, owner,
                       err, polled, creds, regs, leaving, cleaned, known,
                       refused, excused, failed, trouble>>
        /\ armed' \subseteq armed
    BY <1>3 DEF Wait
  <2>3. dead' \in Seq(Nat)
    BY <1>3, EmptySet, Zenon DEF Wait
  <2>4. block' \in BOOLEAN /\ pc' = "events"
    BY <1>3, Zenon DEF Wait
  <2> QED
    BY <1>0, <2>1, <2>2, <2>3, <2>4 DEF TypeOK
<1>4. CASE WaitFindsNothing \/ EventsDone \/ NextRound
  BY <1>0, <1>4 DEF WaitFindsNothing, EventsDone, NextRound, TypeOK, Marked
<1>5. CASE Accept \/ ListenerRearmFails
  <2>1. backlog # <<>> /\ Admit(Head(backlog))
    BY <1>5 DEF Accept, ListenerRearmFails
  <2>2. /\ Head(backlog) \in Conns /\ Tail(backlog) \in Seq(Conns)
        /\ Listener \in regs
    BY <1>0, <2>1, NewcomerFacts
  <2>3. /\ owner' \in Seq(Conns) /\ 1..Len(owner') = 1..Len(owner) \cup {Id}
    BY <1>0, <2>1, <2>2, AdmitFacts
  <2>4. /\ clients' = clients \cup {Id} /\ regs' = regs \cup {Id}
        /\ armed' \subseteq armed \cup {Listener, Id}
        /\ armed' \subseteq regs' /\ Id \in DOMAIN owner'
        /\ DOMAIN owner \subseteq DOMAIN owner'
        /\ UNCHANGED <<err, polled, creds, known, refused, leaving>>
    <3>1. /\ clients' = clients \cup {Id} /\ regs' = regs \cup {Id}
          /\ UNCHANGED <<err, polled, creds, known, refused, leaving>>
          /\ armed' \subseteq armed \cup {Listener, Id}
      BY <1>5, <2>1 DEF Accept, ListenerRearmFails, Admit
    <3>2. armed \subseteq regs
      BY <1>0 DEF TypeOK, Marked
    <3>3. Id \in DOMAIN owner' /\ DOMAIN owner \subseteq DOMAIN owner'
      <4>1. owner \in Seq(Conns)
        BY <1>0 DEF TypeOK, Marked
      <4>2. DOMAIN owner = 1..Len(owner) /\ DOMAIN owner' = 1..Len(owner')
        BY <2>3, <4>1
      <4> QED
        BY <2>3, <4>2
    <3> QED
      BY <2>2, <3>1, <3>2, <3>3
  <2>5. /\ Marked' \subseteq DOMAIN owner'
        /\ regs' \subseteq {Listener} \cup DOMAIN owner'
        /\ leaving' \in {0} \cup DOMAIN owner'
    BY <1>0, <2>4 DEF TypeOK, Marked
  <2>6. events' \in Seq(Nat) /\ dead' \in Seq(Nat)
    <3>1. events \in Seq(Nat) /\ dead \in Seq(Nat) /\ events # <<>>
      BY <1>0, <1>5 DEF Accept, ListenerRearmFails, AtListener, TypeOK, Marked
    <3>2. Tail(events) \in Seq(Nat)
      BY <3>1
    <3>3. (events' = Tail(events) \/ events' = <<>>) /\ (dead' = dead \/ dead' = <<>>)
      BY <1>5 DEF Accept, ListenerRearmFails
    <3> QED
      BY <3>1, <3>2, <3>3, EmptySet, Zenon
  <2>7. /\ UNCHANGED <<hung, shut, inbox, sent, block, cleaned, excused>>
        /\ place' = [place EXCEPT ![Head(backlog)] = "held"]
        /\ backlog' = Tail(backlog) /\ failed' \in BOOLEAN
        /\ trouble' \in 0..MaxTrouble /\ pc' \in {"app", "events"}
    <3>1. CASE Accept
      BY <1>0, <3>1 DEF Accept, AtListener, TypeOK, Marked
    <3>2. CASE ListenerRearmFails
      BY <1>0, <3>2 DEF ListenerRearmFails, TypeOK, Marked
    <3> QED
      BY <1>5, <3>1, <3>2
  <2> QED
    BY <1>0, <2>2, <2>3, <2>4, <2>5, <2>6, <2>7 DEF TypeOK, Marked
<1>6. CASE AcceptFails
  <2>1. /\ Head(backlog) \in Conns /\ Tail(backlog) \in Seq(Conns)
        /\ Listener \in regs /\ backlog # <<>>
    BY <1>0, <1>6, NewcomerFacts DEF AcceptFails
  <2>2. events' \in Seq(Nat)
    BY <1>0, <1>6 DEF AcceptFails, AtListener, TypeOK, Marked
  <2>3. CASE UNCHANGED <<place, hung, shut, inbox, backlog, excused>>
    BY <1>0, <1>6, <2>1, <2>2, <2>3, SMTT(30) DEF AcceptFails, TypeOK, Marked
  <2>4. CASE /\ Close({Head(backlog)})
             /\ excused' = excused \cup {Head(backlog)}
             /\ backlog' = Tail(backlog)
    <3>1. /\ place' \in [Conns -> {"away", "queued", "held", "closed"}]
          /\ inbox' \in [Conns -> Seq(Kinds)]
          /\ hung' \subseteq Conns /\ shut' \subseteq Conns
      BY <1>0, <2>1, <2>4, CloseFacts
    <3>2. /\ UNCHANGED <<sent, table, regs, pc, block, dead, leaving, cleaned,
                         known, refused, failed>>
          /\ armed' \subseteq regs' /\ trouble' \in 0..MaxTrouble
      BY <1>0, <1>6, <2>1 DEF AcceptFails, TypeOK, Marked
    <3> QED
      BY <1>0, <2>1, <2>2, <2>4, <3>1, <3>2 DEF TypeOK, Marked
  <2> QED
    BY <1>6, <2>3, <2>4 DEF AcceptFails
<1>7. CASE AcceptCannotRegister
  <2>1. Head(backlog) \in Conns /\ Tail(backlog) \in Seq(Conns)
    BY <1>0, <1>7, NewcomerFacts DEF AcceptCannotRegister
  <2>2. /\ place' \in [Conns -> {"away", "queued", "held", "closed"}]
        /\ inbox' \in [Conns -> Seq(Kinds)]
        /\ hung' \subseteq Conns /\ shut' \subseteq Conns
    BY <1>0, <1>7, <2>1, CloseFacts DEF AcceptCannotRegister
  <2> QED
    BY <1>0, <1>7, <2>1, <2>2, SMTT(30) DEF AcceptCannotRegister, TypeOK, Marked
<1>8. CASE AtClient /\ (ServeClient \/ ReadFails \/ RearmFails)
  <2> DEFINE id == Head(events)
  <2>1. /\ id \in clients /\ id \in 1..Len(owner) /\ owner[id] \in Conns
        /\ id \in regs /\ Tail(events) \in Seq(Nat) /\ id \in Nat
    BY <1>0, <1>8, ServedFacts
  <2>2. /\ inbox' = [inbox EXCEPT ![owner[id]] = <<>>]
        /\ shut' \subseteq shut \cup {owner[id]}
        /\ excused' \subseteq excused \cup {owner[id]}
        /\ err' \subseteq err \cup {id} /\ creds' \subseteq creds \cup {id}
        /\ polled' \subseteq polled \cup {id} /\ refused' \subseteq refused \cup {id}
        /\ known' \subseteq known \cup {id} /\ armed' \subseteq armed \cup {id}
    BY <1>8 DEF ServeClient, ReadFails, RearmFails, DispatchClient, Settle, Learns
  <2>3. dead' \in Seq(Nat) /\ events' \in Seq(Nat)
    <3>1. dead \in Seq(Nat) /\ Append(dead, id) \in Seq(Nat)
      BY <1>0, <2>1, AppendSet DEF TypeOK, Marked
    <3>2. /\ dead' = dead \/ dead' = Append(dead, id) \/ dead' = <<>>
          /\ events' = Tail(events) \/ events' = <<>>
      BY <1>8 DEF ServeClient, ReadFails, RearmFails, Settle
    <3> HIDE DEF id
    <3> QED
      BY <2>1, <3>1, <3>2, EmptySet, Zenon
  <2>4. /\ UNCHANGED <<place, hung, sent, backlog, clients, owner, regs, leaving,
                       cleaned, block>>
        /\ failed' \in BOOLEAN /\ trouble' \in 0..MaxTrouble
        /\ pc' \in {"down", "app", "wait", "events", "reap"}
    <3>1. CASE ServeClient
      <4>1. trouble' \in 0..MaxTrouble
        BY <1>0, <3>1 DEF ServeClient, DispatchClient, Learns, TypeOK
      <4> QED
        BY <1>0, <3>1, <4>1 DEF ServeClient, TypeOK
    <3>2. CASE ReadFails
      BY <1>0, <3>2 DEF ReadFails, TypeOK, Marked
    <3>3. CASE RearmFails
      BY <1>0, <3>3 DEF RearmFails, TypeOK, Marked
    <3> QED
      BY <1>8, <3>1, <3>2, <3>3
  <2> HIDE DEF id
  <2>5. inbox' \in [Conns -> Seq(Kinds)]
    BY <1>0, <2>1, <2>2 DEF TypeOK, Marked
  <2>6. /\ shut' \subseteq Conns /\ excused' \subseteq Conns
        /\ Marked' \subseteq DOMAIN owner'
        /\ armed' \subseteq regs'
    BY <1>0, <2>1, <2>2, <2>4 DEF TypeOK, Marked
  <2> QED
    BY <1>0, <2>3, <2>4, <2>5, <2>6 DEF TypeOK, Marked
<1>9. CASE ReapRemove
  <2>1. Head(dead) \in 1..Len(owner)
    BY <1>0, <1>9, ReapedFacts DEF ReapRemove
  <2>2. cleaned' \in [1..Cardinality(Conns) -> Nat]
    BY <1>0, <1>9, CleansFacts DEF ReapRemove, TypeOK, Marked
  <2>3. /\ clients' \subseteq clients /\ leaving' = Head(dead)
        /\ UNCHANGED <<conns, owner, err, polled, creds, poller, pc, block, events,
                       dead, known, refused, excused, failed, trouble>>
    BY <1>9 DEF ReapRemove
  <2>4. /\ Marked' \subseteq DOMAIN owner'
        /\ leaving' \in {0} \cup DOMAIN owner'
    BY <1>0, <2>1, <2>3, SMTT(30) DEF TypeOK, Marked
  <2> QED
    BY <1>0, <2>2, <2>3, <2>4 DEF TypeOK, Marked
<1>10. CASE ReapDelete
  <2>1. dead # <<>> /\ leaving \in 1..Len(owner) /\ owner[leaving] \in Conns
    BY <1>0, <1>10 DEF ReapDelete, Table, TypeOK, Marked
  <2>2. /\ place' \in [Conns -> {"away", "queued", "held", "closed"}]
        /\ inbox' \in [Conns -> Seq(Kinds)]
        /\ hung' \subseteq Conns /\ shut' \subseteq Conns
    BY <1>0, <1>10, <2>1, CloseFacts DEF ReapDelete
  <2>3. dead' \in Seq(Nat)
    BY <1>0, <1>10, <2>1, ReapedFacts DEF ReapDelete
  <2> QED
    BY <1>0, <1>10, <2>2, <2>3 DEF ReapDelete, TypeOK, Marked
<1>11. ASSUME NEW b \in BOOLEAN, DispatchEvents(b) PROVE TypeOK'
  BY <1>0, <1>11 DEF DispatchEvents, TypeOK, Marked
<1>12. ASSUME NEW id \in DOMAIN owner, RaiseError(id) PROVE TypeOK'
  <2>1. owner[id] \in Conns
    BY <1>0, <1>12 DEF TypeOK, Marked
  <2>2. /\ err' = err \cup {id} /\ excused' = excused \cup {owner[id]}
        /\ Trouble
        /\ UNCHANGED <<conns, clients, owner, polled, creds, poller, loop,
                       cleaned, known, refused, failed>>
    BY <1>12 DEF RaiseError
  <2>3. /\ excused' \subseteq Conns /\ trouble' \in 0..MaxTrouble
        /\ Marked' \subseteq DOMAIN owner'
    BY <1>0, <2>1, <2>2, SMTT(30) DEF TypeOK, Marked
  <2> QED
    BY <1>0, <2>2, <2>3 DEF TypeOK, Marked
<1>13. ASSUME NEW id \in DOMAIN owner, RemoveClient(id) PROVE TypeOK'
  <2>1. owner[id] \in Conns
    BY <1>0 DEF TypeOK, Marked
  <2>2. /\ place' \in [Conns -> {"away", "queued", "held", "closed"}]
        /\ inbox' \in [Conns -> Seq(Kinds)]
        /\ hung' \subseteq Conns /\ shut' \subseteq Conns
    <3>1. Close({owner[id]})
      BY <1>13 DEF RemoveClient
    <3> QED
      BY <1>0, <2>1, <3>1, CloseFacts
  <2>3. cleaned' \in [1..Cardinality(Conns) -> Nat]
    BY <1>0, <1>13, CleansFacts DEF RemoveClient, TypeOK, Marked
  <2>4. /\ excused' \subseteq Conns
        /\ Marked' \subseteq DOMAIN owner'
        /\ armed' \subseteq regs' /\ regs' \subseteq {Listener} \cup DOMAIN owner'
    <3>1. /\ clients' = clients \ {id} /\ err' = err \cup {id}
          /\ regs' = regs \ {id} /\ armed' = armed \ {id}
          /\ excused' = excused \cup {owner[id]}
          /\ UNCHANGED <<owner, polled, creds, known, refused>>
      BY <1>13 DEF RemoveClient
    <3>2. Marked' \subseteq Marked \cup {id} /\ id \in DOMAIN owner
      BY <3>1 DEF Marked
    <3> QED
      BY <1>0, <2>1, <3>1, <3>2 DEF TypeOK
  <2>5. /\ UNCHANGED <<sent, backlog, owner, polled, creds, loop, known, refused, failed>>
        /\ trouble' \in 0..MaxTrouble
    BY <1>0, <1>13 DEF RemoveClient, TypeOK, Marked
  <2> QED
    BY <1>0, <2>2, <2>3, <2>4, <2>5 DEF TypeOK, Marked
<1>14. ASSUME NEW c \in Conns, AddClient(c) PROVE TypeOK'
  <2>1. owner' \in Seq(Conns) /\ 1..Len(owner') = 1..Len(owner) \cup {Id}
    BY <1>0, <1>14, AdmitFacts DEF AddClient
  <2>2. /\ clients' = clients \cup {Id} /\ regs' = regs \cup {Id}
        /\ armed' = armed \cup {Id} /\ Id \in DOMAIN owner'
        /\ DOMAIN owner \subseteq DOMAIN owner'
        /\ UNCHANGED <<hung, shut, inbox, sent, backlog, loop, ghosts, err,
                       polled, creds>>
        /\ place' = [place EXCEPT ![c] = "held"]
    BY <1>0, <1>14, <2>1 DEF AddClient, Admit
  <2>3. /\ Marked' \subseteq DOMAIN owner'
        /\ armed' \subseteq regs' /\ regs' \subseteq {Listener} \cup DOMAIN owner'
        /\ leaving' \in {0} \cup DOMAIN owner'
    BY <1>0, <2>2 DEF TypeOK, Marked
  <2> QED
    BY <1>0, <2>1, <2>2, <2>3 DEF TypeOK, Marked
<1>15. ASSUME NEW c \in Conns, AddClientFails(c) PROVE TypeOK'
  <2>1. /\ place' \in [Conns -> {"away", "queued", "held", "closed"}]
        /\ inbox' \in [Conns -> Seq(Kinds)]
        /\ hung' \subseteq Conns /\ shut' \subseteq Conns
    BY <1>0, <1>15, CloseFacts DEF AddClientFails
  <2> QED
    BY <1>0, <1>15, <2>1 DEF AddClientFails, TypeOK, Marked
<1>16. ASSUME NEW c \in Conns, Connect(c) PROVE TypeOK'
  BY <1>0, <1>16 DEF Connect, TypeOK, Marked
<1>17. ASSUME NEW c \in Conns, HangUp(c) PROVE TypeOK'
  BY <1>0, <1>17 DEF HangUp, TypeOK, Marked
<1>18. ASSUME NEW c \in Conns, NEW kind \in Kinds, Send(c, kind) PROVE TypeOK'
  BY <1>0, <1>18, SMTT(30) DEF Send, TypeOK, Marked
<1>19. CASE UNCHANGED vars
  BY <1>0, <1>19 DEF vars, TypeOK, Marked
<1>20. ServeClient \/ ReadFails \/ RearmFails => AtClient
  BY DEF ServeClient, ReadFails, RearmFails
<1> QED
  BY <1>1, <1>2, <1>3, <1>4, <1>5, <1>6, <1>7, <1>8, <1>9, <1>10, <1>11, <1>12,
     <1>13, <1>14, <1>15, <1>16, <1>17, <1>18, <1>19, <1>20
  DEF Next, Serve, Application, Peers

-----------------------------------------------------------------------------
(* Which connection an id stands for. *)

\* The rest of the backlog is queued, and does not hold its head.
LEMMA BacklogFacts ==
  ASSUME TypeOK, Owned, backlog # <<>>
  PROVE  /\ Distinct(Tail(backlog))
         /\ \A i \in 1..Len(Tail(backlog)) :
              /\ Tail(backlog)[i] \in Conns /\ Tail(backlog)[i] # Head(backlog)
              /\ place[Tail(backlog)[i]] = "queued"
<1>1. /\ Len(Tail(backlog)) = Len(backlog) - 1 /\ Len(backlog) >= 1
      /\ Len(backlog) \in Nat /\ Head(backlog) = backlog[1]
      /\ \A i \in 1..Len(Tail(backlog)) : Tail(backlog)[i] = backlog[i + 1]
      /\ \A i \in 1..Len(backlog) : backlog[i] \in Conns
  BY DEF TypeOK
<1>2. Distinct(Tail(backlog))
  BY <1>1 DEF Owned, Distinct
<1>3. ASSUME NEW i \in 1..Len(Tail(backlog))
      PROVE  /\ Tail(backlog)[i] = backlog[i + 1] /\ i + 1 \in 1..Len(backlog)
             /\ backlog[i + 1] # backlog[1]
  BY <1>1 DEF Owned, Distinct
<1>4. \A i \in 1..Len(backlog) : place[backlog[i]] = "queued"
  BY DEF Owned
<1> QED
  BY <1>1, <1>2, <1>3, <1>4

\* A connection that is taken in was with no id, and leaves the backlog.
LEMMA AdmitOwned ==
  ASSUME TypeOK, Owned, NEW c \in Conns, Admit(c),
         place' = [place EXCEPT ![c] = "held"],
         \/ place[c] = "away" /\ backlog' = backlog
         \/ backlog # <<>> /\ c = Head(backlog) /\ backlog' = Tail(backlog)
  PROVE  /\ Owned' /\ place[c] \in {"away", "queued"}
         /\ \A id \in 1..Len(owner) : owner[id] # c
<1>1. place[c] \in {"away", "queued"}
  BY NewcomerFacts
<1>2. \A id \in 1..Len(owner) :
        place[owner[id]] \in {"held", "closed"} /\ owner[id] \in Conns /\ owner[id] # c
  BY <1>1, OwnerType DEF Owned
<1>3. place'[c] = "held" /\ \A d \in Conns \ {c} : place'[d] = place[d]
  BY DEF TypeOK
<1>4. /\ Len(owner') = Id /\ owner'[Id] = c /\ Id \notin 1..Len(owner)
      /\ 1..Len(owner') = 1..Len(owner) \cup {Id}
      /\ \A id \in 1..Len(owner) : owner'[id] = owner[id]
  BY AdmitFacts
<1>5. \A id \in 1..Len(owner') : place'[owner'[id]] \in {"held", "closed"}
  BY <1>2, <1>3, <1>4
<1>6. Distinct(owner')
  <2> SUFFICES ASSUME NEW i \in 1..Len(owner'), NEW j \in 1..Len(owner'),
                      owner'[i] = owner'[j]
               PROVE  i = j
    BY DEF Distinct
  <2>1. CASE i \in 1..Len(owner) /\ j \in 1..Len(owner)
    BY <1>4, <2>1 DEF Owned, Distinct
  <2>2. CASE i = Id \/ j = Id
    BY <1>2, <1>4, <2>2
  <2> QED
    BY <1>4, <2>1, <2>2
<1>7. Distinct(backlog') /\ \A i \in 1..Len(backlog') : place'[backlog'[i]] = "queued"
  <2>1. CASE place[c] = "away" /\ backlog' = backlog
    <3>1. \A i \in 1..Len(backlog) : backlog[i] \in Conns /\ place[backlog[i]] = "queued"
      BY DEF TypeOK, Owned
    <3> QED
      BY <1>3, <2>1, <3>1 DEF Owned
  <2>2. CASE backlog # <<>> /\ c = Head(backlog) /\ backlog' = Tail(backlog)
    BY <1>3, <2>2, BacklogFacts
  <2> QED
    BY <2>1, <2>2
<1> QED
  BY <1>1, <1>2, <1>5, <1>6, <1>7 DEF Owned

\* A connection that is closed is not in the backlog, or leaves it.
LEMMA CloseOwned ==
  ASSUME TypeOK, Owned, NEW c \in Conns, Close({c}), owner' = owner,
         \/ place[c] # "queued" /\ backlog' = backlog
         \/ backlog # <<>> /\ c = Head(backlog) /\ backlog' = Tail(backlog)
  PROVE  Owned'
<1>1. place'[c] = "closed" /\ \A d \in Conns \ {c} : place'[d] = place[d]
  BY CloseFacts
<1>2. \A id \in 1..Len(owner) : owner[id] \in Conns
  BY DEF TypeOK
<1>3. \A id \in 1..Len(owner') : place'[owner'[id]] \in {"held", "closed"}
  BY <1>1, <1>2 DEF Owned
<1>4. Distinct(backlog') /\ \A i \in 1..Len(backlog') : place'[backlog'[i]] = "queued"
  <2>1. CASE place[c] # "queued" /\ backlog' = backlog
    <3>1. \A i \in 1..Len(backlog) : backlog[i] \in Conns /\ place[backlog[i]] = "queued"
      BY SMTT(30) DEF TypeOK, Owned
    <3> QED
      BY <1>1, <2>1, <3>1 DEF Owned
  <2>2. CASE backlog # <<>> /\ c = Head(backlog) /\ backlog' = Tail(backlog)
    BY <1>1, <2>2, BacklogFacts
  <2> QED
    BY <2>1, <2>2
<1> QED
  BY <1>3, <1>4 DEF Owned

LEMMA OwnedStep ==
  ASSUME IInv, [Next]_vars
  PROVE  Owned'
<1> USE DEF Trouble, Abandon
<1>0. TypeOK /\ Owned /\ Table /\ Batch
  BY DEF IInv
<1>1. CASE UNCHANGED <<owner, place, backlog>>
  BY <1>0, <1>1 DEF Owned
<1>2. CASE Crash
  BY <1>2 DEF Crash, Owned, Distinct
<1>3. CASE Accept \/ ListenerRearmFails
  <2>1. /\ backlog # <<>> /\ Admit(Head(backlog)) /\ backlog' = Tail(backlog)
        /\ place' = [place EXCEPT ![Head(backlog)] = "held"]
    BY <1>3 DEF Accept, ListenerRearmFails
  <2> QED
    BY <1>0, <2>1, NewcomerFacts, AdmitOwned
<1>4. CASE \/ AcceptCannotRegister
           \/ AcceptFails /\ ~UNCHANGED <<place, backlog>>
  <2>1. /\ backlog # <<>> /\ Close({Head(backlog)}) /\ backlog' = Tail(backlog)
        /\ owner' = owner
    BY <1>4 DEF AcceptFails, AcceptCannotRegister, table
  <2> QED
    BY <1>0, <2>1, NewcomerFacts, CloseOwned
<1>5. CASE ReapDelete
  <2>1. leaving # 0 /\ Close({owner[leaving]}) /\ UNCHANGED <<owner, backlog>>
    BY <1>5 DEF ReapDelete, table
  <2>2. owner[leaving] \in Conns /\ place[owner[leaving]] = "held"
    BY <1>0, <2>1, IdFacts DEF Table
  <2> QED
    BY <1>0, <2>1, <2>2, CloseOwned
<1>6. ASSUME NEW id \in DOMAIN owner, RemoveClient(id) PROVE Owned'
  <2>1. id \in clients /\ Close({owner[id]}) /\ UNCHANGED <<owner, backlog>>
    BY <1>6 DEF RemoveClient
  <2>2. owner[id] \in Conns /\ place[owner[id]] = "held"
    BY <1>0, <2>1, IdFacts DEF Table
  <2> QED
    BY <1>0, <2>1, <2>2, CloseOwned
<1>7. ASSUME NEW c \in Conns, AddClient(c) PROVE Owned'
  BY <1>0, <1>7, AdmitOwned DEF AddClient
<1>8. ASSUME NEW c \in Conns, AddClientFails(c) PROVE Owned'
  <2>1. place[c] = "away" /\ Close({c}) /\ UNCHANGED <<owner, backlog>>
    BY <1>8 DEF AddClientFails, table
  <2> QED
    BY <1>0, <2>1, CloseOwned
<1>9. ASSUME NEW c \in Conns, Connect(c) PROVE Owned'
  <2>1. /\ place[c] = "away" /\ place' = [place EXCEPT ![c] = "queued"]
        /\ backlog' = Append(backlog, c) /\ owner' = owner
    BY <1>9 DEF Connect, table
  <2>2. place'[c] = "queued" /\ \A d \in Conns \ {c} : place'[d] = place[d]
    BY <1>0, <2>1 DEF TypeOK
  <2>3. \A id \in 1..Len(owner) : owner[id] \in Conns /\ owner[id] # c
    BY <1>0, <2>1, OwnerType DEF Owned
  <2>4. \A i \in 1..Len(backlog) : backlog[i] \in Conns /\ backlog[i] # c
    BY <1>0, <2>1, SMTT(30) DEF TypeOK, Owned
  <2>5. backlog \in Seq(Conns)
    BY <1>0 DEF TypeOK
  <2>6. /\ Len(backlog') = Len(backlog) + 1 /\ backlog'[Len(backlog) + 1] = c
        /\ \A i \in 1..Len(backlog) : backlog'[i] = backlog[i]
    BY <2>1, <2>5
  <2>7. Distinct(backlog')
    BY <1>0, <2>4, <2>5, <2>6 DEF Owned, Distinct
  <2>8. \A i \in 1..Len(backlog') : place'[backlog'[i]] = "queued"
    BY <1>0, <2>2, <2>4, <2>5, <2>6 DEF Owned
  <2>9. \A id \in 1..Len(owner') : place'[owner'[id]] \in {"held", "closed"}
    BY <1>0, <2>1, <2>2, <2>3 DEF Owned
  <2> QED
    BY <1>0, <2>1, <2>7, <2>8, <2>9 DEF Owned
<1>10. CASE \/ Wait \/ WaitFindsNothing \/ AcceptFails \/ ServeClient \/ ReadFails
            \/ RearmFails \/ EventsDone \/ ReapRemove \/ NextRound
            \/ \E listening \in BOOLEAN : Start(listening)
            \/ \E b \in BOOLEAN : DispatchEvents(b)
            \/ \E id \in DOMAIN owner : RaiseError(id)
            \/ \E c \in Conns : HangUp(c) \/ \E kind \in Kinds : Send(c, kind)
            \/ UNCHANGED vars
  <2>1. CASE AcceptFails
    BY <1>1, <1>4, <2>1 DEF AcceptFails, table
  <2>2. CASE ~AcceptFails
    <3>1. UNCHANGED <<owner, place, backlog>>
      BY <1>10, <2>2
      DEF Start, Wait, WaitFindsNothing, ServeClient, ReadFails, RearmFails, EventsDone,
          ReapRemove, NextRound, DispatchEvents, RaiseError, HangUp, Send, vars, conns, table
    <3> QED
      BY <1>1, <3>1
  <2> QED
    BY <2>1, <2>2
<1> QED
  BY <1>2, <1>3, <1>4, <1>5, <1>6, <1>7, <1>8, <1>9, <1>10
  DEF Next, Serve, Application, Peers

-----------------------------------------------------------------------------
(* The table, and what the poller has. *)

\* What is registered is what is taken in.
LEMMA AdmitTable ==
  ASSUME TypeOK, Owned, Table, NEW c \in Conns, Admit(c),
         place' = [place EXCEPT ![c] = "held"],
         \/ place[c] = "away" /\ backlog' = backlog
         \/ backlog # <<>> /\ c = Head(backlog) /\ backlog' = Tail(backlog),
         pc # "reap", pc' # "down", leaving' = leaving
  PROVE  Table'
<1>1. leaving = 0 /\ leaving' = 0
  BY DEF Table
<1>2. \A id \in 1..Len(owner) : owner[id] # c /\ owner[id] \in Conns
  BY AdmitOwned, OwnerType
<1>3. /\ owner'[Id] = c /\ Id # 0
      /\ \A id \in 1..Len(owner) : owner'[id] = owner[id]
  BY AdmitFacts
<1>4. place'[c] = "held" /\ \A d \in Conns \ {c} : place'[d] = place[d]
  BY DEF TypeOK
<1>5. clients' = clients \cup {Id} /\ regs' = regs \cup {Id}
  BY DEF Admit
<1>6. ASSUME NEW id \in clients' PROVE place'[owner'[id]] = "held"
  <2>1. CASE id = Id
    BY <1>3, <1>4, <2>1
  <2>2. CASE id \in clients
    <3>1. id \in 1..Len(owner) /\ place[owner[id]] = "held"
      BY <2>2, IdFacts DEF Table
    <3> QED
      BY <1>2, <1>3, <1>4, <3>1
  <2> QED
    BY <1>5, <1>6, <2>1, <2>2
<1>7. regs' \ {Listener} = clients' \cup ({leaving'} \ {0})
  BY <1>1, <1>3, <1>5 DEF Table, Listener
<1> QED
  BY <1>1, <1>6, <1>7 DEF Table

\* Closing a stream that is not held leaves the table alone.
LEMMA CloseTable ==
  ASSUME TypeOK, Table, NEW c \in Conns, Close({c}), place[c] # "held",
         pc # "reap", pc' # "down", UNCHANGED <<clients, owner, regs, leaving>>
  PROVE  Table'
<1>1. leaving = 0 /\ leaving' = 0
  BY DEF Table
<1>2. \A d \in Conns \ {c} : place'[d] = place[d]
  BY CloseFacts
<1>3. \A id \in clients : place'[owner[id]] = "held"
  BY <1>2, IdFacts DEF Table
<1> QED
  BY <1>1, <1>3 DEF Table

LEMMA TableStep ==
  ASSUME IInv, [Next]_vars
  PROVE  Table'
<1> USE DEF Trouble, Abandon, conns, table, poller, loop
<1>0. TypeOK /\ Owned /\ Table /\ Batch
  BY DEF IInv
<1>1. ASSUME UNCHANGED <<place, backlog, clients, owner, regs, leaving>>,
             pc # "reap", pc' # "down"
      PROVE  Table'
  BY <1>0, <1>1 DEF Table
<1>2. ASSUME NEW listening \in BOOLEAN, Start(listening) PROVE Table'
  <2>1. leaving = 0 /\ clients = {} /\ leaving' = 0 /\ clients' = {} /\ pc' = "app"
    BY <1>0, <1>2 DEF Start, Table
  <2>2. regs' \subseteq {Listener}
    BY <1>2 DEF Start
  <2> QED
    BY <2>1, <2>2 DEF Table
<1>3. CASE Crash
  BY <1>3 DEF Crash, Table
<1>4. CASE \/ Wait \/ WaitFindsNothing \/ ServeClient \/ ReadFails \/ RearmFails
           \/ \E b \in BOOLEAN : DispatchEvents(b)
  <2>1. /\ UNCHANGED <<place, backlog, clients, owner, regs, leaving>>
        /\ pc # "reap" /\ pc' # "down"
    BY <1>4 DEF Wait, WaitFindsNothing, ServeClient, ReadFails, RearmFails,
                DispatchEvents, AtClient
  <2> QED
    BY <1>1, <2>1
<1>5. CASE Accept \/ ListenerRearmFails
  <2>1. /\ backlog # <<>> /\ Admit(Head(backlog)) /\ backlog' = Tail(backlog)
        /\ place' = [place EXCEPT ![Head(backlog)] = "held"]
        /\ pc # "reap" /\ pc' # "down" /\ leaving' = leaving
    BY <1>5 DEF Accept, ListenerRearmFails, AtListener
  <2> QED
    BY <1>0, <2>1, NewcomerFacts, AdmitTable
<1>6. CASE AcceptFails \/ AcceptCannotRegister
  <2>1. /\ backlog # <<>> /\ UNCHANGED <<clients, owner, regs, leaving>>
        /\ pc # "reap" /\ pc' # "down"
        /\ UNCHANGED <<place, backlog>> \/ Close({Head(backlog)})
    BY <1>6 DEF AcceptFails, AcceptCannotRegister, AtListener
  <2>2. Head(backlog) \in Conns /\ place[Head(backlog)] # "held"
    BY <1>0, <2>1, NewcomerFacts
  <2> QED
    BY <1>0, <1>1, <2>1, <2>2, CloseTable
<1>7. CASE EventsDone
  <2>1. /\ leaving = 0
        /\ UNCHANGED <<place, backlog, clients, owner, regs, leaving>> /\ pc' = "reap"
    BY <1>0, <1>7 DEF EventsDone, Table
  <2> QED
    BY <1>0, <2>1 DEF Table
<1>8. CASE NextRound
  <2>1. /\ leaving = 0
        /\ UNCHANGED <<place, backlog, clients, owner, regs, leaving>> /\ pc' = "wait"
    BY <1>0, <1>8 DEF NextRound, Table
  <2> QED
    BY <1>0, <2>1 DEF Table
<1>9. CASE ReapRemove
  <2>1. /\ dead # <<>> /\ leaving = 0 /\ leaving' = Head(dead) /\ pc = "reap"
        /\ clients' = clients \ {Head(dead)}
        /\ UNCHANGED <<place, owner, backlog, regs, pc, dead>>
    BY <1>9 DEF ReapRemove
  <2>2. Head(dead) \in clients /\ Head(dead) # 0
    BY <1>0, <2>1, ReapedFacts, IdFacts
  <2> HIDE DEF conns, table, poller, loop
  <2> QED
    BY <1>0, <2>1, <2>2 DEF Table
<1>10. CASE ReapDelete
  <2> DEFINE c == owner[leaving]
  <2>1. /\ leaving # 0 /\ leaving' = 0 /\ Close({c}) /\ regs' = regs \ {leaving}
        /\ UNCHANGED <<owner, clients, backlog, pc>>
    BY <1>10 DEF ReapDelete
  <2>2. /\ leaving \notin clients /\ pc = "reap"
        /\ leaving \in 1..Len(owner) /\ c \in Conns
    BY <1>0, <2>1, IdFacts DEF Table
  <2>3. \A id \in clients : id \in 1..Len(owner) /\ owner[id] \in Conns \ {c}
    BY <1>0, <2>1, <2>2, IdFacts DEF Owned, Distinct
  <2>4. \A d \in Conns \ {c} : place'[d] = place[d]
    BY <1>0, <2>1, <2>2, CloseFacts
  <2> HIDE DEF c
  <2>5. \A id \in clients' : place'[owner'[id]] = "held"
    BY <1>0, <2>1, <2>3, <2>4 DEF Table
  <2>6. regs' \ {Listener} = clients'
    BY <1>0, <2>1, <2>2 DEF Table
  <2> QED
    BY <2>1, <2>2, <2>5, <2>6 DEF Table
<1>11. ASSUME NEW id \in DOMAIN owner, RaiseError(id) PROVE Table'
  BY <1>0, <1>11 DEF RaiseError, Table
<1>12. ASSUME NEW id \in DOMAIN owner, RemoveClient(id) PROVE Table'
  <2> DEFINE c == owner[id]
  <2>1. /\ id \in clients /\ pc = "app" /\ clients' = clients \ {id}
        /\ regs' = regs \ {id} /\ Close({c})
        /\ UNCHANGED <<owner, backlog, leaving, pc>>
    BY <1>12 DEF RemoveClient
  <2>2. leaving = 0 /\ c \in Conns /\ id \in 1..Len(owner) /\ id # 0
    BY <1>0, <2>1, IdFacts DEF Table
  <2>3. \A i \in clients' : i \in 1..Len(owner) /\ owner[i] \in Conns \ {c}
    BY <1>0, <2>1, <2>2, IdFacts DEF Owned, Distinct
  <2>4. \A d \in Conns \ {c} : place'[d] = place[d]
    BY <1>0, <2>1, <2>2, CloseFacts
  <2> HIDE DEF c
  <2>5. \A i \in clients' : place'[owner'[i]] = "held"
    BY <1>0, <2>1, <2>3, <2>4 DEF Table
  <2>6. regs' \ {Listener} = clients'
    BY <1>0, <2>1, <2>2 DEF Table, Listener
  <2> QED
    BY <2>1, <2>2, <2>5, <2>6 DEF Table
<1>13. ASSUME NEW c \in Conns, AddClient(c) PROVE Table'
  <2>1. /\ place[c] = "away" /\ backlog' = backlog /\ Admit(c)
        /\ place' = [place EXCEPT ![c] = "held"]
        /\ pc # "reap" /\ pc' # "down" /\ leaving' = leaving
    BY <1>13 DEF AddClient
  <2> QED
    BY <1>0, <2>1, AdmitTable
<1>14. ASSUME NEW c \in Conns, AddClientFails(c) PROVE Table'
  <2>1. /\ place[c] # "held" /\ Close({c}) /\ pc # "reap" /\ pc' # "down"
        /\ UNCHANGED <<clients, owner, regs, leaving>>
    BY <1>14 DEF AddClientFails
  <2> QED
    BY <1>0, <2>1, CloseTable
<1>15. ASSUME NEW c \in Conns, Connect(c) PROVE Table'
  <2>1. /\ place[c] = "away" /\ place' = [place EXCEPT ![c] = "queued"]
        /\ UNCHANGED <<clients, owner, regs, leaving, pc, dead>> /\ pc # "down"
    BY <1>15 DEF Connect
  <2>2. \A d \in Conns \ {c} : place'[d] = place[d]
    BY <1>0, <2>1 DEF TypeOK
  <2>3. \A id \in clients \cup ({leaving} \ {0}) :
          owner[id] \in Conns /\ place[owner[id]] = "held"
    BY <1>0, IdFacts DEF Table
  <2> HIDE DEF conns, table, poller, loop
  <2> QED
    BY <1>0, <2>1, <2>2, <2>3 DEF Table
<1>16. ASSUME NEW c \in Conns, HangUp(c) PROVE Table'
  BY <1>0, <1>16 DEF HangUp, Table
<1>17. ASSUME NEW c \in Conns, NEW kind \in Kinds, Send(c, kind) PROVE Table'
  BY <1>0, <1>17 DEF Send, Table
<1>18. CASE UNCHANGED vars
  BY <1>0, <1>18 DEF vars, Table
<1> QED
  BY <1>2, <1>3, <1>4, <1>5, <1>6, <1>7, <1>8, <1>9, <1>10, <1>11, <1>12, <1>13,
     <1>14, <1>15, <1>16, <1>17, <1>18
  DEF Next, Serve, Application, Peers

-----------------------------------------------------------------------------
(* How often the objects of a client were destroyed. *)

\* There are no more ids than connections: each is given one at most.
LEMMA IdsBounded ==
  ASSUME TypeOK, Owned
  PROVE  Len(owner) <= Cardinality(Conns)
<1>1. owner \in [1..Len(owner) -> Conns] /\ Len(owner) \in Nat
  BY DEF TypeOK
<1>2. owner \in Injection(1..Len(owner), Conns)
  BY <1>1 DEF Owned, Distinct, Injection, IsInjective
<1>3. Cardinality(1..Len(owner)) =
        IF 1 > Len(owner) THEN 0 ELSE Len(owner) - 1 + 1
  BY <1>1, FS_Interval, SMTT(30)
<1>4. IsFiniteSet(Conns) /\ Cardinality(1..Len(owner)) = Len(owner)
  BY <1>1, <1>3, LoopAssumption
<1> QED
  BY <1>2, <1>4, FS_Injection

LEMMA CountedStep ==
  ASSUME IInv, [Next]_vars
  PROVE  Counted'
<1> USE DEF Abandon, conns, table, poller, loop, ghosts
<1>0. TypeOK /\ Table /\ Batch /\ Counted
  BY DEF IInv
<1>1. CASE UNCHANGED <<cleaned, owner, clients>>
  BY <1>0, <1>1 DEF Counted
<1>2. CASE Crash
  BY <1>2 DEF Crash, Never, Counted
<1>3. ASSUME NEW c \in Conns, Admit(c), cleaned' = cleaned PROVE Counted'
  <2>1. /\ 1..Len(owner') = 1..Len(owner) \cup {Id} /\ Id \notin 1..Len(owner)
        /\ clients' = clients \cup {Id}
    BY <1>0, <1>3, AdmitFacts DEF Admit
  <2> QED
    BY <1>0, <1>3, <2>1 DEF Counted
<1>4. ASSUME NEW id \in clients, Cleans(id), clients' = clients \ {id}, owner' = owner
      PROVE  Counted'
  <2>1. id \in 1..Len(owner)
    BY <1>0, IdFacts
  <2>2. \A i \in 1..Cardinality(Conns) :
          cleaned'[i] = IF i = id THEN cleaned[i] + 1 ELSE cleaned[i]
    BY <1>0, <1>4, CleansFacts DEF TypeOK
  <2> QED
    BY <1>0, <1>4, <2>1, <2>2 DEF Counted
<1>5. CASE \/ Wait \/ WaitFindsNothing \/ AcceptFails \/ AcceptCannotRegister
           \/ ServeClient \/ ReadFails \/ RearmFails
           \/ EventsDone \/ ReapDelete \/ NextRound
           \/ \E listening \in BOOLEAN : Start(listening)
           \/ \E b \in BOOLEAN : DispatchEvents(b)
           \/ \E id \in DOMAIN owner : RaiseError(id)
           \/ \E c \in Conns : AddClientFails(c) \/ Connect(c) \/ HangUp(c)
           \/ \E c \in Conns, kind \in Kinds : Send(c, kind)
           \/ UNCHANGED vars
  <2>1. UNCHANGED <<cleaned, owner, clients>>
    BY <1>5
    DEF Start, Wait, WaitFindsNothing, AcceptFails, AcceptCannotRegister, ServeClient,
        ReadFails, RearmFails, EventsDone, ReapDelete, NextRound, DispatchEvents,
        RaiseError, AddClientFails, Connect, HangUp, Send, vars
  <2> QED
    BY <1>1, <2>1
<1>6. CASE Accept \/ ListenerRearmFails
  <2>1. backlog # <<>> /\ Admit(Head(backlog)) /\ cleaned' = cleaned
    BY <1>6 DEF Accept, ListenerRearmFails
  <2>2. Head(backlog) \in Conns
    BY <2>1, <1>0 DEF TypeOK
  <2> QED
    BY <1>3, <2>1, <2>2
<1>7. ASSUME NEW c \in Conns, AddClient(c) PROVE Counted'
  BY <1>3, <1>7 DEF AddClient
<1>8. CASE ReapRemove
  <2>1. Head(dead) \in clients
    BY <1>0, <1>8, ReapedFacts DEF ReapRemove
  <2> QED
    BY <1>4, <1>8, <2>1 DEF ReapRemove
<1>9. ASSUME NEW id \in DOMAIN owner, RemoveClient(id) PROVE Counted'
  BY <1>4, <1>9 DEF RemoveClient
<1> QED
  BY <1>2, <1>5, <1>6, <1>7, <1>8, <1>9 DEF Next, Serve, Application, Peers

-----------------------------------------------------------------------------
(* The batch: what is left of it, and who was found dead. *)

\* Without a batch nobody is in it.
LEMMA NoBatch ==
  ASSUME events' = <<>>, dead' = <<>>
  PROVE  Batch'
<1>1. ToSet(events') = {} /\ ToSet(dead') = {} /\ Distinct(events') /\ Distinct(dead')
  BY EmptySet
<1> HIDE DEF Distinct
<1> QED
  BY <1>1 DEF Batch

(* The rest of a batch: its clients stay in the table, and what they have  *)
(* to say is still there.                                                  *)
LEMMA RestOfBatch ==
  ASSUME TypeOK, Owned, Table, Batch,
         events # <<>>, pc = "events", pc' = pc, leaving' = leaving,
         events' = Tail(events),
         \/ dead' = dead
         \/ Head(events) \in clients /\ dead' = Append(dead, Head(events)),
         clients \subseteq clients',
         \A id \in clients :
           /\ owner'[id] = owner[id]
           /\ id # Head(events) /\ Readable(owner[id]) => Readable(owner[id])'
  PROVE  Batch'
<1> HIDE DEF Distinct
<1>1. events \in Seq(Nat) /\ dead \in Seq(Nat)
  BY DEF TypeOK
<1>2. /\ ToSet(events') \subseteq ToSet(events) /\ Head(events) \in ToSet(events)
      /\ Head(events) \notin ToSet(events') /\ Distinct(events')
  BY <1>1, TailSet DEF Batch
<1>3. /\ Distinct(dead') /\ ToSet(events') \cap ToSet(dead') = {}
      /\ ToSet(dead') \subseteq clients \cup ({leaving} \ {0})
  <2>1. CASE dead' = dead
    BY <1>2, <2>1 DEF Batch
  <2>2. CASE Head(events) \in clients /\ dead' = Append(dead, Head(events))
    <3>1. Head(events) \in Nat /\ Head(events) \notin ToSet(dead)
      BY <1>2, <2>2, IdFacts DEF Batch
    <3>2. Distinct(dead') /\ ToSet(dead') = ToSet(dead) \cup {Head(events)}
      BY <1>1, <2>2, <3>1, AppendSet DEF Batch
    <3> QED
      BY <1>2, <2>2, <3>2 DEF Batch
  <2> QED
    BY <2>1, <2>2
<1>4. ASSUME NEW id \in ToSet(events') \ {Listener}
      PROVE  id \in clients' /\ Readable(owner[id])' /\ owner'[id] = owner[id]
  <2>1. id \in clients /\ id # Head(events) /\ Readable(owner[id])
    BY <1>2, <1>4 DEF Batch
  <2> QED
    BY <2>1
<1>5. \A id \in ToSet(events') \ {Listener} : id \in clients' /\ Readable(owner[id])'
  BY <1>4
<1> QED
  BY <1>2, <1>3, <1>5 DEF Batch

\* What a client has to say is not lost when another stream is closed.
LEMMA CloseReadable ==
  ASSUME TypeOK, NEW c \in Conns, Close({c}), NEW d \in Conns \ {c}
  PROVE  Readable(d)' <=> Readable(d)
  BY CloseFacts DEF Readable

LEMMA BatchStep ==
  ASSUME IInv, [Next]_vars
  PROVE  Batch'
<1> USE DEF Abandon, conns, table, poller, loop
<1> HIDE DEF Distinct
<1>0. TypeOK /\ Owned /\ Table /\ Batch
  BY DEF IInv
<1>1. ASSUME UNCHANGED <<events, dead, leaving, clients, owner>>,
             pc' # "events" => events = <<>>,
             pc' \notin {"events", "reap"} => dead = <<>>,
             \A c \in Conns : Readable(c) => Readable(c)'
      PROVE  Batch'
  <2>1. \A id \in ToSet(events) \ {Listener} : id \in clients /\ Readable(owner[id])'
    BY <1>0, <1>1, IdFacts DEF Batch
  <2> QED
    BY <1>0, <1>1, <2>1 DEF Batch
<1>2. CASE pc \in {"down", "app"} /\ UNCHANGED <<events, dead>>
  BY <1>0, <1>2, NoBatch DEF Batch
<1>3. CASE Crash \/ AcceptCannotRegister \/ ListenerRearmFails \/ RearmFails
  BY <1>3, NoBatch DEF Crash, AcceptCannotRegister, ListenerRearmFails, RearmFails
<1>4. CASE Wait
  <2>1. ToSet(events') = Ready /\ Distinct(events')
    BY <1>0, <1>4, ReadyFinite, OrderedSet DEF Wait
  <2>2. dead' = <<>> /\ UNCHANGED <<clients, owner, inbox, hung, shut>> /\ pc' = "events"
    BY <1>4 DEF Wait
  <2>3. ToSet(dead') = {} /\ Distinct(dead')
    BY <2>2, EmptySet
  <2>4. \A k \in Ready \ {Listener} : k \in clients /\ Readable(owner[k])
    <3>1. leaving = 0
      BY <1>0, <1>4 DEF Table, Wait
    <3>2. armed \ {Listener} \subseteq clients
      BY <1>0, <3>1 DEF TypeOK, Table
    <3> QED
      BY <3>2 DEF Ready
  <2>5. \A k \in ToSet(events') \ {Listener} : k \in clients' /\ Readable(owner[k])'
    BY <2>1, <2>2, <2>4 DEF Readable
  <2> QED
    BY <2>1, <2>2, <2>3, <2>5 DEF Batch
<1>5. CASE WaitFindsNothing \/ EventsDone \/ NextRound \/ UNCHANGED vars
  <2>1. /\ UNCHANGED <<events, dead, leaving, clients, owner, inbox, hung, shut>>
        /\ pc' # "events" => events = <<>>
        /\ pc' \notin {"events", "reap"} => dead = <<>>
    BY <1>0, <1>5 DEF WaitFindsNothing, EventsDone, NextRound, vars, Batch
  <2> QED
    BY <1>1, <2>1 DEF Readable
<1>6. CASE Accept
  <2>1. /\ events # <<>> /\ pc = "events" /\ Head(backlog) \in Conns
        /\ events' = Tail(events) /\ Admit(Head(backlog))
        /\ UNCHANGED <<pc, leaving, dead, inbox, hung, shut>>
    BY <1>0, <1>6, NewcomerFacts DEF Accept, AtListener
  <2>2. \A id \in clients : id \in 1..Len(owner) /\ owner'[id] = owner[id]
    BY <1>0, <2>1, AdmitFacts, IdFacts
  <2>3. clients \subseteq clients'
    BY <2>1 DEF Admit
  <2>4. \A id \in clients : Readable(owner[id]) => Readable(owner[id])'
    BY <2>1, <2>2 DEF Readable
  <2> QED
    BY <1>0, <2>1, <2>2, <2>3, <2>4, RestOfBatch
<1>7. CASE AcceptFails
  <2> DEFINE c == Head(backlog)
  <2>1. /\ events # <<>> /\ pc = "events" /\ c \in Conns /\ place[c] = "queued"
        /\ events' = Tail(events)
        /\ UNCHANGED <<pc, leaving, dead, clients, owner>>
        /\ UNCHANGED <<inbox, hung, shut>> \/ Close({c})
    BY <1>0, <1>7, NewcomerFacts DEF AcceptFails, AtListener
  <2>2. \A id \in clients : owner[id] \in Conns \ {c}
    BY <1>0, <2>1, IdFacts DEF Table
  <2> HIDE DEF c
  <2>3. \A id \in clients : Readable(owner[id]) => Readable(owner[id])'
    <3>1. CASE UNCHANGED <<inbox, hung, shut>>
      BY <2>1, <3>1 DEF Readable
    <3>2. CASE Close({c})
      <4>1. \A d \in Conns \ {c} : /\ inbox'[d] = inbox[d]
                                   /\ d \in hung' \cup shut' <=> d \in hung \cup shut
        BY <1>0, <2>1, <3>2, CloseFacts
      <4> QED
        BY <2>1, <2>2, <4>1 DEF Readable
    <3> QED
      BY <2>1, <3>1, <3>2
  <2> QED
    BY <1>0, <2>1, <2>3, RestOfBatch
<1>8. CASE ServeClient \/ ReadFails
  <2> DEFINE id == Head(events)
  <2>1. AtClient
    BY <1>8 DEF ServeClient, ReadFails
  <2>2. id \in clients /\ id \in 1..Len(owner) /\ owner[id] \in Conns
    BY <1>0, <2>1, ServedFacts
  <2>3. /\ events # <<>> /\ pc = "events" /\ events' = Tail(events)
        /\ dead' = dead \/ dead' = Append(dead, id)
        /\ inbox' = [inbox EXCEPT ![owner[id]] = <<>>] /\ shut \subseteq shut'
        /\ UNCHANGED <<pc, leaving, clients, owner, hung>>
    BY <1>8, <2>1 DEF ServeClient, ReadFails, AtClient, DispatchClient, Settle
  <2>4. \A i \in clients \ {id} : owner[i] \in Conns /\ owner[i] # owner[id]
    BY <1>0, <2>2, IdFacts DEF Owned, Distinct
  <2>5. \A d \in Conns \ {owner[id]} : inbox'[d] = inbox[d]
    BY <1>0, <2>3 DEF TypeOK
  <2>6. \A i \in clients \ {id} : Readable(owner[i]) => Readable(owner[i])'
    BY <2>3, <2>4, <2>5 DEF Readable
  <2> QED
    BY <1>0, <2>2, <2>3, <2>6, RestOfBatch
<1>9. CASE ReapRemove
  <2>1. /\ dead # <<>> /\ leaving = 0 /\ leaving' = Head(dead) /\ pc = "reap"
        /\ clients' = clients \ {Head(dead)}
        /\ UNCHANGED <<owner, inbox, hung, shut, pc, dead, events>>
    BY <1>9 DEF ReapRemove
  <2>2. Head(dead) \in clients /\ Head(dead) # 0
    BY <1>0, <2>1, ReapedFacts, IdFacts
  <2>3. events = <<>> /\ ToSet(events) = {} /\ ToSet(dead) \subseteq clients
    BY <1>0, <2>1, EmptySet DEF Batch
  <2> QED
    BY <1>0, <2>1, <2>2, <2>3 DEF Batch
<1>10. CASE ReapDelete
  <2>1. /\ leaving # 0 /\ leaving' = 0 /\ dead' = Tail(dead)
        /\ UNCHANGED <<clients, pc, events>>
    BY <1>10 DEF ReapDelete
  <2>2. pc = "reap" /\ dead # <<>> /\ Head(dead) = leaving /\ dead \in Seq(Nat)
    BY <1>0, <2>1 DEF Table, TypeOK
  <2>3. /\ Distinct(Tail(dead)) /\ Head(dead) \notin ToSet(Tail(dead))
        /\ ToSet(Tail(dead)) \subseteq ToSet(dead)
    BY <1>0, <2>2, TailSet DEF Batch
  <2>4. events = <<>> /\ ToSet(events) = {}
    BY <1>0, <2>2, EmptySet DEF Batch
  <2> QED
    BY <1>0, <2>1, <2>2, <2>3, <2>4 DEF Batch
<1>11. ASSUME NEW id \in DOMAIN owner, RaiseError(id) PROVE Batch'
  <2>1. UNCHANGED <<events, dead, leaving, clients, owner, pc, inbox, hung, shut>>
    BY <1>11 DEF RaiseError
  <2> QED
    BY <1>0, <1>1, <2>1 DEF Readable, Batch
<1>12. CASE \/ \E listening \in BOOLEAN : Start(listening)
            \/ \E b \in BOOLEAN : DispatchEvents(b)
            \/ \E id \in DOMAIN owner : RemoveClient(id)
            \/ \E c \in Conns : AddClient(c) \/ AddClientFails(c)
  <2>1. pc \in {"down", "app"} /\ UNCHANGED <<events, dead>>
    BY <1>12 DEF Start, DispatchEvents, RemoveClient, AddClient, AddClientFails
  <2> QED
    BY <1>2, <2>1
<1>13. ASSUME NEW c \in Conns,
              Connect(c) \/ HangUp(c) \/ \E kind \in Kinds : Send(c, kind)
       PROVE  Batch'
  <2>1. /\ UNCHANGED <<events, dead, leaving, clients, owner, pc, shut>>
        /\ hung \subseteq hung'
    BY <1>13 DEF Connect, HangUp, Send
  <2>2. \/ inbox' = inbox
        \/ \E kind \in Kinds : inbox' = [inbox EXCEPT ![c] = Append(@, kind)]
    BY <1>13 DEF Connect, HangUp, Send
  <2>3. \A d \in Conns : inbox[d] # <<>> => inbox'[d] # <<>>
    BY <1>0, <2>2 DEF TypeOK
  <2>4. \A d \in Conns : Readable(d) => Readable(d)'
    BY <2>1, <2>3 DEF Readable
  <2> QED
    BY <1>0, <1>1, <2>1, <2>4 DEF Batch
<1> QED
  BY <1>3, <1>4, <1>5, <1>6, <1>7, <1>8, <1>9, <1>10, <1>11, <1>12, <1>13
  DEF Next, Serve, Application, Peers

-----------------------------------------------------------------------------
(* The keys that wake the loop. *)

LEMMA WakesStep ==
  ASSUME IInv, [Next]_vars
  PROVE  Wakes'
<1> USE DEF Abandon, conns, table, poller, loop, ghosts
<1> HIDE DEF Distinct
<1>0. TypeOK /\ Owned /\ Table /\ Batch /\ Wakes
  BY DEF IInv
<1>1. ASSUME UNCHANGED <<regs, armed, events, dead, clients, failed>>,
             backlog' # <<>> => backlog # <<>> \/ Listener \in regs
      PROVE  Wakes'
  BY <1>0, <1>1 DEF Wakes
<1>2. ASSUME NEW listening \in BOOLEAN, Start(listening) PROVE Wakes'
  <2>1. clients' = {} /\ backlog' = <<>> /\ armed' = regs'
    BY <1>0, <1>2 DEF Start, Table
  <2> QED
    BY <2>1 DEF Wakes
<1>3. CASE Crash
  BY <1>3 DEF Crash, Wakes
<1>4. CASE Wait
  <2>1. ToSet(events') = Ready
    BY <1>0, <1>4, ReadyFinite, OrderedSet DEF Wait
  <2>2. /\ armed' = armed \ Ready
        /\ UNCHANGED <<regs, clients, failed, backlog>>
    BY <1>4 DEF Wait
  <2>3. ToSet(events) = {} /\ ToSet(dead) = {}
    BY <1>0, <1>4, EmptySet DEF Wait, Batch
  <2> QED
    BY <1>0, <2>1, <2>2, <2>3 DEF Wakes
<1>5. CASE Accept \/ AcceptFails
  <2>1. /\ events # <<>> /\ Head(events) = Listener /\ events' = Tail(events)
        /\ dead' = dead /\ failed' = failed /\ backlog # <<>>
    BY <1>5 DEF Accept, AcceptFails, AtListener
  <2>2. \/ /\ armed' = armed \cup {Listener, Id} /\ clients' = clients \cup {Id}
           /\ regs' = regs \cup {Id}
        \/ armed' = armed \cup {Listener} /\ UNCHANGED <<clients, regs>>
    BY <1>5 DEF Accept, AcceptFails, Admit
  <2>3. ToSet(events) = ToSet(events') \cup {Listener}
    BY <1>0, <2>1, TailSet DEF TypeOK
  <2>4. Id \in Nat \ {0}
    BY <1>0 DEF TypeOK, Id
  <2>5. \A id \in clients : id # Listener
    BY <1>0, IdFacts DEF Listener
  <2>6. CASE armed' = armed \cup {Listener} /\ UNCHANGED <<clients, regs>>
    BY <1>0, <2>1, <2>3, <2>6 DEF Wakes
  <2>7. CASE /\ armed' = armed \cup {Listener, Id} /\ clients' = clients \cup {Id}
             /\ regs' = regs \cup {Id}
    BY <1>0, <2>1, <2>3, <2>7 DEF Wakes
  <2> QED
    BY <2>2, <2>6, <2>7
<1>6. CASE AcceptCannotRegister \/ ListenerRearmFails \/ RearmFails
  <2>1. failed' = TRUE /\ regs \subseteq regs' /\ (backlog' # <<>> => backlog # <<>>)
    BY <1>6 DEF AcceptCannotRegister, ListenerRearmFails, RearmFails, Admit
  <2> QED
    BY <1>0, <2>1 DEF Wakes
<1>7. CASE ServeClient \/ ReadFails
  <2> DEFINE id == Head(events)
  <2>1. AtClient
    BY <1>7 DEF ServeClient, ReadFails
  <2>2. id \in Nat /\ id # Listener /\ ToSet(events) = ToSet(Tail(events)) \cup {id}
    BY <1>0, <2>1, ServedFacts, TailSet DEF TypeOK, AtClient
  <2>3. /\ events' = Tail(events)
        /\ UNCHANGED <<regs, clients, failed, backlog>>
        /\ \/ dead' = dead /\ armed' = armed \cup {id}
           \/ dead' = Append(dead, id) /\ armed' = armed
    BY <1>7 DEF ServeClient, ReadFails, Settle
  <2>4. ToSet(Append(dead, id)) = ToSet(dead) \cup {id}
    BY <1>0, <2>2, AppendSet DEF TypeOK
  <2> HIDE DEF id
  <2> QED
    BY <1>0, <2>2, <2>3, <2>4 DEF Wakes
<1>8. CASE ReapRemove
  <2>1. /\ clients' \subseteq clients
        /\ UNCHANGED <<regs, armed, events, dead, failed, backlog>>
    BY <1>8 DEF ReapRemove
  <2> QED
    BY <1>0, <2>1 DEF Wakes
<1>9. CASE ReapDelete
  <2>1. /\ leaving # 0 /\ regs' = regs \ {leaving} /\ armed' = armed \ {leaving}
        /\ dead' = Tail(dead) /\ UNCHANGED <<events, clients, backlog, failed>>
    BY <1>9 DEF ReapDelete
  <2>2. /\ leaving \notin clients /\ dead # <<>> /\ Head(dead) = leaving
        /\ dead \in Seq(Nat)
    BY <1>0, <2>1 DEF Table, TypeOK
  <2>3. ToSet(dead) = ToSet(Tail(dead)) \cup {leaving}
    BY <2>2, TailSet
  <2> QED
    BY <1>0, <2>1, <2>2, <2>3 DEF Wakes, Listener
<1>10. ASSUME NEW id \in DOMAIN owner, RemoveClient(id) PROVE Wakes'
  <2>1. id # Listener
    BY <1>0, <1>10, IdFacts DEF RemoveClient, Listener
  <2>2. /\ regs' = regs \ {id} /\ armed' = armed \ {id} /\ clients' = clients \ {id}
        /\ UNCHANGED <<events, dead, failed, backlog>>
    BY <1>10 DEF RemoveClient
  <2> QED
    BY <1>0, <2>1, <2>2 DEF Wakes
<1>11. ASSUME NEW c \in Conns, AddClient(c) PROVE Wakes'
  <2>1. Id # Listener
    BY <1>0 DEF TypeOK, Id, Listener
  <2>2. /\ regs' = regs \cup {Id} /\ armed' = armed \cup {Id}
        /\ clients' = clients \cup {Id}
        /\ UNCHANGED <<events, dead, failed, backlog>>
    BY <1>11 DEF AddClient, Admit
  <2> QED
    BY <1>0, <2>1, <2>2 DEF Wakes
<1>12. ASSUME NEW c \in Conns, AddClientFails(c) PROVE Wakes'
  BY <1>1, <1>12 DEF AddClientFails
<1>13. ASSUME NEW c \in Conns, Connect(c) PROVE Wakes'
  BY <1>1, <1>13 DEF Connect
<1>14. CASE \/ WaitFindsNothing \/ EventsDone \/ NextRound
            \/ \E b \in BOOLEAN : DispatchEvents(b)
            \/ \E id \in DOMAIN owner : RaiseError(id)
            \/ \E c \in Conns : HangUp(c) \/ \E kind \in Kinds : Send(c, kind)
            \/ UNCHANGED vars
  <2>1. UNCHANGED <<regs, armed, events, dead, clients, failed, backlog>>
    BY <1>14 DEF WaitFindsNothing, EventsDone, NextRound, DispatchEvents, RaiseError,
                 HangUp, Send, vars
  <2> QED
    BY <1>1, <2>1
<1> QED
  BY <1>2, <1>3, <1>4, <1>5, <1>6, <1>7, <1>8, <1>9, <1>10, <1>11, <1>12, <1>13, <1>14
  DEF Next, Serve, Application, Peers

-----------------------------------------------------------------------------
(* The reasons to end a connection. *)

\* What a dispatch marks as ended sent what cannot be handled, or is at its end.
LEMMA DispatchExcused ==
  ASSUME TypeOK, Excuses, NEW id \in clients, Readable(owner[id]), DispatchClient(id)
  PROVE  /\ shut' \subseteq excused
         /\ err' = err \/ (err' = err \cup {id} /\ owner[id] \in excused)
         /\ \A c \in Conns : ToSet(inbox'[c]) \subseteq ToSet(inbox[c])
<1> DEFINE c == owner[id]
           msgs == Handled(inbox[c])
<1>1. c \in Conns /\ inbox[c] \in Seq(Kinds)
  BY IdFacts DEF TypeOK
<1>2. /\ msgs \in Seq(Kinds) /\ ToSet(msgs) \subseteq ToSet(inbox[c])
      /\ inbox[c] # <<>> => msgs # <<>>
  BY <1>1, HandledPrefix
<1>3. ASSUME msgs = <<>> PROVE c \in excused
  <2>1. inbox[c] = <<>>
    BY <1>2, <1>3
  <2>2. c \in hung \cup shut
    BY <2>1 DEF Readable
  <2> QED
    BY <2>2 DEF Excuses
<1>4. ASSUME msgs # <<>>, Last(msgs) = "bad" PROVE c \in excused
  <2>1. Last(msgs) = msgs[Len(msgs)] /\ Len(msgs) \in 1..Len(msgs)
    BY <1>2, <1>4 DEF Last
  <2>2. "bad" \in ToSet(msgs)
    BY <1>2, <1>4, <2>1, InSet
  <2> HIDE DEF c, msgs
  <2> QED
    BY <1>1, <1>2, <2>2 DEF Excuses
<1>5. ASSUME "stray" \in ToSet(msgs) PROVE c \in excused
  <2> HIDE DEF c, msgs
  <2> QED
    BY <1>1, <1>2, <1>5 DEF Excuses
<1>6. /\ inbox' = [inbox EXCEPT ![c] = <<>>]
      /\ err' = IF msgs = <<>> \/ Last(msgs) = "bad" \/ "stray" \in ToSet(msgs)
                THEN err \cup {id} ELSE err
      /\ shut' = IF msgs = <<>> \/ Last(msgs) = "bad" THEN shut \cup {c} ELSE shut
  BY DEF DispatchClient
<1> HIDE DEF msgs
<1> HIDE DEF c
<1>7. c \notin excused => msgs # <<>> /\ Last(msgs) # "bad" /\ "stray" \notin ToSet(msgs)
  BY <1>3, <1>4, <1>5
<1>8. /\ shut' \subseteq excused
      /\ err' = err \/ (err' = err \cup {id} /\ c \in excused)
  <2>1. CASE c \in excused
    BY <1>6, <2>1 DEF Excuses
  <2>2. CASE c \notin excused
    BY <1>6, <1>7, <2>2 DEF Excuses
  <2> QED
    BY <2>1, <2>2
<1>9. \A d \in Conns : inbox'[d] = inbox[d] \/ inbox'[d] = <<>>
  BY <1>1, <1>6 DEF TypeOK
<1> QED
  BY <1>8, <1>9, EmptySet DEF c

LEMMA ExcusesStep ==
  ASSUME IInv, [Next]_vars
  PROVE  Excuses'
<1> USE DEF Abandon, conns, table, poller, loop, ghosts
<1> HIDE DEF Distinct
<1> DEFINE Bad == {"stray", "bad"}
           Quiet == \A c \in Conns : ToSet(inbox'[c]) \cap Bad # {} => c \in excused'
<1>0. TypeOK /\ Owned /\ Table /\ Batch /\ Excuses
  BY DEF IInv
<1> HIDE DEF Bad
<1>a. \A id \in err : id \in 1..Len(owner) /\ owner[id] \in Conns /\ owner[id] \in excused
  BY <1>0, IdFacts DEF Excuses
\* Closing streams that have a reason to end.
<1>1. ASSUME NEW cs \in SUBSET Conns, Close(cs), cs \subseteq excused',
             excused \subseteq excused', err \subseteq err', UNCHANGED owner,
             \A id \in err' \ err : owner[id] \in excused',
             dead' = dead \/ dead' = <<>> \/ (dead # <<>> /\ dead' = Tail(dead))
      PROVE  Excuses'
  <2>1. \A c \in Conns : /\ c \in cs => place'[c] = "closed" /\ inbox'[c] = <<>>
                         /\ c \notin cs => place'[c] = place[c] /\ inbox'[c] = inbox[c]
    BY <1>0, <1>1, CloseFacts
  <2>2. hung' \subseteq excused' /\ shut' \subseteq excused'
    BY <1>0, <1>1, CloseFacts DEF Excuses
  <2>3. Quiet
    BY <1>0, <1>1, <2>1, EmptySet DEF Excuses, Bad
  <2>4. ToSet(dead') \subseteq ToSet(dead)
    BY <1>0, <1>1, EmptySet, TailSet DEF TypeOK
  <2>5. \A c \in Conns : place'[c] = "closed" => c \in excused'
    BY <1>0, <1>1, <2>1 DEF Excuses, HealthyStays
  <2>6. \A id \in err' : owner'[id] \in excused'
    BY <1>1, <1>a
  <2> QED
    BY <1>0, <1>1, <2>2, <2>3, <2>4, <2>5, <2>6 DEF Excuses, HealthyStays, Bad
\* Taking a connection in.
<1>2. ASSUME NEW c \in Conns, Admit(c), place' = [place EXCEPT ![c] = "held"],
             UNCHANGED <<hung, shut, inbox, excused>>, dead' = dead \/ dead' = <<>>
      PROVE  Excuses'
  <2>1. \A id \in err' : owner'[id] \in excused'
    BY <1>0, <1>2, <1>a, AdmitFacts DEF Admit
  <2>2. \A d \in Conns : place'[d] = "closed" => d \in excused'
    BY <1>0, <1>2 DEF Excuses, HealthyStays, TypeOK
  <2>3. ToSet(dead') \subseteq err'
    BY <1>0, <1>2, EmptySet DEF Excuses, Admit
  <2> QED
    BY <1>0, <1>2, <2>1, <2>2, <2>3 DEF Excuses, HealthyStays
\* Reading from a client, whose reasons are those it has.
<1>3. ASSUME AtClient, UNCHANGED <<place, hung, owner>>,
             shut' \subseteq excused', excused \subseteq excused',
             err' = err \/ (err' = err \cup {Head(events)}
                            /\ owner[Head(events)] \in excused'),
             \A c \in Conns : ToSet(inbox'[c]) \subseteq ToSet(inbox[c]),
             \/ dead' = dead \/ dead' = <<>>
             \/ Head(events) \in err' /\ dead' = Append(dead, Head(events))
      PROVE  Excuses'
  <2>1. \A id \in err' : owner'[id] \in excused'
    BY <1>3, <1>a
  <2>2. Head(events) \in Nat
    BY <1>0, <1>3, ServedFacts, IdFacts
  <2>3. ToSet(dead') \subseteq err'
    <3>1. CASE dead' = dead \/ dead' = <<>>
      BY <1>0, <1>3, <3>1, EmptySet DEF Excuses
    <3>2. CASE Head(events) \in err' /\ dead' = Append(dead, Head(events))
      <4>1. ToSet(dead') = ToSet(dead) \cup {Head(events)}
        BY <1>0, <2>2, <3>2, AppendSet DEF TypeOK
      <4> QED
        BY <1>0, <1>3, <3>2, <4>1 DEF Excuses
    <3> QED
      BY <1>3, <3>1, <3>2
  <2>4. Quiet
    BY <1>0, <1>3 DEF Excuses, Bad
  <2> QED
    BY <1>0, <1>3, <2>1, <2>3, <2>4 DEF Excuses, HealthyStays, Bad
<1>4. ASSUME UNCHANGED <<place, hung, shut, inbox, err, owner, excused>>,
             dead' = dead \/ dead' = <<>>
      PROVE  Excuses'
  BY <1>0, <1>4, EmptySet DEF Excuses, HealthyStays
<1>5. CASE Crash
  <2>1. /\ Close({c \in Conns : place[c] # "away"}) /\ err' = {} /\ dead' = <<>>
        /\ excused' = excused \cup {c \in Conns : place[c] # "away"}
    BY <1>5 DEF Crash
  <2>2. \A c \in Conns :
          /\ place[c] = "away" => place'[c] = place[c] /\ inbox'[c] = inbox[c]
          /\ place[c] # "away" => c \in excused' /\ inbox'[c] = <<>>
    BY <1>0, <2>1, CloseFacts
  <2>3. Quiet
    BY <1>0, <2>1, <2>2, EmptySet DEF Excuses, Bad
  <2>4. hung' \subseteq excused' /\ shut' \subseteq excused'
    BY <1>0, <2>1, CloseFacts DEF Excuses
  <2>5. ToSet(dead') = {}
    BY <2>1, EmptySet
  <2>6. \A c \in Conns : place'[c] = "closed" => c \in excused'
    BY <2>2
  <2> QED
    BY <2>1, <2>3, <2>4, <2>5, <2>6 DEF Excuses, HealthyStays, Bad
<1>6. CASE Accept \/ ListenerRearmFails
  <2>1. /\ Head(backlog) \in Conns /\ Admit(Head(backlog))
        /\ place' = [place EXCEPT ![Head(backlog)] = "held"]
        /\ UNCHANGED <<hung, shut, inbox, excused>> /\ (dead' = dead \/ dead' = <<>>)
    BY <1>0, <1>6, NewcomerFacts DEF Accept, ListenerRearmFails
  <2> QED
    BY <1>2, <2>1
<1>7. CASE AcceptFails \/ AcceptCannotRegister
  <2>1. /\ Head(backlog) \in Conns /\ UNCHANGED <<owner, err>>
        /\ dead' = dead \/ dead' = <<>>
        /\ \/ UNCHANGED <<place, hung, shut, inbox, excused>>
           \/ Close({Head(backlog)}) /\ excused' = excused \cup {Head(backlog)}
    BY <1>0, <1>7, NewcomerFacts DEF AcceptFails, AcceptCannotRegister
  <2>2. CASE UNCHANGED <<place, hung, shut, inbox, excused>>
    BY <1>4, <2>1, <2>2
  <2>3. CASE Close({Head(backlog)}) /\ excused' = excused \cup {Head(backlog)}
    BY <1>1, <2>1, <2>3
  <2> QED
    BY <2>1, <2>2, <2>3
<1>8. CASE ServeClient \/ RearmFails
  <2>1. /\ AtClient /\ DispatchClient(Head(events))
        /\ UNCHANGED <<place, hung, owner, excused>>
        /\ \/ dead' = dead \/ dead' = <<>>
           \/ Head(events) \in err' /\ dead' = Append(dead, Head(events))
    BY <1>8 DEF ServeClient, RearmFails, Settle
  <2>2. Head(events) \in clients /\ Readable(owner[Head(events)])
    BY <1>0, <2>1, ServedFacts
  <2>3. /\ shut' \subseteq excused
        /\ \/ err' = err
           \/ err' = err \cup {Head(events)} /\ owner[Head(events)] \in excused
        /\ \A c \in Conns : ToSet(inbox'[c]) \subseteq ToSet(inbox[c])
    BY <1>0, <2>1, <2>2, DispatchExcused
  <2> QED
    BY <1>3, <2>1, <2>3
<1>9. CASE ReadFails
  <2> DEFINE id == Head(events)
  <2>1. /\ AtClient /\ UNCHANGED <<place, hung, owner>>
        /\ shut' = shut \cup {owner[id]} /\ excused' = excused \cup {owner[id]}
        /\ err' = err \cup {id} /\ inbox' = [inbox EXCEPT ![owner[id]] = <<>>]
        /\ dead' = dead \/ (id \in err' /\ dead' = Append(dead, id))
    BY <1>9 DEF ReadFails, Settle
  <2>2. owner[id] \in Conns
    BY <1>0, <2>1, ServedFacts
  <2>3. \A c \in Conns : inbox'[c] = inbox[c] \/ inbox'[c] = <<>>
    BY <1>0, <2>1, <2>2 DEF TypeOK
  <2>4. \A c \in Conns : ToSet(inbox'[c]) \subseteq ToSet(inbox[c])
    BY <2>3, EmptySet
  <2>5. shut' \subseteq excused'
    BY <1>0, <2>1 DEF Excuses
  <2> QED
    BY <1>3, <2>1, <2>4, <2>5
<1>10. CASE ReapDelete
  <2>1. /\ leaving # 0 /\ Close({owner[leaving]}) /\ dead' = Tail(dead)
        /\ UNCHANGED <<owner, err, excused>>
    BY <1>10 DEF ReapDelete
  <2>2. dead # <<>> /\ leaving \in ToSet(dead)
    BY <1>0, <2>1, ReapedFacts DEF Table
  <2>3. owner[leaving] \in Conns /\ owner[leaving] \in excused
    BY <1>0, <1>a, <2>2 DEF Excuses
  <2> QED
    BY <1>1, <2>1, <2>2, <2>3
<1>11. ASSUME NEW id \in DOMAIN owner, RaiseError(id) PROVE Excuses'
  <2>1. /\ err' = err \cup {id} /\ excused' = excused \cup {owner[id]}
        /\ UNCHANGED <<conns, owner, dead>>
    BY <1>11 DEF RaiseError
  <2> QED
    BY <1>0, <2>1 DEF Excuses, HealthyStays
<1>12. ASSUME NEW id \in DOMAIN owner, RemoveClient(id) PROVE Excuses'
  <2>1. /\ owner[id] \in Conns /\ Close({owner[id]}) /\ err' = err \cup {id}
        /\ excused' = excused \cup {owner[id]} /\ UNCHANGED <<owner, dead>>
    BY <1>0, <1>12, IdFacts DEF RemoveClient
  <2> QED
    BY <1>1, <2>1
<1>13. ASSUME NEW c \in Conns, AddClient(c) PROVE Excuses'
  BY <1>2, <1>13 DEF AddClient
<1>14. ASSUME NEW c \in Conns, AddClientFails(c) PROVE Excuses'
  BY <1>1, <1>14 DEF AddClientFails
<1>15. ASSUME NEW c \in Conns, Connect(c) PROVE Excuses'
  <2>1. \A d \in Conns : place'[d] = place[d] \/ place'[d] = "queued"
    BY <1>0, <1>15 DEF Connect, TypeOK
  <2>2. UNCHANGED <<hung, shut, inbox, err, owner, excused, dead>>
    BY <1>15 DEF Connect
  <2> QED
    BY <1>0, <2>1, <2>2 DEF Excuses, HealthyStays
<1>16. ASSUME NEW c \in Conns, HangUp(c) PROVE Excuses'
  BY <1>0, <1>16 DEF HangUp, Excuses, HealthyStays
<1>17. ASSUME NEW c \in Conns, NEW kind \in Kinds, Send(c, kind) PROVE Excuses'
  <2>1. /\ inbox' = [inbox EXCEPT ![c] = Append(@, kind)]
        /\ excused \subseteq excused' /\ (kind \in Bad => c \in excused')
        /\ UNCHANGED <<place, hung, shut, err, owner, dead>>
    BY <1>17 DEF Send, Bad
  <2>2. ToSet(inbox'[c]) = ToSet(inbox[c]) \cup {kind}
    BY <1>0, <2>1, AppendSet DEF TypeOK
  <2>3. \A d \in Conns \ {c} : inbox'[d] = inbox[d]
    BY <1>0, <2>1 DEF TypeOK
  <2>4. Quiet
    BY <1>0, <2>1, <2>2, <2>3 DEF Excuses, Bad
  <2> QED
    BY <1>0, <2>1, <2>4 DEF Excuses, HealthyStays, Bad
<1>18. CASE \/ Wait \/ WaitFindsNothing \/ EventsDone \/ ReapRemove \/ NextRound
            \/ \E listening \in BOOLEAN : Start(listening)
            \/ \E b \in BOOLEAN : DispatchEvents(b)
            \/ UNCHANGED vars
  <2>1. /\ UNCHANGED <<place, hung, shut, inbox, err, owner, excused>>
        /\ dead' = dead \/ dead' = <<>>
    BY <1>18 DEF Wait, WaitFindsNothing, EventsDone, ReapRemove, NextRound, Start,
                 DispatchEvents, vars
  <2> QED
    BY <1>4, <2>1
<1> QED
  BY <1>5, <1>6, <1>7, <1>8, <1>9, <1>10, <1>11, <1>12, <1>13, <1>14, <1>15, <1>16,
     <1>17, <1>18
  DEF Next, Serve, Application, Peers

-----------------------------------------------------------------------------
(* The hello, and the credentials it brings. *)

\* What a dispatch shows to the application comes after the hello.
LEMMA DispatchLearns ==
  ASSUME TypeOK, Owned, Hellos, NEW id \in clients, DispatchClient(id)
  PROVE  /\ polled \subseteq polled' /\ polled' \subseteq creds' \cup refused'
         /\ \A k \in known' : owner[k] \in Rude \/ k \in polled'
         /\ \/ owner[id] \in shut' \cup Rude
            \/ \E i \in polled' : owner[i] = owner[id]
         /\ shut \subseteq shut'
         /\ \A d \in Conns \ {owner[id]} : inbox'[d] = inbox[d]
         /\ inbox'[owner[id]] = <<>>
<1> DEFINE c == owner[id]
           msgs == Handled(inbox[c])
<1>1. id \in 1..Len(owner) /\ c \in Conns /\ inbox[c] \in Seq(Kinds)
  BY IdFacts DEF TypeOK
<1>2. /\ msgs \in Seq(Kinds)
      /\ inbox[c] # <<>> => msgs # <<>> /\ msgs[1] = inbox[c][1]
      /\ ToSet(msgs) \subseteq ToSet(inbox[c])
  BY <1>1, HandledPrefix
<1>3. /\ inbox' = [inbox EXCEPT ![c] = <<>>]
      /\ polled' = IF "hello" \in ToSet(msgs) THEN polled \cup {id} ELSE polled
      /\ creds \subseteq creds' /\ refused \subseteq refused'
      /\ polled' \ polled \subseteq creds' \cup refused'
      /\ known' = IF "good" \in ToSet(msgs) THEN known \cup {id} ELSE known
      /\ shut' = IF msgs = <<>> \/ Last(msgs) = "bad" THEN shut \cup {c} ELSE shut
  BY DEF DispatchClient, Learns
<1> HIDE DEF msgs
<1>4. ASSUME inbox[c] # <<>>, c \notin Rude PROVE id \in polled'
  <2>1. inbox[c][1] = "hello" \/ Asked(c)
    BY <1>1, <1>4 DEF Hellos
  <2>2. CASE inbox[c][1] = "hello"
    <3>1. msgs # <<>> /\ msgs[1] = "hello" /\ 1 \in 1..Len(msgs)
      BY <1>2, <1>4, <2>2
    <3>2. "hello" \in ToSet(msgs)
      BY <1>2, <3>1, InSet
    <3> QED
      BY <1>3, <3>2
  <2>3. CASE Asked(c)
    <3>1. PICK i \in polled : owner[i] = c
      BY <1>4, <2>3 DEF Asked
    <3>2. i \in 1..Len(owner)
      BY <3>1, IdFacts
    <3>3. i = id
      BY <1>1, <3>1, <3>2 DEF Owned, Distinct
    <3> QED
      BY <1>3, <3>1, <3>3
  <2> QED
    BY <2>1, <2>2, <2>3
<1>5. ASSUME inbox[c] = <<>> PROVE msgs = <<>> /\ "good" \notin ToSet(msgs)
  <2>1. ToSet(msgs) = {}
    BY <1>2, <1>5, EmptySet
  <2>2. msgs = <<>>
    <3>1. CASE Len(msgs) = 0
      BY <1>2, <3>1
    <3>2. CASE Len(msgs) # 0
      <4>1. 1 \in 1..Len(msgs)
        BY <1>2, <3>2
      <4> QED
        BY <1>2, <2>1, <4>1, InSet
    <3> QED
      BY <3>1, <3>2
  <2> QED
    BY <2>1, <2>2
<1>6. /\ inbox'[c] = <<>> /\ \A d \in Conns \ {c} : inbox'[d] = inbox[d]
      /\ polled \subseteq polled' /\ shut \subseteq shut'
      /\ polled' \subseteq creds' \cup refused'
  BY <1>1, <1>3 DEF TypeOK, Hellos, Met
<1>7. \A k \in known' : owner[k] \in Rude \/ k \in polled'
  <2>1. \A k \in known : owner[k] \in Rude \/ k \in polled
    BY DEF Hellos, Met
  <2> QED
    BY <1>3, <1>4, <1>5, <1>6, <2>1
<1>8. c \in shut' \cup Rude \/ \E i \in polled' : owner[i] = c
  BY <1>3, <1>4, <1>5
<1> QED
  BY <1>6, <1>7, <1>8

LEMMA HellosStep ==
  ASSUME IInv, [Next]_vars
  PROVE  Hellos'
<1> USE DEF Abandon, conns, table, poller, loop, ghosts
<1> HIDE DEF Distinct
<1>0. TypeOK /\ Owned /\ Table /\ Batch /\ Hellos
  BY DEF IInv
\* Who was asked for was asked for as long as the ids stay.
<1>1. ASSUME polled \subseteq polled',
             \A id \in 1..Len(owner) : owner'[id] = owner[id],
             NEW c \in Conns, Asked(c)
      PROVE  Asked(c)'
  <2>1. CASE c \in Rude
    BY <2>1 DEF Asked
  <2>2. ASSUME NEW id \in polled, owner[id] = c
        PROVE  Asked(c)'
    <3>1. id \in 1..Len(owner)
      BY <1>0, IdFacts
    <3> QED
      BY <1>1, <2>2, <3>1 DEF Asked
  <2> QED
    BY <1>1, <2>1, <2>2 DEF Asked
\* What holds of the ids, of which nothing is forgotten.
<1>a. ASSUME UNCHANGED <<polled, creds, refused, known>>,
             \A id \in 1..Len(owner) : owner'[id] = owner[id]
      PROVE  Met'
  <2>1. \A id \in known : id \in 1..Len(owner)
    BY <1>0, IdFacts
  <2> QED
    BY <1>0, <1>a, <2>1 DEF Hellos, Met
\* Closing streams.
<1>2. ASSUME NEW cs \in SUBSET Conns, Close(cs), UNCHANGED <<sent, owner, polled, creds, refused, known>>
      PROVE  Hellos'
  <2>1. /\ \A c \in cs : place'[c] = "closed" /\ inbox'[c] = <<>>
        /\ \A c \in Conns \ cs : place'[c] = place[c] /\ inbox'[c] = inbox[c]
        /\ shut' = shut \ cs
    BY <1>0, <1>2, CloseFacts
  <2>2. \A c \in Conns : Asked(c)' <=> Asked(c)
    BY <1>2 DEF Asked
  <2>3. Met'
    BY <1>2, <1>a
  <2> QED
    BY <1>0, <1>2, <2>1, <2>2, <2>3 DEF Hellos, Met
\* Taking a connection in.
<1>3. ASSUME NEW c \in Conns, Admit(c), place' = [place EXCEPT ![c] = "held"],
             place[c] \in {"away", "queued"},
             UNCHANGED <<shut, inbox, sent, refused, known>>
      PROVE  Hellos'
  <2>1. /\ UNCHANGED <<polled, creds>>
        /\ \A id \in 1..Len(owner) : owner'[id] = owner[id]
    BY <1>0, <1>3, AdmitFacts DEF Admit
  <2>2. \A d \in Conns : Asked(d) => Asked(d)'
    BY <1>1, <2>1
  <2>3. place'[c] = "held" /\ \A d \in Conns \ {c} : place'[d] = place[d]
    BY <1>0, <1>3 DEF TypeOK
  <2>4. Met'
    BY <1>3, <1>a, <2>1
  <2> QED
    BY <1>0, <1>3, <2>2, <2>3, <2>4 DEF Hellos, Met
<1>4. CASE UNCHANGED <<place, shut, inbox, sent, owner, polled, creds, refused, known>>
  BY <1>0, <1>4 DEF Hellos, Asked, Met
<1>5. CASE Crash
  <2>1. /\ Close({c \in Conns : place[c] # "away"}) /\ polled' = {} /\ known' = {}
        /\ sent' = sent
    BY <1>5 DEF Crash
  <2>2. \A c \in Conns :
          /\ place[c] = "away" => place'[c] = "away" /\ inbox'[c] = inbox[c]
          /\ place[c] # "away" => place'[c] = "closed" /\ inbox'[c] = <<>>
    BY <1>0, <2>1, CloseFacts
  <2>3. Met'
    BY <2>1 DEF Met
  <2>4. ASSUME NEW c \in Conns
        PROVE  /\ place'[c] \in {"away", "closed"} /\ inbox'[c] = <<>>
               /\ place'[c] = "away" => sent'[c] = 0
    BY <1>0, <2>1, <2>2 DEF Hellos
  <2> QED
    BY <2>3, <2>4 DEF Hellos, Met
<1>6. CASE Accept \/ ListenerRearmFails
  <2>1. /\ Head(backlog) \in Conns /\ Admit(Head(backlog))
        /\ place[Head(backlog)] = "queued"
        /\ place' = [place EXCEPT ![Head(backlog)] = "held"]
        /\ UNCHANGED <<shut, inbox, sent, refused, known>>
    BY <1>0, <1>6, NewcomerFacts DEF Accept, ListenerRearmFails
  <2> QED
    BY <1>3, <2>1
<1>7. CASE AcceptFails \/ AcceptCannotRegister
  <2>1. /\ Head(backlog) \in Conns /\ UNCHANGED <<sent, owner, polled, creds, refused, known>>
        /\ \/ UNCHANGED <<place, shut, inbox>>
           \/ Close({Head(backlog)})
    BY <1>0, <1>7, NewcomerFacts DEF AcceptFails, AcceptCannotRegister
  <2>2. CASE UNCHANGED <<place, shut, inbox>>
    BY <1>4, <2>1, <2>2
  <2>3. CASE Close({Head(backlog)})
    BY <1>2, <2>1, <2>3
  <2> QED
    BY <2>1, <2>2, <2>3
<1>8. CASE ServeClient \/ RearmFails
  <2>1. AtClient /\ DispatchClient(Head(events)) /\ UNCHANGED <<place, sent, owner>>
    BY <1>8 DEF ServeClient, RearmFails
  <2>a. PICK c \in Conns : c = owner[Head(events)]
    BY <1>0, <2>1, ServedFacts
  <2>2. Head(events) \in clients /\ place[c] = "held"
    BY <1>0, <2>1, <2>a, ServedFacts
  <2>3. /\ polled \subseteq polled' /\ polled' \subseteq creds' \cup refused'
        /\ \A k \in known' : owner[k] \in Rude \/ k \in polled'
        /\ c \in shut' \cup Rude \/ \E i \in polled' : owner[i] = c
        /\ shut \subseteq shut'
        /\ \A d \in Conns \ {c} : inbox'[d] = inbox[d]
        /\ inbox'[c] = <<>>
    BY <1>0, <2>1, <2>2, <2>a, DispatchLearns
  <2>4. \A d \in Conns : Asked(d) => Asked(d)'
    BY <1>1, <2>1, <2>3
  <2>5. Met'
    BY <2>1, <2>3 DEF Met
  <2>6. c \in shut' \/ Asked(c)'
    BY <2>1, <2>3 DEF Asked
  <2> QED
    BY <1>0, <2>1, <2>2, <2>3, <2>4, <2>5, <2>6 DEF Hellos, Met
<1>9. CASE ReadFails
  <2> DEFINE c == owner[Head(events)]
  <2>1. /\ AtClient /\ UNCHANGED <<place, sent, owner, polled, creds, refused, known>>
        /\ shut' = shut \cup {c} /\ inbox' = [inbox EXCEPT ![c] = <<>>]
    BY <1>9 DEF ReadFails
  <2>2. c \in Conns /\ place[c] = "held"
    BY <1>0, <2>1, ServedFacts
  <2> HIDE DEF c
  <2>3. inbox'[c] = <<>> /\ \A d \in Conns \ {c} : inbox'[d] = inbox[d]
    BY <1>0, <2>1, <2>2 DEF TypeOK
  <2>4. \A d \in Conns : Asked(d)' <=> Asked(d)
    BY <2>1 DEF Asked
  <2>5. Met'
    BY <1>a, <2>1
  <2> QED
    BY <1>0, <2>1, <2>2, <2>3, <2>4, <2>5 DEF Hellos, Met
<1>10. CASE ReapDelete
  <2>1. /\ leaving # 0 /\ Close({owner[leaving]})
        /\ UNCHANGED <<sent, owner, polled, creds, refused, known>>
    BY <1>10 DEF ReapDelete
  <2>2. owner[leaving] \in Conns
    BY <1>0, <2>1, IdFacts
  <2> QED
    BY <1>2, <2>1, <2>2
<1>11. ASSUME NEW id \in DOMAIN owner, RemoveClient(id) PROVE Hellos'
  <2>1. /\ owner[id] \in Conns /\ Close({owner[id]})
        /\ UNCHANGED <<sent, owner, polled, creds, refused, known>>
    BY <1>0, <1>11, IdFacts DEF RemoveClient
  <2> QED
    BY <1>2, <2>1
<1>12. ASSUME NEW c \in Conns, AddClient(c) PROVE Hellos'
  BY <1>3, <1>12 DEF AddClient
<1>13. ASSUME NEW c \in Conns, AddClientFails(c) PROVE Hellos'
  BY <1>2, <1>13 DEF AddClientFails
<1>14. ASSUME NEW c \in Conns, Connect(c) PROVE Hellos'
  <2>1. /\ place[c] = "away" /\ place' = [place EXCEPT ![c] = "queued"]
        /\ UNCHANGED <<shut, inbox, sent, owner, polled, creds, refused, known>>
    BY <1>14 DEF Connect
  <2>2. place'[c] = "queued" /\ \A d \in Conns \ {c} : place'[d] = place[d]
    BY <1>0, <2>1 DEF TypeOK
  <2>3. sent[c] = 0
    BY <1>0, <2>1 DEF Hellos
  <2>4. \A d \in Conns : Asked(d)' <=> Asked(d)
    BY <2>1 DEF Asked
  <2>5. Met'
    BY <1>a, <2>1
  <2> QED
    BY <1>0, <2>1, <2>2, <2>3, <2>4, <2>5 DEF Hellos, Met
<1>15. ASSUME NEW c \in Conns, NEW kind \in Kinds, Send(c, kind) PROVE Hellos'
  <2>1. /\ place[c] \in {"queued", "held"} /\ c \notin shut
        /\ c \in Rude \/ (kind = "hello" <=> sent[c] = 0)
        /\ sent' = [sent EXCEPT ![c] = @ + 1]
        /\ inbox' = [inbox EXCEPT ![c] = Append(@, kind)]
        /\ UNCHANGED <<place, shut, owner, polled, creds, refused, known>>
    BY <1>15 DEF Send
  <2>2. /\ sent[c] \in Nat /\ sent'[c] = sent[c] + 1 /\ inbox[c] \in Seq(Kinds)
        /\ inbox'[c] = Append(inbox[c], kind)
        /\ \A d \in Conns \ {c} : sent'[d] = sent[d] /\ inbox'[d] = inbox[d]
    BY <1>0, <2>1 DEF TypeOK
  <2>3. \A d \in Conns : Asked(d)' <=> Asked(d)
    BY <2>1 DEF Asked
  <2>4. Met'
    BY <1>a, <2>1
  <2>5. inbox'[c] # <<>> /\ (inbox'[c][1] = "hello" \/ Asked(c))
    <3>1. CASE inbox[c] = <<>>
      <4>1. inbox'[c][1] = kind /\ inbox'[c] # <<>>
        BY <2>2, <3>1
      <4>2. sent[c] = 0 \/ Asked(c)
        BY <1>0, <2>1, <2>2, <3>1 DEF Hellos
      <4> QED
        BY <2>1, <4>1, <4>2 DEF Asked
    <3>2. CASE inbox[c] # <<>>
      <4>1. inbox'[c][1] = inbox[c][1] /\ inbox'[c] # <<>>
        BY <2>2, <3>2
      <4> QED
        BY <1>0, <3>2, <4>1 DEF Hellos
    <3> QED
      BY <3>1, <3>2
  <2>6. sent'[c] # 0
    BY <2>2
  <2>7. place[c] # "away"
    BY <2>1
  <2> QED
    BY <1>0, <2>1, <2>2, <2>3, <2>4, <2>5, <2>6, <2>7 DEF Hellos, Met
<1>16. CASE \/ Wait \/ WaitFindsNothing \/ EventsDone \/ ReapRemove \/ NextRound
            \/ \E listening \in BOOLEAN : Start(listening)
            \/ \E b \in BOOLEAN : DispatchEvents(b)
            \/ \E id \in DOMAIN owner : RaiseError(id)
            \/ \E c \in Conns : HangUp(c)
            \/ UNCHANGED vars
  <2>1. UNCHANGED <<place, shut, inbox, sent, owner, polled, creds, refused, known>>
    BY <1>16 DEF Wait, WaitFindsNothing, EventsDone, ReapRemove, NextRound, Start,
                 DispatchEvents, RaiseError, HangUp, vars
  <2> QED
    BY <1>4, <2>1
<1> QED
  BY <1>5, <1>6, <1>7, <1>8, <1>9, <1>10, <1>11, <1>12, <1>13, <1>14, <1>15, <1>16
  DEF Next, Serve, Application, Peers

-----------------------------------------------------------------------------
(* The theorems. *)

LEMMA InvInit ==
  ASSUME Init
  PROVE  IInv
<1>1. owner = <<>> /\ backlog = <<>> /\ events = <<>> /\ dead = <<>>
  BY DEF Init
<1>2. /\ Distinct(<<>>) /\ ToSet(<<>>) = {} /\ \A S : <<>> \in Seq(S)
      /\ 1..Len(<<>>) = {} /\ DOMAIN <<>> = {}
  BY EmptySet
<1> HIDE DEF Distinct
<1>3. TypeOK
  <2>1. /\ inbox \in [Conns -> Seq(Kinds)]
        /\ sent \in [Conns -> Nat] /\ \A c \in Conns : sent[c] <= MaxSends[c]
    BY <1>2, LoopAssumption DEF Init
  <2>2. cleaned \in [1..Cardinality(Conns) -> Nat] /\ trouble \in 0..MaxTrouble
    BY LoopAssumption DEF Init, Never
  <2>3. DOMAIN owner = {}
    BY <1>1
  <2> QED
    BY <1>1, <1>2, <2>1, <2>2, <2>3 DEF Init, TypeOK
<1>4. Owned /\ Table /\ Counted
  BY <1>1, <1>2 DEF Init, Owned, Table, Counted, Never
<1>5. Batch /\ Wakes
  BY <1>1, <1>2 DEF Init, Batch, Wakes
<1>6. Excuses /\ Hellos
  BY <1>1, <1>2 DEF Init, Excuses, Hellos, HealthyStays, Met
<1> QED
  BY <1>3, <1>4, <1>5, <1>6 DEF IInv

LEMMA InvStep ==
  ASSUME IInv, [Next]_vars
  PROVE  IInv'
  BY TypeStep, OwnedStep, TableStep, CountedStep, BatchStep, WakesStep,
     ExcusesStep, HellosStep DEF IInv

LEMMA Invariance == Spec => []IInv
<1>1. Init => IInv
  BY InvInit
<1>2. IInv /\ [Next]_vars => IInv'
  BY InvStep
<1> QED
  BY <1>1, <1>2, PTL DEF Spec

\* Clients, keys and marks are of ids that were given out.
THEOREM TypeCorrect == Spec => []TypeOK
<1>1. IInv => TypeOK
  BY DEF IInv
<1> QED
  BY <1>1, Invariance, PTL

(* The poller never has a stream that is not open and held by the table,   *)
(* or by the reaper, whatever fails and in whatever order clients leave.   *)
THEOREM PollerHoldsOpenStreams == Spec => []RegisteredIsOpen
<1>1. IInv => RegisteredIsOpen
  <2> SUFFICES ASSUME IInv, NEW k \in regs \ {Listener}
               PROVE  place[owner[k]] = "held" /\ owner[k] \in Held
    BY DEF RegisteredIsOpen
  <2>1. k \in clients \cup ({leaving} \ {0})
    BY DEF IInv, Table
  <2>2. place[owner[k]] = "held"
    BY <2>1 DEF IInv, Table
  <2> QED
    BY <2>1, <2>2 DEF Held
<1> QED
  BY <1>1, Invariance, PTL

\* The objects of a client that is gone were destroyed, and only once.
THEOREM ObjectsAreDestroyedOnce == Spec => []ObjectsDestroyedOnce
<1>1. IInv => ObjectsDestroyedOnce
  <2> SUFFICES ASSUME IInv, NEW id \in DOMAIN owner
               PROVE  cleaned[id] = IF id \in clients THEN 0 ELSE 1
    BY DEF ObjectsDestroyedOnce
  <2>1. id \in 1..Len(owner) /\ Len(owner) \in Nat
    BY DEF IInv, TypeOK
  <2>2. Len(owner) <= Cardinality(Conns) /\ Cardinality(Conns) \in Nat
    BY IdsBounded, LoopAssumption, FS_CardinalityType DEF IInv
  <2>3. id \in 1..Cardinality(Conns)
    BY <2>1, <2>2
  <2> QED
    BY <2>1, <2>3 DEF IInv, Counted
<1> QED
  BY <1>1, Invariance, PTL

(* Between batches a key that has something to read is armed, so that the  *)
(* descriptor of the loop is readable when there is work to do.            *)
THEOREM WorkAlwaysWakes == Spec => []WorkWakesLoop
<1>1. IInv => WorkWakesLoop
  <2> SUFFICES ASSUME IInv, pc \in {"app", "wait"}, ~failed
               PROVE  /\ backlog # <<>> => Listener \in Ready
                      /\ \A id \in clients : Readable(owner[id]) => id \in Ready
    BY DEF WorkWakesLoop
  <2>1. ToSet(events) = {} /\ ToSet(dead) = {}
    BY EmptySet DEF IInv, Batch
  <2>2. /\ backlog # <<>> => Listener \in armed
        /\ clients \subseteq armed
    BY <2>1 DEF IInv, Wakes
  <2>3. \A id \in clients : id # Listener
    BY IdFacts DEF IInv, Listener
  <2> QED
    BY <2>2, <2>3 DEF Ready
<1> QED
  BY <1>1, Invariance, PTL

\* No connection is ended that gave no reason to end it.
THEOREM HealthyConnectionsStay == Spec => []HealthyStays
<1>1. IInv => HealthyStays
  BY DEF IInv, Excuses
<1> QED
  BY <1>1, Invariance, PTL

(* A client that a handler has seen and that has no credentials is one     *)
(* whose credentials the system would not tell, or one that need not begin *)
(* with a hello: a hello is otherwise read first, and asks for them.       *)
THEOREM CredsFollowHello == Spec => []CredsAfterHello
<1>1. IInv => CredsAfterHello
  BY DEF IInv, Hellos, Met, CredsAfterHello
<1> QED
  BY <1>1, Invariance, PTL

-----------------------------------------------------------------------------
(* The path.                                                               *)

\* No server is named like a path without a server.
Named == "nothing" \notin Servers /\ "refuses" \notin Servers

\* A server that has not raced has bind to itself.
Alone ==
  \A s \in Servers \ raced, t \in Servers :
    at[s] \in Bind!Inside /\ at[t] \in Bind!Inside => s = t

(* Who comes while one that has not raced is up still has to be answered   *)
(* by it.                                                                  *)
Asking ==
  \A s \in Servers \ raced, t \in Servers :
    at[s] = "up" /\ at[t] \in Bind!Inside => at[t] \in {"exists", "connect"}

\* What a server that has bind to itself has seen of the path is still so.
Seen ==
  \A s \in Servers \ raced :
    /\ at[s] \in {"connect", "remove"} => path # "nothing"
    /\ at[s] = "bind" => path = "nothing"

BindInv == Bind!BindTypeOK /\ Alone /\ Asking /\ Bind!KeepsItsPath /\ Seen

-----------------------------------------------------------------------------
LEMMA BindTypeStep ==
  ASSUME Bind!BindTypeOK, [Bind!BindNext]_(Bind!bindVars)
  PROVE  Bind!BindTypeOK'
<1> USE DEF Bind!BindTypeOK, Bind!Inside, Bind!Errors
<1>1. CASE UNCHANGED Bind!bindVars
  BY <1>1 DEF Bind!bindVars
<1>2. ASSUME NEW s \in Servers, Bind!Begin(s)
      PROVE  Bind!BindTypeOK'
  BY <1>2 DEF Bind!Begin, Bind!Goto
<1>3. ASSUME NEW s \in Servers, Bind!CheckExists(s)
      PROVE  Bind!BindTypeOK'
  BY <1>3 DEF Bind!CheckExists, Bind!Goto
<1>4. ASSUME NEW s \in Servers, Bind!TryConnect(s)
      PROVE  Bind!BindTypeOK'
  BY <1>4 DEF Bind!TryConnect, Bind!Goto
<1>5. ASSUME NEW s \in Servers, Bind!RemoveFile(s)
      PROVE  Bind!BindTypeOK'
  BY <1>5 DEF Bind!RemoveFile, Bind!Goto
<1>6. ASSUME NEW s \in Servers, Bind!BindPath(s)
      PROVE  Bind!BindTypeOK'
  BY <1>6 DEF Bind!BindPath, Bind!Goto
<1>7. ASSUME NEW s \in Servers, Bind!Listen(s)
      PROVE  Bind!BindTypeOK'
  BY <1>7 DEF Bind!Listen, Bind!Goto
<1>8. ASSUME NEW s \in Servers, Bind!Stop(s)
      PROVE  Bind!BindTypeOK'
  BY <1>8 DEF Bind!Stop, Bind!Goto
<1> QED
  BY <1>1, <1>2, <1>3, <1>4, <1>5, <1>6, <1>7, <1>8 DEF Bind!BindNext, Bind!BindStep

(* Only Begin brings a server inside, and marks those it finds there.      *)
LEMMA AloneStep ==
  ASSUME Bind!BindTypeOK, Alone, [Bind!BindNext]_(Bind!bindVars)
  PROVE  Alone'
<1> USE DEF Bind!BindTypeOK, Alone, Bind!Inside, Bind!Errors
<1>1. CASE UNCHANGED Bind!bindVars
  BY <1>1 DEF Bind!bindVars
<1>2. ASSUME NEW s \in Servers, Bind!Begin(s)
      PROVE  Alone'
  BY <1>2 DEF Bind!Begin, Bind!Goto
<1>3. ASSUME NEW s \in Servers, Bind!BindStep(s)
      PROVE  Alone'
  <2>1. /\ at[s] \in Bind!Inside /\ \E x : at' = [at EXCEPT ![s] = x]
        /\ raced' = raced
    BY <1>3 DEF Bind!BindStep, Bind!CheckExists, Bind!TryConnect, Bind!RemoveFile,
      Bind!BindPath, Bind!Listen, Bind!Goto
  <2> QED
    BY <2>1
<1>4. ASSUME NEW s \in Servers, Bind!Stop(s)
      PROVE  Alone'
  BY <1>4 DEF Bind!Stop, Bind!Goto
<1> QED
  BY <1>1, <1>2, <1>3, <1>4 DEF Bind!BindNext

(* A path is taken from no server that came up alone: who comes later is   *)
(* answered by it, and goes no further.                                    *)
LEMMA PathStep ==
  ASSUME Named, BindInv, [Bind!BindNext]_(Bind!bindVars)
  PROVE  Asking' /\ Bind!KeepsItsPath' /\ Seen'
<1> USE DEF BindInv, Bind!BindTypeOK, Alone, Asking, Bind!KeepsItsPath, Seen,
           Bind!Inside, Bind!Errors, Named
<1>1. CASE UNCHANGED Bind!bindVars
  BY <1>1 DEF Bind!bindVars
<1>2. ASSUME NEW s \in Servers, Bind!Begin(s)
      PROVE  Asking' /\ Bind!KeepsItsPath' /\ Seen'
  <2>1. /\ at' = [at EXCEPT ![s] = "exists"] /\ path' = path
        /\ at[s] \notin Bind!Inside /\ at[s] # "up"
        /\ Servers \ raced' \subseteq (Servers \ raced) \cup {s}
    BY <1>2 DEF Bind!Begin, Bind!Goto
  <2> QED
    BY <2>1
<1>3. ASSUME NEW s \in Servers, Bind!CheckExists(s)
      PROVE  Asking' /\ Bind!KeepsItsPath' /\ Seen'
  BY <1>3 DEF Bind!CheckExists, Bind!Goto
<1>4. ASSUME NEW s \in Servers, Bind!TryConnect(s)
      PROVE  Asking' /\ Bind!KeepsItsPath' /\ Seen'
  BY <1>4 DEF Bind!TryConnect, Bind!Goto
<1>5. ASSUME NEW s \in Servers, Bind!RemoveFile(s)
      PROVE  Asking' /\ Bind!KeepsItsPath' /\ Seen'
  <2>1. \A t \in Servers \ raced : at[t] \notin {"listen", "up"}
    BY <1>5 DEF Bind!RemoveFile
  <2> QED
    BY <1>5, <2>1 DEF Bind!RemoveFile, Bind!Goto
<1>6. ASSUME NEW s \in Servers, Bind!BindPath(s)
      PROVE  Asking' /\ Bind!KeepsItsPath' /\ Seen'
  <2>1. \A t \in Servers \ raced : at[t] \notin {"listen", "up"}
    BY <1>6 DEF Bind!BindPath
  <2> QED
    BY <1>6, <2>1 DEF Bind!BindPath, Bind!Goto
<1>7. ASSUME NEW s \in Servers, Bind!Listen(s)
      PROVE  Asking' /\ Bind!KeepsItsPath' /\ Seen'
  BY <1>7 DEF Bind!Listen, Bind!Goto
<1>8. ASSUME NEW s \in Servers, Bind!Stop(s)
      PROVE  Asking' /\ Bind!KeepsItsPath' /\ Seen'
  BY <1>8 DEF Bind!Stop, Bind!Goto
<1> QED
  BY <1>1, <1>2, <1>3, <1>4, <1>5, <1>6, <1>7, <1>8 DEF Bind!BindNext, Bind!BindStep

LEMMA BindInvInit ==
  ASSUME Bind!BindInit
  PROVE  BindInv
  BY DEF Bind!BindInit, BindInv, Bind!BindTypeOK, Alone, Asking,
     Bind!KeepsItsPath, Seen, Bind!Inside, Bind!Errors

LEMMA BindInvStep ==
  ASSUME Named, BindInv, [Bind!BindNext]_(Bind!bindVars)
  PROVE  BindInv'
  BY BindTypeStep, AloneStep, PathStep DEF BindInv

-----------------------------------------------------------------------------
(* The state keeps its type, also where servers are inside bind together.  *)
THEOREM BindTypeCorrect == Bind!BindSpec => []Bind!BindTypeOK
<1>1. Bind!BindInit => Bind!BindTypeOK
  BY DEF Bind!BindInit, Bind!BindTypeOK
<1>2. Bind!BindTypeOK /\ [Bind!BindNext]_(Bind!bindVars) => Bind!BindTypeOK'
  BY BindTypeStep
<1> QED
  BY <1>1, <1>2, PTL DEF Bind!BindSpec

(* No server takes the path of one that came up alone, however many race   *)
(* for it afterwards: what they remove belongs to nobody who is up.        *)
THEOREM PathsAreKept ==
  ASSUME Named
  PROVE  Bind!BindSpec => []Bind!KeepsItsPath
<1>1. Bind!BindInit => BindInv
  BY BindInvInit
<1>2. BindInv /\ [Bind!BindNext]_(Bind!bindVars) => BindInv'
  BY BindInvStep
<1>3. BindInv => Bind!KeepsItsPath
  BY DEF BindInv
<1> QED
  BY <1>1, <1>2, <1>3, PTL DEF Bind!BindSpec

(* What the documentation of bind says of its errors, for a server that    *)
(* has bind to itself: it fails only where another server is up, and the   *)
(* remains of dead ones, of races too, stop nobody.                        *)
THEOREM OnlyTheLiveRefuse ==
  ASSUME Named
  PROVE  Bind!BindSpec => Bind!OnlyLiveServersRefuse
<1> DEFINE Refused ==
      \A s \in Servers \ raced :
        at[s] \in Bind!Inside /\ at'[s] \in Bind!Errors =>
          \E t \in Servers \ {s} : at[t] = "up"
<1>1. Bind!BindInit => BindInv
  BY BindInvInit
<1>2. BindInv /\ [Bind!BindNext]_(Bind!bindVars) => BindInv'
  BY BindInvStep
<1>3. BindInv /\ [Bind!BindNext]_(Bind!bindVars) => [Refused]_(Bind!bindVars)
  <2> SUFFICES ASSUME BindInv, Bind!BindNext,
                      NEW s \in Servers \ raced, at[s] \in Bind!Inside, at'[s] \in Bind!Errors
               PROVE  \E t \in Servers \ {s} : at[t] = "up"
    BY DEF Refused
  <2>1. PICK t \in Servers : Bind!Begin(t) \/ Bind!BindStep(t) \/ Bind!Stop(t)
    BY DEF Bind!BindNext
  <2>2. t = s /\ Bind!BindStep(s)
    BY <2>1 DEF BindInv, Bind!BindTypeOK, Bind!Inside, Bind!Errors, Bind!Begin, Bind!BindStep, Bind!Stop, Bind!Goto,
      Bind!CheckExists, Bind!TryConnect, Bind!RemoveFile, Bind!BindPath, Bind!Listen
  <2>3. ~(Bind!CheckExists(s) \/ Bind!RemoveFile(s) \/ Bind!BindPath(s) \/ Bind!Listen(s))
    BY DEF BindInv, Bind!BindTypeOK, Seen, Bind!Inside, Bind!Errors, Bind!Goto,
      Bind!CheckExists, Bind!RemoveFile, Bind!BindPath, Bind!Listen
  <2>4. Bind!TryConnect(s)
    BY <2>2, <2>3 DEF Bind!BindStep
  <2> QED
    BY <2>4 DEF BindInv, Bind!BindTypeOK, Seen, Bind!Inside, Bind!Errors, Bind!Goto, Bind!TryConnect
<1> QED
  BY <1>1, <1>2, <1>3, PTL DEF Bind!BindSpec, Bind!OnlyLiveServersRefuse
-----------------------------------------------------------------------------
(* The composition implements ServerBind: whatever the loop does, the path *)
(* and the places in bind change as ServerBind says.                       *)
THEOREM ServerBinds ==
  ASSUME us \in Servers
  PROVE  ServerSpec => Bind!BindSpec
<1>1. ServerInit => Bind!BindInit
  BY DEF ServerInit
<1>2. [ServerNext]_<<vars, bind>> => [Bind!BindNext]_(Bind!bindVars)
  <2> SUFFICES ASSUME ServerNext
               PROVE  Bind!BindNext \/ UNCHANGED bind
    BY DEF bind, Bind!bindVars
  <2>1. CASE StartsListening
    BY <2>1 DEF StartsListening, Bind!BindNext, Bind!BindStep
  <2>2. CASE StartsDetached
    BY <2>2 DEF StartsDetached
  <2>3. CASE Dies
    BY <2>3 DEF Dies, Bind!BindNext
  <2>4. CASE \E c \in Conns : Finds(c)
    BY <2>4 DEF Finds
  <2>5. CASE Binds \/ \E s \in Servers \ {us} : OnPath(s)
    BY <2>5 DEF Binds, OnPath, Bind!BindNext, Bind!BindStep
  <2> QED
    BY <2>1, <2>2, <2>3, <2>4, <2>5 DEF ServerNext
<1> QED
  BY <1>1, <1>2, PTL DEF ServerSpec, Bind!BindSpec

(* A server that runs its loop and came up alone is what clients find at   *)
(* its path, until it ends.                                                *)
THEOREM ServersKeepTheirPaths ==
  ASSUME us \in Servers, Named
  PROVE  ServerSpec => []KeepsItsPath
<1>1. Bind!BindSpec => []Bind!KeepsItsPath
  BY PathsAreKept
<1> QED
  BY <1>1, ServerBinds, PTL DEF KeepsItsPath

(* The documentation of bind holds of servers with their loops that have   *)
(* bind to themselves: it fails only where another server is up, which has *)
(* not crashed or ended.                                                   *)
THEOREM OnlyLiveLoopsRefuse ==
  ASSUME us \in Servers, Named
  PROVE  ServerSpec => OnlyLiveServersRefuse
<1>1. Bind!BindSpec => Bind!OnlyLiveServersRefuse
  BY OnlyTheLiveRefuse
<1> QED
  BY <1>1, ServerBinds, PTL DEF OnlyLiveServersRefuse

(* The composition implements ServerLoop: how it comes by its path, and    *)
(* who else wants it, adds no step to the loop.                            *)
THEOREM ServerLoops == ServerSpec => Spec
<1>1. ServerInit => Init
  BY DEF ServerInit
<1>2. [ServerNext]_<<vars, bind>> => [Next]_vars
  <2> SUFFICES ASSUME ServerNext
               PROVE  Next \/ UNCHANGED vars
    OBVIOUS
  <2>1. CASE StartsListening \/ StartsDetached
    BY <2>1 DEF StartsListening, StartsDetached, Next
  <2>2. CASE Dies
    BY <2>2 DEF Dies, Next
  <2>3. CASE \E c \in Conns : Finds(c)
    BY <2>3 DEF Finds, Next, Peers
  <2>4. CASE Binds \/ \E s \in Servers \ {us} : OnPath(s)
    BY <2>4 DEF Binds, OnPath
  <2>5. CASE Serve \/ Application
    BY <2>5 DEF Next
  <2>6. CASE \E c \in Conns : HangUp(c) \/ \E kind \in Kinds : Send(c, kind)
    BY <2>6 DEF Next, Peers
  <2> QED
    BY <2>1, <2>2, <2>3, <2>4, <2>5, <2>6 DEF ServerNext
<1> QED
  BY <1>1, <1>2, PTL DEF ServerSpec, Spec

(* So what the loop promises holds of a server process in its world: what  *)
(* the poller has is open, the objects of a client are destroyed once,     *)
(* work wakes the loop, healthy connections stay, and credentials follow   *)
(* the hello.                                                              *)
THEOREM ServersServe ==
  ServerSpec => [](/\ RegisteredIsOpen /\ ObjectsDestroyedOnce /\ WorkWakesLoop
                   /\ HealthyStays /\ CredsAfterHello)
  BY ServerLoops, PollerHoldsOpenStreams, ObjectsAreDestroyedOnce, WorkAlwaysWakes,
     HealthyConnectionsStay, CredsFollowHello, PTL
=============================================================================
