---------------------------- MODULE ReplicaProofs ----------------------------
(***************************************************************************)
(* Theorems about Replica, for any calls, any endpoints among upload,      *)
(* health and ping, and any clock.                                         *)
(***************************************************************************)
EXTENDS Replica, SequenceTheorems, TLAPS

-----------------------------------------------------------------------------
(***************************************************************************)
(* The steps of a call.  How many are left says which is next.             *)
(***************************************************************************)
StepName == Parts \cup {"read", "send", "receive", "answer"}

LEMMA UploadSteps ==
  ASSUME NEW k \in Kinds, k = "upload"
  PROVE  /\ Steps(k) \in Seq(StepName) /\ Len(Steps(k)) = 8
         /\ Steps(k)[1] = "authentication" /\ Steps(k)[2] = "settings"
         /\ Steps(k)[3] = "read" /\ Steps(k)[4] = "send" /\ Steps(k)[5] = "receive"
         /\ Steps(k)[6] = "storage" /\ Steps(k)[7] = "audit" /\ Steps(k)[8] = "answer"
<1> DEFINE t == <<"authentication", "settings", "read", "send", "receive", "storage",
                  "audit", "answer">>
<1>1. Steps(k) = t
  BY DEF Steps
<1>2. t \in Seq(StepName) /\ Len(t) = 8
  BY DEF StepName, Services, Parts
<1>3. /\ t[1] = "authentication" /\ t[2] = "settings" /\ t[3] = "read" /\ t[4] = "send"
      /\ t[5] = "receive" /\ t[6] = "storage" /\ t[7] = "audit" /\ t[8] = "answer"
  OBVIOUS
<1> HIDE DEF t
<1> QED
  BY <1>1, <1>2, <1>3

LEMMA HealthSteps ==
  ASSUME NEW k \in Kinds, k = "health"
  PROVE  /\ Steps(k) \in Seq(StepName) /\ Len(Steps(k)) = 9
         /\ Steps(k)[1] = "settings" /\ Steps(k)[2] = "authentication"
         /\ Steps(k)[3] = "authorisation" /\ Steps(k)[4] = "configuration"
         /\ Steps(k)[5] = "audit" /\ Steps(k)[6] = "storage" /\ Steps(k)[7] = "send"
         /\ Steps(k)[8] = "receive" /\ Steps(k)[9] = "answer"
<1> DEFINE t == <<"settings", "authentication", "authorisation", "configuration",
                  "audit", "storage", "send", "receive", "answer">>
<1>1. Steps(k) = t
  BY DEF Steps
<1>2. t \in Seq(StepName) /\ Len(t) = 9
  BY DEF StepName, Services, Parts
<1>3. /\ t[1] = "settings" /\ t[2] = "authentication" /\ t[3] = "authorisation"
      /\ t[4] = "configuration" /\ t[5] = "audit" /\ t[6] = "storage" /\ t[7] = "send"
      /\ t[8] = "receive" /\ t[9] = "answer"
  OBVIOUS
<1> HIDE DEF t
<1> QED
  BY <1>1, <1>2, <1>3

LEMMA PingSteps ==
  ASSUME NEW k \in Kinds, k = "ping"
  PROVE  Steps(k) \in Seq(StepName) /\ Len(Steps(k)) = 1 /\ Steps(k)[1] = "answer"
<1> DEFINE t == <<"answer">>
<1>1. Steps(k) = t
  BY DEF Steps
<1>2. t \in Seq(StepName) /\ Len(t) = 1 /\ t[1] = "answer"
  BY DEF StepName, Services, Parts
<1> HIDE DEF t
<1> QED
  BY <1>1, <1>2

LEMMA RestIs ==
  ASSUME NEW k \in Kinds, NEW s \in Rest(k)
  PROVE  /\ s \in Seq(StepName) /\ Len(s) \in Nat /\ Len(s) <= Len(Steps(k))
         /\ s # <<>> =>
              /\ Len(s) \in 1..Len(Steps(k))
              /\ Head(s) = Steps(k)[Len(Steps(k)) - Len(s) + 1]
              /\ Tail(s) \in Rest(k) /\ Len(Tail(s)) = Len(s) - 1
<1> DEFINE t == Steps(k)
           l == Len(Steps(k))
<1>1. t \in Seq(StepName) /\ l \in Nat \ {0}
  BY UploadSteps, HealthSteps, PingSteps, ReplicaAssumption
<1>2. PICK n \in 1..(l + 1) : s = SubSeq(t, n, l)
  BY DEF Rest
<1>3. n \in Int /\ l \in Int /\ \A i \in n..l : t[i] \in StepName
  BY <1>1, <1>2, ElementOfSeq
<1>4. /\ s \in Seq(StepName)
      /\ Len(s) = IF n <= l THEN l - n + 1 ELSE 0
      /\ \A i \in 1..(l - n + 1) : s[i] = t[n + i - 1]
  BY <1>2, <1>3, SubSeqProperties
<1>5. ASSUME s # <<>>
      PROVE  /\ Len(s) \in 1..l /\ Head(s) = t[l - Len(s) + 1]
             /\ Tail(s) \in Rest(k) /\ Len(Tail(s)) = Len(s) - 1
  <2>1. Len(s) \in Nat \ {0}
    BY <1>4, <1>5, EmptySeq
  <2>2. n <= l /\ Len(s) = l - n + 1
    BY <1>1, <1>4, <2>1
  <2>3. Head(s) = s[1]
    BY <1>4, <1>5
  <2>4. s[1] = t[n]
    BY <1>1, <1>2, <1>4, <2>2
  <2>5. l - Len(s) + 1 = n
    BY <1>1, <1>2, <2>2
  <2>6. Tail(s) = SubSeq(t, n + 1, l)
    <3>1. Tail(s) = SubSeq(s, 2, Len(s))
      BY <1>4, <1>5, TailIsSubSeq
    <3>2. SubSeq(t, n + 1, l) \in Seq(StepName) /\ Len(SubSeq(t, n + 1, l)) = l - n
          /\ \A i \in 1..(l - n) : SubSeq(t, n + 1, l)[i] = t[n + i]
      <4>1. n + 1 \in Int /\ \A i \in (n + 1)..l : t[i] \in StepName
        BY <1>2, <1>3
      <4> QED
        BY <1>1, <1>2, <2>2, <4>1, SubSeqProperties
    <3>3. /\ Tail(s) \in Seq(StepName) /\ Len(Tail(s)) = l - n
          /\ \A i \in 1..(l - n) : Tail(s)[i] = s[i + 1]
      BY <1>1, <1>2, <1>4, <1>5, <2>2, HeadTailProperties
    <3>4. \A i \in 1..(l - n) : s[i + 1] = t[n + i]
      BY <1>1, <1>2, <1>4
    <3> QED
      <4>1. \A i \in 1..(l - n) : Tail(s)[i] = SubSeq(t, n + 1, l)[i]
        BY <3>2, <3>3, <3>4
      <4> QED
        BY <3>2, <3>3, <4>1, SeqEqual
  <2>7. Tail(s) \in Rest(k)
    <3>1. n + 1 \in 1..(l + 1)
      BY <1>1, <1>2, <2>2
    <3> QED
      BY <2>6, <3>1 DEF Rest
  <2>8. Len(Tail(s)) = Len(s) - 1
    BY <1>4, <1>5, HeadTailProperties
  <2> QED
    BY <1>1, <1>2, <2>1, <2>2, <2>3, <2>4, <2>5, <2>7, <2>8
<1>6. Len(s) \in Nat /\ Len(s) <= l
  BY <1>1, <1>2, <1>4
<1> QED
  BY <1>4, <1>5, <1>6

(* What is next, of an upload and of a status report. *)
LEMMA NextStep ==
  ASSUME NEW k \in Kinds, NEW s \in Rest(k), s # <<>>
  PROVE  /\ Len(s) \in Nat \ {0} /\ Len(Tail(s)) = Len(s) - 1
         /\ Tail(s) \in Rest(k) /\ Head(s) \in StepName
         /\ k = "upload" =>
              /\ Head(s) = "answer" <=> Len(s) = 1
              /\ Head(s) = "receive" <=> Len(s) = 4
              /\ Head(s) = "send" <=> Len(s) = 5
         /\ k = "health" =>
              /\ Len(s) <= 9 /\ Head(s) # "read"
              /\ Head(s) = "answer" <=> Len(s) = 1
              /\ Head(s) = "receive" <=> Len(s) = 2
              /\ Head(s) = "send" <=> Len(s) = 3
              /\ Head(s) = "storage" <=> Len(s) = 4
              /\ Head(s) = "audit" <=> Len(s) = 5
              /\ Head(s) = "configuration" <=> Len(s) = 6
              /\ Head(s) = "authorisation" <=> Len(s) = 7
              /\ Head(s) = "authentication" <=> Len(s) = 8
              /\ Head(s) = "settings" <=> Len(s) = 9
         /\ k = "ping" => Head(s) = "answer" /\ Len(s) = 1
<1> DEFINE t == Steps(k)
           l == Len(Steps(k))
           m == Len(s)
           h == Head(s)
           rest == Tail(s)
           n == Len(Tail(s))
<1>1. m \in 1..l /\ h = t[l - m + 1] /\ rest \in Rest(k) /\ n = m - 1
  BY RestIs
<1>2. l \in Nat /\ h \in StepName
  <2>1. s \in Seq(StepName)
    BY RestIs
  <2>2. h \in StepName
    BY <2>1, HeadTailProperties
  <2>3. l \in Nat
    BY UploadSteps, HealthSteps, PingSteps, ReplicaAssumption
  <2> QED
    BY <2>2, <2>3
<1>3. k = "upload" =>
        /\ l = 8
        /\ t[1] = "authentication" /\ t[2] = "settings" /\ t[3] = "read"
        /\ t[4] = "send" /\ t[5] = "receive" /\ t[6] = "storage" /\ t[7] = "audit"
        /\ t[8] = "answer"
  BY UploadSteps
<1>4. k = "health" =>
        /\ l = 9
        /\ t[1] = "settings" /\ t[2] = "authentication" /\ t[3] = "authorisation"
        /\ t[4] = "configuration" /\ t[5] = "audit" /\ t[6] = "storage"
        /\ t[7] = "send" /\ t[8] = "receive" /\ t[9] = "answer"
  BY HealthSteps
<1>5. k = "ping" => l = 1 /\ t[1] = "answer"
  BY PingSteps
<1> HIDE DEF t, l, m, h, rest, n
<1>6. m \in Nat \ {0}
  BY <1>1, <1>2
<1>7. k = "upload" =>
        /\ h = "answer" <=> m = 1
        /\ h = "receive" <=> m = 4
        /\ h = "send" <=> m = 5
  BY <1>1, <1>3
<1>8. k = "health" =>
        /\ m <= 9 /\ h # "read"
        /\ h = "answer" <=> m = 1
        /\ h = "receive" <=> m = 2
        /\ h = "send" <=> m = 3
        /\ h = "storage" <=> m = 4
        /\ h = "audit" <=> m = 5
        /\ h = "configuration" <=> m = 6
        /\ h = "authorisation" <=> m = 7
        /\ h = "authentication" <=> m = 8
        /\ h = "settings" <=> m = 9
  BY <1>1, <1>4
<1>9. k = "ping" => h = "answer" /\ m = 1
  BY <1>1, <1>5
<1> QED
  BY <1>1, <1>2, <1>6, <1>7, <1>8, <1>9, Zenon DEF m, h, rest, n

(* Only the last step is an answer, and only the command comes before the  *)
(* reply.                                                                  *)
LEMMA StepAfter ==
  ASSUME NEW k \in Kinds, NEW s \in Rest(k), s # <<>>
  PROVE  /\ Head(s) # "answer" => Tail(s) # <<>>
         /\ Tail(s) # <<>> /\ Head(Tail(s)) = "receive" => Head(s) = "send"
<1> DEFINE m == Len(s)
           h == Head(s)
           rest == Tail(s)
           n == Len(rest)
           g == Head(rest)
<1>1. /\ m \in Nat \ {0} /\ n = m - 1 /\ rest \in Rest(k)
      /\ h = "answer" <=> m = 1
      /\ k = "upload" /\ m = 5 => h = "send"
      /\ k = "health" /\ m = 3 => h = "send"
      /\ k = "ping" => m = 1
  BY NextStep, ReplicaAssumption
<1>2. rest # <<>> =>
        /\ k = "upload" /\ g = "receive" => n = 4
        /\ k = "health" /\ g = "receive" => n = 2
        /\ k = "ping" => n = 1
  BY <1>1, NextStep
<1>3. rest = <<>> => n = 0
  BY EmptySeq
<1>4. k = "upload" \/ k = "health" \/ k = "ping"
  BY ReplicaAssumption
<1> HIDE DEF m, h, rest, n, g
<1>5. h # "answer" => rest # <<>>
  BY <1>1, <1>3
<1>6. rest # <<>> /\ g = "receive" => h = "send"
  BY <1>1, <1>2, <1>4
<1> QED
  BY <1>5, <1>6, Zenon DEF h, rest, g

LEMMA AllSteps ==
  ASSUME NEW k \in Kinds
  PROVE  /\ Steps(k) \in Rest(k) /\ <<>> \in Rest(k)
         /\ Steps(k) # <<>> /\ Head(Steps(k)) # "receive"
<1> DEFINE t == Steps(k)
           l == Len(Steps(k))
<1>1. t \in Seq(StepName) /\ l \in Nat \ {0} /\ t[1] # "receive"
  BY UploadSteps, HealthSteps, PingSteps, ReplicaAssumption
<1>2. t # <<>> /\ Head(t) = t[1]
  BY <1>1, EmptySeq
<1>3. \A i \in 1..l : t[i] \in StepName
  BY <1>1, ElementOfSeq
<1>4. t = SubSeq(t, 1, l)
  <2>1. /\ SubSeq(t, 1, l) \in Seq(StepName) /\ Len(SubSeq(t, 1, l)) = l
        /\ \A i \in 1..l : SubSeq(t, 1, l)[i] = t[i]
    BY <1>1, <1>3, SubSeqProperties
  <2> QED
    BY <1>1, <2>1, SeqEqual
<1>5. <<>> = SubSeq(t, l + 1, l)
  <2>1. SubSeq(t, l + 1, l) \in Seq(StepName) /\ Len(SubSeq(t, l + 1, l)) = 0
    BY <1>1, <1>3, SubSeqProperties
  <2> QED
    BY <2>1, EmptySeq
<1>6. 1 \in 1..(l + 1) /\ l + 1 \in 1..(l + 1)
  BY <1>1
<1> QED
  BY <1>1, <1>2, <1>4, <1>5, <1>6 DEF Rest

-----------------------------------------------------------------------------
(***************************************************************************)
(* The queue of the event loop.                                            *)
(***************************************************************************)
LEMMA Queued ==
  ASSUME NEW q \in Seq(Calls), IsInjective(q), NEW c \in Calls, c \notin ToSet(q)
  PROVE  /\ Append(q, c) \in Seq(Calls) /\ IsInjective(Append(q, c))
         /\ ToSet(Append(q, c)) = ToSet(q) \cup {c}
<1>1. /\ Append(q, c) \in Seq(Calls) /\ Len(q) \in Nat
      /\ DOMAIN q = 1..Len(q) /\ DOMAIN Append(q, c) = 1..(Len(q) + 1)
      /\ \A i \in 1..Len(q) : Append(q, c)[i] = q[i]
      /\ Append(q, c)[Len(q) + 1] = c
  BY AppendProperties, LenProperties
<1>2. \A i \in 1..Len(q) : q[i] # c
  BY <1>1 DEF ToSet
<1>3. IsInjective(Append(q, c))
  BY <1>1, <1>2 DEF IsInjective
<1>4. ToSet(Append(q, c)) = ToSet(q) \cup {c}
  BY <1>1 DEF ToSet
<1> QED
  BY <1>1, <1>3, <1>4

LEMMA Taken ==
  ASSUME NEW q \in Seq(Calls), IsInjective(q), q # <<>>
  PROVE  /\ Tail(q) \in Seq(Calls) /\ IsInjective(Tail(q))
         /\ Head(q) \in ToSet(q) /\ Head(q) \in Calls
         /\ ToSet(Tail(q)) \subseteq ToSet(q) \ {Head(q)}
<1>1. /\ Len(q) \in Nat \ {0} /\ DOMAIN q = 1..Len(q)
      /\ Tail(q) \in Seq(Calls) /\ Len(Tail(q)) = Len(q) - 1
      /\ \A i \in 1..(Len(q) - 1) : Tail(q)[i] = q[i + 1]
      /\ Head(q) \in Calls /\ Head(q) = q[1]
  BY EmptySeq, LenProperties, HeadTailProperties
<1>2. DOMAIN Tail(q) = 1..(Len(q) - 1)
  BY <1>1, LenProperties
<1>3. IsInjective(Tail(q))
  BY <1>1, <1>2 DEF IsInjective
<1>4. Head(q) \in ToSet(q) /\ ToSet(Tail(q)) \subseteq ToSet(q)
  BY <1>1, <1>2 DEF ToSet
<1>5. \A i \in 1..(Len(q) - 1) : q[i + 1] # q[1]
  BY <1>1 DEF IsInjective
<1>6. Head(q) \notin ToSet(Tail(q))
  BY <1>1, <1>2, <1>5 DEF ToSet
<1> QED
  BY <1>1, <1>3, <1>4, <1>6

-----------------------------------------------------------------------------
(***************************************************************************)
(* The invariant.                                                          *)
(***************************************************************************)
(* The queue of the loop: who waits has something to do and waits once.    *)
QueueInv ==
  /\ ready \in Seq(Calls)
  /\ running # None => todo[running] # <<>>
  /\ \A c \in ToSet(ready) : todo[c] # <<>>

(* A report is told nothing of a file. *)
FileInv ==
  \A c \in Calls : verdict[c] = "infected" => kind[c] = "upload"

(* Who waits for a reply has the loop, and the connection is its own.      *)
ScanInv ==
  \A c \in Calls :
    todo[c] # <<>> /\ Head(todo[c]) = "receive" => running = c /\ socket = c

(* The cached configuration is no newer than the last time the identity    *)
(* provider was up.                                                        *)
ClockInv ==
  /\ cachedAt <= oidcUpAt /\ oidcUpAt <= clock
  /\ state["authentication"] = "up" => oidcUpAt = clock
  /\ \A c \in Calls : cameAt[c] <= clock

(* What a report has found out of a service that it has asked. *)
Good(c, s) ==
  \/ s \in failures[c] \cup upDuring[c]
  \/ s = "authentication" /\ oidcUpAt + Ttl > cameAt[c]

(* A report has asked the services in the order of its steps, knows the    *)
(* state of each now, and lists as failed only those that were down.       *)
ReportInv ==
  \A c \in Calls :
    kind[c] = "health" =>
      /\ failures[c] \subseteq downDuring[c]
      /\ todo[c] = <<>> /\ code[c] = 0 => failures[c] = {}
      /\ todo[c] # <<>> =>
           /\ Up \subseteq upDuring[c] /\ Parts \ Up \subseteq downDuring[c]
           /\ Len(todo[c]) < 9 => Good(c, "settings")
           /\ Len(todo[c]) < 8 => Good(c, "authentication")
           /\ Len(todo[c]) < 7 => Good(c, "authorisation")
           /\ Len(todo[c]) < 6 => Good(c, "configuration")
           /\ Len(todo[c]) < 5 => Good(c, "audit")
           /\ Len(todo[c]) < 4 => Good(c, "storage")
           /\ Len(todo[c]) < 2 => Good(c, "antivirus")

ReplicaInv ==
  /\ ReplicaTypeOK /\ QueueInv /\ ScanInv /\ FileInv /\ VerdictIsOwn
  /\ ClockInv /\ ReportInv /\ HealthIsTrue

-----------------------------------------------------------------------------
(***************************************************************************)
(* What a step of the running call does: it goes on or is answered.        *)
(***************************************************************************)
Codes == {0, 200, 201, 400, 401, 403, 500, 503}

Going(c) ==
  /\ Head(todo[c]) # "answer"
  /\ todo' = [todo EXCEPT ![c] = Tail(@)] /\ code' = code
  /\ \/ running' = running
     \/ running' = None /\ Head(todo[c]) = "read"
  /\ \/ failures' = failures
     \/ \E s \in Parts :
          kind[c] = "health" /\ s \notin Up /\ failures' = Noted(c, s)

Leaving(c) ==
  /\ todo' = [todo EXCEPT ![c] = <<>>]
  /\ running' = None /\ failures' = failures
  /\ \E status \in Codes \ {0} :
       /\ code' = [code EXCEPT ![c] = status]
       /\ kind[c] = "health" =>
            /\ Head(todo[c]) = "answer"
            /\ failures[c] = {} => status = 200
            /\ failures[c] # {} => status = 503

Untouched ==
  /\ UNCHANGED <<kind, infected, ready, state, clock, changes>>
  /\ UNCHANGED historyVars

LEMMA GoOnIs ==
  ASSUME NEW c \in Calls, GoOn(c), Head(todo[c]) # "answer",
         \/ failures' = failures
         \/ \E s \in Parts :
              kind[c] = "health" /\ s \notin Up /\ failures' = Noted(c, s)
  PROVE  Going(c) /\ Untouched
BY DEF GoOn, Going, Awaits, Untouched, historyVars

LEMMA AnswerIs ==
  ASSUME NEW c \in Calls, NEW status \in Codes \ {0},
         Answer(c, status), failures' = failures,
         kind[c] = "health" =>
           /\ Head(todo[c]) = "answer"
           /\ failures[c] = {} => status = 200
           /\ failures[c] # {} => status = 503
  PROVE  Leaving(c) /\ Untouched
<1>1. Untouched
  BY DEF Answer, Untouched, historyVars
<1>2. /\ todo' = [todo EXCEPT ![c] = <<>>] /\ running' = None
      /\ code' = [code EXCEPT ![c] = status]
  BY DEF Answer
<1> QED
  BY <1>1, <1>2, Zenon DEF Leaving

LEMMA ExceptIs ==
  ASSUME NEW c \in Calls, NEW s \in Parts, Except(c, s),
         Head(todo[c]) # "answer", state[s] # "up"
  PROVE  (Going(c) \/ Leaving(c)) /\ Untouched
<1>1. s \notin Up
  BY DEF Up
<1>2. CASE kind[c] = "health"
  BY <1>1, <1>2, GoOnIs DEF Except
<1>3. CASE kind[c] # "health"
  <2>1. PICK status \in {401, 403, 500} : Answer(c, status) /\ failures' = failures
    BY <1>3 DEF Except
  <2>2. status \in Codes \ {0}
    BY DEF Codes
  <2> QED
    BY <1>3, <2>1, <2>2, AnswerIs
<1> QED
  BY <1>2, <1>3

LEMMA StepIs ==
  ASSUME ReplicaTypeOK, NEW c \in Calls, Step(c)
  PROVE  /\ running = c /\ todo[c] # <<>>
         /\ Going(c) \/ Leaving(c)
         /\ Untouched
         /\ \/ verdict' = verdict
            \/ /\ Head(todo[c]) = "receive"
               /\ verdict' = [verdict EXCEPT ![c] =
                     IF socket # None /\ infected[socket] /\ kind[socket] = "upload"
                     THEN "infected" ELSE "clean"]
         /\ socket' = IF Head(todo[c]) = "send" THEN c
                      ELSE IF Head(todo[c]) = "receive" THEN None ELSE socket
         /\ \/ cachedAt' = cachedAt
            \/ cachedAt' = clock /\ state["authentication"] = "up"
<1>1. CASE Oidc(c)
  <2>1. At(c, "authentication")
    BY <1>1 DEF Oidc
  <2>2. (Going(c) \/ Leaving(c)) /\ Untouched
    BY <1>1, <2>1, GoOnIs, ExceptIs DEF Oidc, At, Services, Parts
  <2> QED
    BY <1>1, <2>1, <2>2 DEF Oidc, At, FetchTime
<1>2. ASSUME NEW s \in Parts \ {"authentication", "antivirus"}, Ask(c, s)
      PROVE  /\ running = c /\ todo[c] # <<>>
             /\ Head(todo[c]) \notin {"send", "receive"}
             /\ (Going(c) \/ Leaving(c)) /\ Untouched
             /\ verdict' = verdict /\ socket' = socket /\ cachedAt' = cachedAt
  BY <1>2, GoOnIs, ExceptIs DEF Ask, At, Services, Parts
<1>3. CASE Read(c)
  BY <1>3, GoOnIs DEF Read, At
<1>4. CASE Send(c)
  BY <1>4, GoOnIs DEF Send, At
<1>5. CASE Receive(c)
  <2>1. At(c, "receive")
    BY <1>5 DEF Receive
  <2>2. (Going(c) \/ Leaving(c)) /\ Untouched
    BY <1>5, <2>1, GoOnIs, ExceptIs DEF Receive, At, Services, Parts
  <2>3. socket' = None /\ cachedAt' = cachedAt
    BY <1>5 DEF Receive
  <2>4. \/ verdict' = verdict
        \/ verdict' = [verdict EXCEPT ![c] =
              IF socket # None /\ infected[socket] /\ kind[socket] = "upload"
              THEN "infected" ELSE "clean"]
    BY <1>5 DEF Receive
  <2> QED
    BY <2>1, <2>2, <2>3, <2>4 DEF At
<1>6. CASE End(c)
  <2>1. At(c, "answer") /\ UNCHANGED <<failures, verdict, socket, cachedAt>>
    BY <1>6 DEF End
  <2>2. PICK status :
          /\ Answer(c, status)
          /\ status = CASE kind[c] = "ping" -> 200
                        [] kind[c] = "health" -> IF HasFailures(c) THEN 503 ELSE 200
                        [] kind[c] = "upload" ->
                             IF verdict[c] = "infected" THEN 400 ELSE 201
    BY <1>6 DEF End
  <2>3. kind[c] \in {"ping", "health", "upload"}
    <3>1. kind[c] \in Kinds
      BY DEF ReplicaTypeOK
    <3> QED
      BY <3>1, ReplicaAssumption
  <2>4. status \in Codes \ {0}
    BY <2>2, <2>3 DEF Codes
  <2>5. kind[c] = "health" =>
          /\ failures[c] = {} => status = 200
          /\ failures[c] # {} => status = 503
    BY <2>2 DEF HasFailures
  <2>6. Leaving(c) /\ Untouched
    <3>1. Head(todo[c]) = "answer" /\ failures' = failures
      BY <2>1 DEF At
    <3>2. Answer(c, status)
      BY <2>2
    <3> QED
      BY <2>4, <2>5, <3>1, <3>2, AnswerIs
  <2> QED
    BY <2>1, <2>6 DEF At
<1> QED
  BY <1>1, <1>2, <1>3, <1>4, <1>5, <1>6 DEF Step

-----------------------------------------------------------------------------
(***************************************************************************)
(* Each conjunct is kept.                                                  *)
(***************************************************************************)
(* What a step of the running call leaves to do, to it and to the others. *)
LEMMA LeftToDo ==
  ASSUME ReplicaTypeOK, NEW c \in Calls, Step(c)
  PROVE  /\ DOMAIN todo' = Calls
         /\ \A d \in Calls \ {c} : todo'[d] = todo[d]
         /\ todo'[c] \in Rest(kind[c])
         /\ Going(c) => todo'[c] = Tail(todo[c]) /\ todo'[c] # <<>>
         /\ Leaving(c) => todo'[c] = <<>>
<1>1. /\ todo[c] # <<>>
      /\ Going(c) \/ Leaving(c)
      /\ kind[c] \in Kinds /\ todo[c] \in Rest(kind[c]) /\ DOMAIN todo = Calls
  BY StepIs DEF ReplicaTypeOK
<1>2. /\ Tail(todo[c]) \in Rest(kind[c]) /\ <<>> \in Rest(kind[c])
      /\ Head(todo[c]) # "answer" => Tail(todo[c]) # <<>>
  BY <1>1, NextStep, StepAfter, AllSteps
<1>3. CASE Going(c)
  <2>1. todo' = [todo EXCEPT ![c] = Tail(todo[c])] /\ Head(todo[c]) # "answer"
    BY <1>3 DEF Going
  <2>2. todo'[c] # <<>> /\ todo'[c] = Tail(todo[c])
    BY <1>1, <1>2, <2>1
  <2>3. ~Leaving(c)
    BY <1>1, <2>2 DEF Leaving
  <2> QED
    BY <1>1, <1>2, <2>1, <2>2, <2>3
<1>4. CASE Leaving(c)
  <2>1. todo' = [todo EXCEPT ![c] = <<>>]
    BY <1>4 DEF Leaving
  <2>2. todo'[c] = <<>>
    BY <1>1, <2>1
  <2>3. ~Going(c)
    BY <1>1, <1>2, <2>2 DEF Going
  <2> QED
    BY <1>1, <1>2, <2>1, <2>2, <2>3
<1> QED
  BY <1>1, <1>3, <1>4

(* The same for the call that arrives. *)
LEMMA ArriveIs ==
  ASSUME ReplicaInv, NEW c \in Calls, Arrive(c)
  PROVE  /\ code[c] = 0 /\ todo[c] = <<>> /\ c # running /\ c \notin ToSet(ready)
         /\ DOMAIN todo' = Calls
         /\ \A d \in Calls \ {c} : todo'[d] = todo[d]
         /\ todo'[c] = Steps(kind[c]) /\ todo'[c] \in Rest(kind[c])
         /\ todo'[c] # <<>> /\ Head(todo'[c]) # "receive"
<1>1. code[c] = 0 /\ todo[c] = <<>> /\ todo' = [todo EXCEPT ![c] = Steps(kind[c])]
  BY DEF Arrive
<1>2. kind[c] \in Kinds /\ DOMAIN todo = Calls /\ running \in Calls \cup {None}
  BY DEF ReplicaInv, ReplicaTypeOK
<1>3. c # running /\ c \notin ToSet(ready)
  BY <1>1, <1>2, ReplicaAssumption DEF ReplicaInv, QueueInv
<1>4. /\ Steps(kind[c]) \in Rest(kind[c]) /\ Steps(kind[c]) # <<>>
      /\ Head(Steps(kind[c])) # "receive"
  BY <1>2, AllSteps
<1>5. DOMAIN todo' = Calls /\ todo'[c] = Steps(kind[c])
      /\ \A d \in Calls \ {c} : todo'[d] = todo[d]
  BY <1>1, <1>2
<1> QED
  BY <1>1, <1>3, <1>4, <1>5

QueueTypeOK ==
  /\ ToSet(ready) \subseteq Calls /\ IsInjective(ready)
  /\ running \in Calls \cup {None}
  /\ running \notin ToSet(ready)
  /\ DOMAIN todo = Calls /\ \A c \in Calls : todo[c] \in Rest(kind[c])

LEMMA QueueStep ==
  ASSUME ReplicaInv, ReplicaNext
  PROVE  QueueTypeOK' /\ QueueInv' /\ kind' = kind
<1> USE DEF ReplicaInv
<1>1. /\ QueueTypeOK /\ ready \in Seq(Calls) /\ kind \in [Calls -> Kinds]
      /\ running # None => todo[running] # <<>>
      /\ \A d \in ToSet(ready) : todo[d] # <<>>
  BY DEF ReplicaTypeOK, QueueTypeOK, QueueInv
<1>2. ASSUME NEW c \in Calls, Arrive(c)
      PROVE  QueueTypeOK' /\ QueueInv' /\ kind' = kind
  <2>1. ready' = Append(ready, c) /\ running' = running /\ kind' = kind
    BY <1>2 DEF Arrive
  <2>2. /\ ready' \in Seq(Calls) /\ IsInjective(ready')
        /\ ToSet(ready') = ToSet(ready) \cup {c}
    BY <1>1, <1>2, <2>1, ArriveIs, Queued DEF QueueTypeOK
  <2>3. QueueTypeOK'
    BY <1>1, <1>2, <2>1, <2>2, ArriveIs DEF QueueTypeOK
  <2>4. QueueInv'
    BY <1>1, <1>2, <2>1, <2>2, ArriveIs DEF QueueTypeOK, QueueInv
  <2> QED
    BY <2>1, <2>3, <2>4
<1>3. ASSUME NEW c \in Calls, Wake(c)
      PROVE  QueueTypeOK' /\ QueueInv' /\ kind' = kind
  <2>1. /\ todo[c] # <<>> /\ c # running /\ c \notin ToSet(ready)
        /\ ready' = Append(ready, c) /\ UNCHANGED <<running, kind, todo>>
    BY <1>3 DEF Wake
  <2>2. /\ ready' \in Seq(Calls) /\ IsInjective(ready')
        /\ ToSet(ready') = ToSet(ready) \cup {c}
    BY <1>1, <2>1, Queued DEF QueueTypeOK
  <2> QED
    BY <1>1, <2>1, <2>2 DEF QueueTypeOK, QueueInv
<1>4. CASE Resume
  <2>1. /\ ready # <<>> /\ running' = Head(ready) /\ ready' = Tail(ready)
        /\ UNCHANGED <<kind, todo>>
    BY <1>4 DEF Resume
  <2>2. /\ ready' \in Seq(Calls) /\ IsInjective(ready')
        /\ running' \in ToSet(ready) /\ running' \in Calls
        /\ ToSet(ready') \subseteq ToSet(ready) \ {running'}
    BY <1>1, <2>1, Taken DEF QueueTypeOK
  <2> QED
    BY <1>1, <2>1, <2>2 DEF QueueTypeOK, QueueInv
<1>5. ASSUME NEW c \in Calls, Step(c)
      PROVE  QueueTypeOK' /\ QueueInv' /\ kind' = kind
  <2>1. running = c /\ ready' = ready /\ kind' = kind
    BY <1>5, StepIs DEF Untouched
  <2>2. \/ running' = None
        \/ running' = c /\ todo'[c] # <<>>
    BY <1>5, <2>1, StepIs, LeftToDo DEF Going, Leaving
  <2>3. /\ DOMAIN todo' = Calls /\ \A d \in Calls \ {c} : todo'[d] = todo[d]
        /\ todo'[c] \in Rest(kind[c])
    BY <1>1, <1>5, LeftToDo DEF ReplicaTypeOK
  <2>4. c \notin ToSet(ready)
    BY <1>1, <2>1 DEF QueueTypeOK
  <2>5. QueueTypeOK'
    BY <1>1, <2>1, <2>2, <2>3, ReplicaAssumption DEF QueueTypeOK
  <2>6. QueueInv'
    BY <1>1, <2>1, <2>2, <2>3, <2>4 DEF QueueTypeOK, QueueInv
  <2> QED
    BY <2>1, <2>5, <2>6
<1>6. ASSUME \/ \E s \in Services \cup {"configuration"} : Change(s)
             \/ Tick
      PROVE  QueueTypeOK' /\ QueueInv' /\ kind' = kind
  <2>1. UNCHANGED <<ready, running, kind, todo>>
    BY <1>6 DEF Change, Tick, callVars
  <2> QED
    BY <1>1, <2>1 DEF QueueTypeOK, QueueInv
<1> QED
  BY <1>2, <1>3, <1>4, <1>5, <1>6 DEF ReplicaNext

AnswersOK ==
  /\ kind \in [Calls -> Kinds] /\ infected \in [Calls -> BOOLEAN]
  /\ code \in [Calls -> Codes] /\ failures \in [Calls -> SUBSET Parts]
  /\ verdict \in [Calls -> {"none", "clean", "infected"}]

WorldOK ==
  /\ cachedAt \in -1..MaxTime
  /\ state \in [Parts -> {"up", "down", "silent"}]
  /\ clock \in 0..MaxTime /\ changes \in 0..MaxChanges
  /\ upDuring \in [Calls -> SUBSET Parts]
  /\ downDuring \in [Calls -> SUBSET Parts]
  /\ cameAt \in [Calls -> 0..MaxTime] /\ oidcUpAt \in 0..MaxTime

SocketOK == socket \in Calls \cup {None}

LEMMA TypeStep ==
  ASSUME ReplicaInv, ReplicaNext
  PROVE  ReplicaTypeOK'
<1> USE DEF ReplicaInv
<1>1. AnswersOK /\ WorldOK /\ SocketOK
  BY DEF ReplicaTypeOK, Codes, AnswersOK, WorldOK, SocketOK
<1>2. QueueTypeOK'
  BY QueueStep
<1>3. ASSUME NEW c \in Calls, Arrive(c)
      PROVE  AnswersOK' /\ WorldOK' /\ SocketOK'
  <2>1. /\ UNCHANGED <<kind, infected, code, failures, verdict, socket, cachedAt>>
        /\ UNCHANGED <<state, clock, changes, oidcUpAt>>
        /\ upDuring' \in {upDuring, [upDuring EXCEPT ![c] = Up]}
        /\ downDuring' \in {downDuring, [downDuring EXCEPT ![c] = Parts \ Up]}
        /\ cameAt' \in {cameAt, [cameAt EXCEPT ![c] = clock]}
    BY <1>3 DEF Arrive
  <2>2. Up \in SUBSET Parts /\ Parts \ Up \in SUBSET Parts
    BY DEF Up
  <2>3. upDuring' \in [Calls -> SUBSET Parts] /\ downDuring' \in [Calls -> SUBSET Parts]
    BY <1>1, <2>1, <2>2 DEF AnswersOK, WorldOK, SocketOK
  <2>4. cameAt' \in [Calls -> 0..MaxTime]
    BY <1>1, <2>1 DEF AnswersOK, WorldOK, SocketOK
  <2> QED
    BY <1>1, <2>1, <2>3, <2>4 DEF AnswersOK, WorldOK, SocketOK
<1>4. ASSUME (\E c \in Calls : Wake(c)) \/ Resume
      PROVE  AnswersOK' /\ WorldOK' /\ SocketOK'
  BY <1>1, <1>4 DEF Wake, Resume, historyVars, AnswersOK, WorldOK, SocketOK
<1>5. ASSUME NEW c \in Calls, Step(c)
      PROVE  AnswersOK' /\ WorldOK' /\ SocketOK'
  <2>1. /\ UNCHANGED <<kind, infected, state, clock, changes>>
        /\ UNCHANGED <<upDuring, downDuring, cameAt, oidcUpAt>>
    BY <1>5, StepIs DEF Untouched, historyVars
  <2>2. code' \in [Calls -> Codes]
    <3>1. CASE code' = code
      BY <1>1, <3>1 DEF AnswersOK, WorldOK, SocketOK
    <3>2. ASSUME NEW status \in Codes, code' = [code EXCEPT ![c] = status]
          PROVE  code' \in [Calls -> Codes]
      BY <1>1, <3>2 DEF AnswersOK, WorldOK, SocketOK
    <3> QED
      BY <1>5, <3>1, <3>2, StepIs DEF Going, Leaving
  <2>3. failures' \in [Calls -> SUBSET Parts]
    <3>1. CASE failures' = failures
      BY <1>1, <3>1 DEF AnswersOK, WorldOK, SocketOK
    <3>2. ASSUME NEW s \in Parts, failures' = Noted(c, s)
          PROVE  failures' \in [Calls -> SUBSET Parts]
      BY <1>1, <3>2 DEF Noted, AnswersOK, WorldOK, SocketOK
    <3> QED
      BY <1>5, <3>1, <3>2, StepIs DEF Going, Leaving
  <2>4. verdict' \in [Calls -> {"none", "clean", "infected"}]
    BY <1>1, <1>5, StepIs DEF AnswersOK, WorldOK, SocketOK
  <2>5. SocketOK'
    BY <1>1, <1>5, StepIs DEF AnswersOK, WorldOK, SocketOK
  <2>6. cachedAt' \in -1..MaxTime
    <3>1. cachedAt' = cachedAt \/ cachedAt' = clock
      BY <1>5, StepIs
    <3> QED
      BY <1>1, <3>1 DEF AnswersOK, WorldOK, SocketOK
  <2> QED
    BY <1>1, <2>1, <2>2, <2>3, <2>4, <2>5, <2>6 DEF AnswersOK, WorldOK, SocketOK
<1>6. ASSUME NEW s \in Services \cup {"configuration"}, Change(s)
      PROVE  AnswersOK' /\ WorldOK' /\ SocketOK'
  <2>1. /\ UNCHANGED <<kind, infected, code, failures, verdict, socket, cachedAt>>
        /\ UNCHANGED <<clock, cameAt>>
        /\ changes < MaxChanges /\ changes' = changes + 1
        /\ oidcUpAt' \in {clock, oidcUpAt}
    BY <1>6 DEF Change, callVars
  <2>2. /\ state' \in [Parts -> {"up", "down", "silent"}]
        /\ upDuring' \in [Calls -> SUBSET Parts]
        /\ downDuring' \in [Calls -> SUBSET Parts]
    <3>1. s \in Parts
      BY DEF Parts
    <3> QED
      BY <1>1, <1>6, <3>1 DEF Change, AnswersOK, WorldOK, SocketOK
  <2>3. changes' \in 0..MaxChanges
    BY <1>1, <2>1, ReplicaAssumption DEF AnswersOK, WorldOK, SocketOK
  <2> QED
    BY <1>1, <2>1, <2>2, <2>3 DEF AnswersOK, WorldOK, SocketOK
<1>7. ASSUME Tick
      PROVE  AnswersOK' /\ WorldOK' /\ SocketOK'
  <2>1. /\ UNCHANGED <<kind, infected, code, failures, verdict, socket, cachedAt>>
        /\ UNCHANGED <<state, changes, upDuring, downDuring, cameAt>>
        /\ clock < MaxTime /\ clock' = clock + 1
        /\ oidcUpAt' \in {clock', oidcUpAt}
    BY <1>7 DEF Tick, callVars
  <2>2. clock' \in 0..MaxTime /\ oidcUpAt' \in 0..MaxTime
    BY <1>1, <2>1, ReplicaAssumption DEF AnswersOK, WorldOK, SocketOK
  <2>3. WorldOK'
    <3>1. UNCHANGED <<cachedAt, state, changes, upDuring, downDuring, cameAt>>
      BY <2>1
    <3> QED
      BY <1>1, <2>2, <3>1 DEF AnswersOK, WorldOK, SocketOK
  <2>4. AnswersOK' /\ SocketOK'
    <3>1. UNCHANGED <<kind, infected, code, failures, verdict, socket>>
      BY <2>1
    <3> QED
      BY <1>1, <3>1 DEF AnswersOK, WorldOK, SocketOK
  <2> QED
    BY <2>3, <2>4
<1>8. AnswersOK' /\ WorldOK' /\ SocketOK'
  BY <1>3, <1>4, <1>5, <1>6, <1>7 DEF ReplicaNext
<1> QED
  BY <1>2, <1>8 DEF ReplicaTypeOK, QueueTypeOK, Codes, AnswersOK, WorldOK, SocketOK

(* Nobody is given the loop between a command and its reply. *)
LEMMA ScanStep ==
  ASSUME ReplicaInv, ReplicaNext
  PROVE  ScanInv' /\ FileInv' /\ VerdictIsOwn'
<1> USE DEF ReplicaInv
<1>1. /\ running \in Calls \cup {None} /\ None \notin Calls
      /\ kind \in [Calls -> Kinds] /\ infected \in [Calls -> BOOLEAN]
      /\ verdict \in [Calls -> {"none", "clean", "infected"}]
      /\ \A d \in Calls : todo[d] \in Rest(kind[d])
  BY ReplicaAssumption DEF ReplicaTypeOK
<1>2. ASSUME NEW c \in Calls, Arrive(c)
      PROVE  ScanInv' /\ FileInv' /\ VerdictIsOwn'
  <2>1. UNCHANGED <<running, socket, kind, infected, verdict>>
    BY <1>2 DEF Arrive
  <2>2. ScanInv'
    BY <1>2, <2>1, ArriveIs DEF ScanInv
  <2> QED
    BY <2>1, <2>2 DEF FileInv, VerdictIsOwn
<1>3. ASSUME \/ \E c \in Calls : Wake(c)
             \/ \E s \in Services \cup {"configuration"} : Change(s)
             \/ Tick
      PROVE  ScanInv' /\ FileInv' /\ VerdictIsOwn'
  <2>1. UNCHANGED <<running, socket, kind, infected, verdict, todo>>
    BY <1>3 DEF Wake, Change, Tick, callVars
  <2> QED
    BY <2>1 DEF ScanInv, FileInv, VerdictIsOwn
<1>4. CASE Resume
  <2>1. running = None /\ UNCHANGED <<socket, kind, infected, verdict, todo>>
    BY <1>4 DEF Resume
  <2>2. \A d \in Calls : ~(todo[d] # <<>> /\ Head(todo[d]) = "receive")
    BY <1>1, <2>1 DEF ScanInv
  <2> QED
    BY <2>1, <2>2 DEF ScanInv, FileInv, VerdictIsOwn
<1>5. ASSUME NEW c \in Calls, Step(c)
      PROVE  ScanInv' /\ FileInv' /\ VerdictIsOwn'
  <2>1. running = c /\ todo[c] # <<>> /\ UNCHANGED <<kind, infected>>
    BY <1>5, StepIs DEF Untouched
  <2>2. ScanInv'
    <3> SUFFICES ASSUME NEW d \in Calls, todo'[d] # <<>>, Head(todo'[d]) = "receive"
                 PROVE  running' = d /\ socket' = d
      BY DEF ScanInv
    <3>1. d = c
      <4>1. d # c => todo[d] # <<>> /\ Head(todo[d]) = "receive"
        BY <1>5, LeftToDo
      <4> QED
        BY <2>1, <4>1 DEF ScanInv
    <3>2. Going(c) /\ todo'[c] = Tail(todo[c])
      BY <1>5, <3>1, StepIs, LeftToDo
    <3>3. Head(todo[c]) = "send"
      BY <1>1, <2>1, <3>1, <3>2, StepAfter
    <3>4. running' = c /\ socket' = c
      BY <1>5, <2>1, <3>2, <3>3, StepIs DEF Going
    <3> QED
      BY <3>1, <3>4
  <2>3. FileInv' /\ VerdictIsOwn'
    <3>1. CASE verdict' = verdict
      BY <2>1, <3>1 DEF FileInv, VerdictIsOwn
    <3>2. CASE /\ Head(todo[c]) = "receive"
               /\ verdict' = [verdict EXCEPT ![c] =
                     IF socket # None /\ infected[socket] /\ kind[socket] = "upload"
                     THEN "infected" ELSE "clean"]
      <4>1. socket = c /\ c # None
        BY <1>1, <2>1, <3>2 DEF ScanInv
      <4>2. kind[c] = "upload" =>
              (verdict'[c] = "infected") = infected[c]
        BY <1>1, <3>2, <4>1
      <4>4. verdict'[c] = "infected" => kind[c] = "upload"
        BY <1>1, <3>2, <4>1
      <4>3. \A d \in Calls \ {c} : verdict'[d] = verdict[d]
        BY <1>1, <3>2
      <4> QED
        BY <2>1, <4>2, <4>3, <4>4 DEF FileInv, VerdictIsOwn
    <3> QED
      BY <1>5, <3>1, <3>2, StepIs
  <2> QED
    BY <2>2, <2>3
<1> QED
  BY <1>2, <1>3, <1>4, <1>5 DEF ReplicaNext

LEMMA ClockStep ==
  ASSUME ReplicaInv, ReplicaNext
  PROVE  /\ ClockInv'
         /\ clock <= clock' /\ oidcUpAt <= oidcUpAt'
<1> USE DEF ReplicaInv
<1>1. /\ clock \in Int /\ oidcUpAt \in Int /\ cachedAt \in Int
      /\ cameAt \in [Calls -> Int] /\ state \in [Parts -> {"up", "down", "silent"}]
      /\ cachedAt <= oidcUpAt /\ oidcUpAt <= clock
      /\ state["authentication"] = "up" => oidcUpAt = clock
      /\ \A c \in Calls : cameAt[c] <= clock
  BY ReplicaAssumption DEF ReplicaTypeOK, ClockInv
<1>2. ASSUME NEW c \in Calls, Arrive(c)
      PROVE  ClockInv' /\ clock <= clock' /\ oidcUpAt <= oidcUpAt'
  <2>1. /\ UNCHANGED <<clock, oidcUpAt, cachedAt, state>>
        /\ cameAt' = cameAt \/ cameAt' = [cameAt EXCEPT ![c] = clock]
    BY <1>2 DEF Arrive
  <2>2. \A d \in Calls : cameAt'[d] = cameAt[d] \/ cameAt'[d] = clock
    BY <1>1, <2>1
  <2>3. \A d \in Calls : cameAt'[d] <= clock
    BY <1>1, <2>2
  <2> QED
    BY <1>1, <2>1, <2>3 DEF ClockInv
<1>3. ASSUME (\E c \in Calls : Wake(c)) \/ Resume
      PROVE  ClockInv' /\ clock <= clock' /\ oidcUpAt <= oidcUpAt'
  <2>1. UNCHANGED <<clock, oidcUpAt, cachedAt, state, cameAt>>
    BY <1>3 DEF Wake, Resume, historyVars
  <2> QED
    BY <1>1, <2>1 DEF ClockInv
<1>4. ASSUME NEW c \in Calls, Step(c)
      PROVE  ClockInv' /\ clock <= clock' /\ oidcUpAt <= oidcUpAt'
  <2>1. UNCHANGED <<clock, oidcUpAt, state, cameAt>>
    BY <1>4, StepIs DEF Untouched, historyVars, ReplicaInv
  <2>2. \/ cachedAt' = cachedAt
        \/ cachedAt' = clock /\ state["authentication"] = "up"
    BY <1>4, StepIs
  <2>3. cachedAt' <= oidcUpAt
    BY <1>1, <2>2
  <2> QED
    BY <1>1, <2>1, <2>3 DEF ClockInv
<1>5. ASSUME NEW s \in Services \cup {"configuration"}, Change(s)
      PROVE  ClockInv' /\ clock <= clock' /\ oidcUpAt <= oidcUpAt'
  <2>1. /\ UNCHANGED <<clock, cachedAt, cameAt>>
        /\ oidcUpAt' = IF s = "authentication" THEN clock ELSE oidcUpAt
    BY <1>5 DEF Change
  <2>2. s # "authentication" => state'["authentication"] = state["authentication"]
    BY <1>1, <1>5 DEF Change, Services, Parts
  <2> QED
    BY <1>1, <2>1, <2>2 DEF ClockInv
<1>6. ASSUME Tick
      PROVE  ClockInv' /\ clock <= clock' /\ oidcUpAt <= oidcUpAt'
  <2>1. /\ UNCHANGED <<cachedAt, cameAt, state>> /\ clock' = clock + 1
        /\ oidcUpAt' = IF state["authentication"] = "up" THEN clock' ELSE oidcUpAt
    BY <1>6 DEF Tick
  <2>2. \A c \in Calls : cameAt'[c] <= clock'
    BY <1>1, <2>1
  <2>3. /\ cachedAt' <= oidcUpAt' /\ oidcUpAt' <= clock'
        /\ clock <= clock' /\ oidcUpAt <= oidcUpAt'
        /\ state["authentication"] = "up" => oidcUpAt' = clock'
    BY <1>1, <2>1
  <2> QED
    BY <2>1, <2>2, <2>3 DEF ClockInv
<1> QED
  BY <1>2, <1>3, <1>4, <1>5, <1>6 DEF ReplicaNext

(* What a report has found out stays found out. *)
LEMMA StaysGood ==
  ASSUME ReplicaInv, ReplicaNext, NEW c \in Calls, NEW s \in Parts, Good(c, s),
         failures[c] \subseteq failures'[c], upDuring[c] \subseteq upDuring'[c],
         cameAt'[c] = cameAt[c]
  PROVE  Good(c, s)'
<1>1. /\ oidcUpAt \in Int /\ oidcUpAt' \in Int /\ oidcUpAt <= oidcUpAt'
      /\ cameAt[c] \in Int /\ Ttl \in Int
  BY TypeStep, ClockStep, ReplicaAssumption DEF ReplicaInv, ReplicaTypeOK
<1>2. oidcUpAt + Ttl > cameAt[c] => oidcUpAt' + Ttl > cameAt'[c]
  BY <1>1
<1> QED
  BY <1>2 DEF Good

(* A report knows of the service that it has just asked. *)
LEMMA Asked ==
  ASSUME ReplicaInv, NEW c \in Calls, Step(c), kind[c] = "health",
         NEW s \in Parts,
         Head(todo[c]) = IF s = "antivirus" THEN "receive" ELSE s
  PROVE  Good(c, s)'
<1> USE DEF ReplicaInv
<1>1. /\ todo[c] # <<>> /\ upDuring' = upDuring /\ cameAt' = cameAt
      /\ oidcUpAt' = oidcUpAt
  BY StepIs DEF Untouched, historyVars
<1>2. state[s] = "up" => s \in upDuring[c]
  BY <1>1 DEF ReportInv, Up
<1>3. failures' = Noted(c, s) => s \in failures'[c]
  BY DEF ReplicaTypeOK, Noted
<1>4. ASSUME NEW n \in Parts \ {"authentication", "antivirus"}, Ask(c, n)
      PROVE  s = n /\ (state[s] = "up" \/ failures' = Noted(c, s))
  <2>1. s = n
    BY <1>4 DEF Ask, At, Services, Parts
  <2>2. ~Skipped(c, n)
    BY DEF FileInv, Skipped
  <2> QED
    BY <1>4, <2>1, <2>2 DEF Ask, Except
<1>5. ASSUME Receive(c)
      PROVE  s = "antivirus" /\ (state[s] = "up" \/ failures' = Noted(c, s))
  <2>1. s = "antivirus"
    BY <1>5 DEF Receive, At, Services, Parts
  <2> QED
    BY <1>5, <2>1 DEF Receive, Except
<1>6. ASSUME Oidc(c)
      PROVE  /\ s = "authentication"
             /\ state[s] = "up" \/ failures' = Noted(c, s) \/ oidcUpAt + Ttl > cameAt[c]
  <2>1. s = "authentication"
    BY <1>6 DEF Oidc, At, Services, Parts
  <2>2. CASE Cached
    <3>1. /\ clock \in Int /\ cachedAt \in Int /\ oidcUpAt \in Int /\ Ttl \in Int
          /\ cameAt[c] \in Int /\ cameAt[c] <= clock /\ cachedAt <= oidcUpAt
          /\ clock < cachedAt + Ttl
      BY <2>2, ReplicaAssumption DEF ReplicaTypeOK, ClockInv, Cached
    <3>2. oidcUpAt + Ttl > cameAt[c]
      BY <3>1
    <3> QED
      BY <2>1, <3>2
  <2>3. CASE ~Cached
    BY <1>6, <2>1, <2>3 DEF Oidc, Except
  <2> QED
    BY <2>2, <2>3
<1>7. ~Read(c) /\ ~Send(c) /\ ~End(c)
  BY DEF Read, Send, End, At, Services, Parts
<1> QED
  BY <1>1, <1>2, <1>3, <1>4, <1>5, <1>6, <1>7 DEF Step, Good

(* ReportInv and HealthIsTrue of one call. *)
Report(c) ==
  kind[c] = "health" =>
    /\ failures[c] \subseteq downDuring[c]
    /\ todo[c] = <<>> /\ code[c] = 0 => failures[c] = {}
    /\ todo[c] # <<>> =>
         /\ Up \subseteq upDuring[c] /\ Parts \ Up \subseteq downDuring[c]
         /\ Len(todo[c]) < 9 => Good(c, "settings")
         /\ Len(todo[c]) < 8 => Good(c, "authentication")
         /\ Len(todo[c]) < 7 => Good(c, "authorisation")
         /\ Len(todo[c]) < 6 => Good(c, "configuration")
         /\ Len(todo[c]) < 5 => Good(c, "audit")
         /\ Len(todo[c]) < 4 => Good(c, "storage")
         /\ Len(todo[c]) < 2 => Good(c, "antivirus")

Health(c) ==
  kind[c] = "health" =>
    /\ code[c] = 200 =>
         /\ Parts \ {"authentication"} \subseteq upDuring[c]
         /\ "authentication" \in upDuring[c] \/ oidcUpAt + Ttl > cameAt[c]
    /\ code[c] = 503 => downDuring[c] # {}

(* Nobody else's step, and no change of a service, makes a report wrong. *)
LEMMA OthersReport ==
  ASSUME ReplicaInv, ReplicaNext, NEW c \in Calls,
         todo'[c] = todo[c], code'[c] = code[c],
         failures'[c] = failures[c], cameAt'[c] = cameAt[c],
         upDuring[c] \subseteq upDuring'[c], downDuring[c] \subseteq downDuring'[c],
         kind[c] = "health" /\ todo[c] # <<>> =>
           Up' \subseteq upDuring'[c] /\ Parts \ Up' \subseteq downDuring'[c]
  PROVE  Report(c)' /\ Health(c)'
<1>1. Report(c) /\ Health(c) /\ kind' = kind
  BY QueueStep DEF ReplicaInv, ReportInv, HealthIsTrue, Report, Health
<1>2. /\ oidcUpAt \in Int /\ oidcUpAt' \in Int /\ oidcUpAt <= oidcUpAt'
      /\ cameAt[c] \in Int /\ Ttl \in Int
  BY TypeStep, ClockStep, ReplicaAssumption DEF ReplicaInv, ReplicaTypeOK
<1>3. \A s \in Parts : Good(c, s) => Good(c, s)'
  BY StaysGood
<1>4. Report(c)'
  BY <1>1, <1>3 DEF Report, Services, Parts
<1>5. oidcUpAt + Ttl > cameAt[c] => oidcUpAt' + Ttl > cameAt'[c]
  BY <1>2
<1>6. Health(c)'
  BY <1>1, <1>5 DEF Health
<1> QED
  BY <1>4, <1>6

(* A report finds out what it has asked next, and answers what it knows. *)
LEMMA OwnReport ==
  ASSUME ReplicaInv, ReplicaNext, NEW c \in Calls, Step(c), kind[c] = "health"
  PROVE  Report(c)' /\ Health(c)'
<1> DEFINE m == Len(todo[c])
           h == Head(todo[c])
           n == Len(todo'[c])
<1>1. /\ todo[c] # <<>>
      /\ Going(c) \/ Leaving(c)
      /\ UNCHANGED <<upDuring, downDuring, cameAt, oidcUpAt, kind, state>>
  BY StepIs DEF Untouched, historyVars, ReplicaInv
<1>2. Report(c)
  BY DEF ReplicaInv, ReportInv, Report
<1>3. /\ kind[c] \in Kinds /\ todo[c] \in Rest(kind[c])
      /\ failures \in [Calls -> SUBSET Parts] /\ code \in [Calls -> Codes]
  BY DEF ReplicaInv, ReplicaTypeOK, Codes
<1>4. /\ m \in Nat \ {0} /\ m <= 9 /\ Len(Tail(todo[c])) = m - 1
      /\ h = "answer" <=> m = 1
      /\ h = "receive" <=> m = 2
      /\ h = "storage" <=> m = 4
      /\ h = "audit" <=> m = 5
      /\ h = "configuration" <=> m = 6
      /\ h = "authorisation" <=> m = 7
      /\ h = "authentication" <=> m = 8
      /\ h = "settings" <=> m = 9
  BY <1>1, <1>3, NextStep
<1>5. Up' = Up
  BY <1>1 DEF Up
<1>6. CASE Going(c)
  <2>1. /\ todo'[c] = Tail(todo[c]) /\ todo'[c] # <<>> /\ code' = code
        /\ h # "answer"
    BY <1>6, LeftToDo DEF Going, ReplicaInv
  <2>2. /\ failures[c] \subseteq failures'[c]
        /\ failures'[c] \subseteq failures[c] \cup (Parts \ Up)
    BY <1>3, <1>6 DEF Going, Noted
  <2>3. failures'[c] \subseteq downDuring'[c]
    BY <1>1, <1>2, <2>2 DEF Report
  <2>4. \A s \in Parts : Good(c, s) => Good(c, s)'
    BY <1>1, <2>2, StaysGood
  <2>5. /\ h = "settings" => Good(c, "settings")'
        /\ h = "authentication" => Good(c, "authentication")'
        /\ h = "authorisation" => Good(c, "authorisation")'
        /\ h = "configuration" => Good(c, "configuration")'
        /\ h = "audit" => Good(c, "audit")'
        /\ h = "storage" => Good(c, "storage")'
        /\ h = "receive" => Good(c, "antivirus")'
    BY Asked DEF Services, Parts
  <2>6. n = m - 1
    BY <1>4, <2>1
  <2>7. /\ m < 9 => Good(c, "settings")
        /\ m < 8 => Good(c, "authentication")
        /\ m < 7 => Good(c, "authorisation")
        /\ m < 6 => Good(c, "configuration")
        /\ m < 5 => Good(c, "audit")
        /\ m < 4 => Good(c, "storage")
        /\ m < 2 => Good(c, "antivirus")
    BY <1>1, <1>2 DEF Report
  <2> HIDE DEF m, h, n
  <2>8. /\ n < 9 => Good(c, "settings")'
        /\ n < 8 => Good(c, "authentication")'
        /\ n < 7 => Good(c, "authorisation")'
        /\ n < 6 => Good(c, "configuration")'
        /\ n < 5 => Good(c, "audit")'
        /\ n < 4 => Good(c, "storage")'
        /\ n < 2 => Good(c, "antivirus")'
    <3>1. /\ "settings" \in Parts /\ "authentication" \in Parts
          /\ "authorisation" \in Parts /\ "configuration" \in Parts
          /\ "audit" \in Parts /\ "storage" \in Parts /\ "antivirus" \in Parts
      BY DEF Services, Parts
    <3> QED
      BY <1>4, <2>4, <2>5, <2>6, <2>7, <3>1
  <2>9. Report(c)'
    <3>1. Up' \subseteq upDuring'[c] /\ Parts \ Up' \subseteq downDuring'[c]
      BY <1>1, <1>2, <1>5 DEF Report
    <3> QED
      BY <2>1, <2>3, <2>8, <3>1 DEF Report, n
  <2>10. Health(c)'
    BY <1>1, <2>1 DEF ReplicaInv, HealthIsTrue, Health
  <2> QED
    BY <2>9, <2>10
<1>7. CASE Leaving(c)
  <2>1. PICK status \in Codes \ {0} :
          /\ code' = [code EXCEPT ![c] = status]
          /\ kind[c] = "health" =>
               /\ Head(todo[c]) = "answer"
               /\ failures[c] = {} => status = 200
               /\ failures[c] # {} => status = 503
    BY <1>7, Zenon DEF Leaving
  <2>2. todo'[c] = <<>> /\ failures' = failures
    <3>1. todo'[c] = <<>>
      BY <1>7, LeftToDo DEF ReplicaInv
    <3>2. failures' = failures
      BY <1>7 DEF Leaving
    <3> QED
      BY <3>1, <3>2
  <2>3. code'[c] = status /\ status # 0
    BY <1>3, <2>1
  <2>4. Report(c)'
    BY <1>1, <1>2, <2>2, <2>3 DEF Report
  <2>5. m = 1
    BY <1>4, <2>1
  <2>6. \A s \in Parts : Good(c, s)
    BY <1>1, <1>2, <2>5 DEF Report, Services, Parts
  <2>7. Health(c)'
    <3>1. CASE failures[c] = {}
      <4>1. code'[c] = 200
        BY <2>1, <2>3, <3>1
      <4> QED
        BY <1>1, <2>6, <3>1, <4>1 DEF Health, Good, Services, Parts
    <3>2. CASE failures[c] # {}
      <4>1. code'[c] = 503
        BY <2>1, <2>3, <3>2
      <4>2. downDuring[c] # {}
        BY <1>2, <3>2 DEF Report
      <4> QED
        BY <1>1, <4>1, <4>2 DEF Health
    <3> QED
      BY <3>1, <3>2
  <2> QED
    BY <2>4, <2>7
<1> QED
  BY <1>1, <1>6, <1>7

LEMMA ReportStep ==
  ASSUME ReplicaInv, ReplicaNext
  PROVE  ReportInv' /\ HealthIsTrue'
<1> USE DEF ReplicaInv
<1>1. /\ failures \in [Calls -> SUBSET Parts] /\ code \in [Calls -> Codes]
      /\ upDuring \in [Calls -> SUBSET Parts]
      /\ downDuring \in [Calls -> SUBSET Parts]
      /\ cameAt \in [Calls -> 0..MaxTime] /\ kind' = kind
      /\ state \in [Parts -> {"up", "down", "silent"}]
  BY QueueStep DEF ReplicaTypeOK, Codes
<1>2. \A d \in Calls : kind[d] = "health" =>
        /\ failures[d] \subseteq downDuring[d]
        /\ todo[d] = <<>> /\ code[d] = 0 => failures[d] = {}
        /\ todo[d] # <<>> => Up \subseteq upDuring[d] /\ Parts \ Up \subseteq downDuring[d]
  BY DEF ReportInv
<1> SUFFICES ASSUME NEW d \in Calls
             PROVE  Report(d)' /\ Health(d)'
  BY DEF ReportInv, HealthIsTrue, Report, Health
<1>3. ASSUME NEW c \in Calls, Arrive(c)
      PROVE  Report(d)' /\ Health(d)'
  <2>1. /\ UNCHANGED <<code, failures, state>>
        /\ kind[c] = "health" =>
             /\ upDuring' = [upDuring EXCEPT ![c] = Up]
             /\ downDuring' = [downDuring EXCEPT ![c] = Parts \ Up]
             /\ cameAt' = [cameAt EXCEPT ![c] = clock]
        /\ kind[c] # "health" => UNCHANGED <<upDuring, downDuring, cameAt>>
    BY <1>3 DEF Arrive
  <2>2. Up' = Up
    BY <2>1 DEF Up
  <2>3. CASE d # c
    <3>1. /\ upDuring'[d] = upDuring[d] /\ downDuring'[d] = downDuring[d]
          /\ cameAt'[d] = cameAt[d]
      BY <1>1, <2>1, <2>3
    <3>2. todo'[d] = todo[d]
      BY <1>3, <2>3, ArriveIs
    <3> QED
      BY <1>2, <2>1, <2>2, <3>1, <3>2, OthersReport
  <2>4. CASE d = c /\ kind[c] = "health"
    <3>1. /\ upDuring'[c] = Up /\ downDuring'[c] = Parts \ Up
          /\ code'[c] = 0 /\ failures'[c] = {}
      BY <1>1, <1>2, <1>3, <2>1, <2>4, ArriveIs
    <3>2. todo'[c] # <<>> /\ Len(todo'[c]) = 9
      <4>1. kind[c] \in Kinds
        BY DEF ReplicaTypeOK
      <4>2. todo'[c] # <<>> /\ todo'[c] = Steps(kind[c])
        BY <1>3, ArriveIs
      <4>3. Len(Steps(kind[c])) = 9
        BY <2>4, <4>1, HealthSteps
      <4> QED
        BY <4>2, <4>3
    <3> QED
      BY <2>2, <2>4, <3>1, <3>2 DEF Report, Health
  <2>5. CASE kind[d] # "health"
    BY <1>1, <2>5 DEF Report, Health
  <2> QED
    BY <2>3, <2>4, <2>5
<1>4. ASSUME (\E c \in Calls : Wake(c)) \/ Resume
      PROVE  Report(d)' /\ Health(d)'
  <2>1. /\ UNCHANGED <<code, failures, state, todo>>
        /\ UNCHANGED <<upDuring, downDuring, cameAt>>
    BY <1>4 DEF Wake, Resume, historyVars
  <2>2. Up' = Up
    BY <2>1 DEF Up
  <2> QED
    BY <1>2, <2>1, <2>2, OthersReport
<1>5. ASSUME NEW c \in Calls, Step(c)
      PROVE  Report(d)' /\ Health(d)'
  <2>1. CASE d = c /\ kind[c] = "health"
    BY <1>5, <2>1, OwnReport
  <2>2. CASE kind[d] # "health"
    BY <1>1, <2>2 DEF Report, Health
  <2>3. CASE d # c
    <3>1. UNCHANGED <<state, upDuring, downDuring, cameAt>>
      BY <1>5, StepIs DEF Untouched, historyVars
    <3>2. Up' = Up
      BY <3>1 DEF Up
    <3>3. todo'[d] = todo[d]
      BY <1>5, <2>3, LeftToDo
    <3>4. code'[d] = code[d] /\ failures'[d] = failures[d]
      BY <1>1, <1>5, <2>3, StepIs DEF Going, Leaving, Noted
    <3> QED
      BY <1>2, <3>1, <3>2, <3>3, <3>4, OthersReport
  <2> QED
    BY <2>1, <2>2, <2>3
<1>6. ASSUME NEW s \in Services \cup {"configuration"}, Change(s)
      PROVE  Report(d)' /\ Health(d)'
  <2>1. UNCHANGED <<code, failures, todo, cameAt>>
    BY <1>6 DEF Change, callVars
  <2>2. PICK now \in {"up", "down", "silent"} :
          /\ state' = [state EXCEPT ![s] = now]
          /\ upDuring' = [c \in Calls |->
               upDuring[c] \cup (IF Reports(c) /\ now = "up" THEN {s} ELSE {})]
          /\ downDuring' = [c \in Calls |->
               downDuring[c] \cup (IF Reports(c) /\ now # "up" THEN {s} ELSE {})]
    BY <1>6, Zenon DEF Change
  <2>3. /\ upDuring'[d] = upDuring[d] \cup (IF Reports(d) /\ now = "up" THEN {s} ELSE {})
        /\ downDuring'[d] = downDuring[d] \cup (IF Reports(d) /\ now # "up" THEN {s} ELSE {})
    BY <2>2
  <2>4. Up' = IF now = "up" THEN Up \cup {s} ELSE Up \ {s}
    <3>1. s \in Parts
      BY DEF Parts
    <3> QED
      BY <1>1, <2>2, <3>1 DEF Up
  <2>5. kind[d] = "health" /\ todo[d] # <<>> =>
          Up' \subseteq upDuring'[d] /\ Parts \ Up' \subseteq downDuring'[d]
    BY <1>2, <2>3, <2>4 DEF Reports
  <2> QED
    BY <2>1, <2>3, <2>5, OthersReport
<1>7. ASSUME Tick
      PROVE  Report(d)' /\ Health(d)'
  <2>1. /\ UNCHANGED <<code, failures, state, todo>>
        /\ UNCHANGED <<upDuring, downDuring, cameAt>>
    BY <1>7 DEF Tick, callVars
  <2>2. Up' = Up
    BY <2>1 DEF Up
  <2> QED
    BY <1>2, <2>1, <2>2, OthersReport
<1> QED
  BY <1>3, <1>4, <1>5, <1>6, <1>7 DEF ReplicaNext

-----------------------------------------------------------------------------
LEMMA ReplicaInit_Inv ==
  ReplicaInit => ReplicaInv
<1> SUFFICES ASSUME ReplicaInit PROVE ReplicaInv
  OBVIOUS
<1>1. /\ kind \in [Calls -> Kinds] /\ infected \in [Calls -> BOOLEAN]
      /\ ready = <<>> /\ running = None /\ todo = [c \in Calls |-> <<>>]
      /\ code = [c \in Calls |-> 0] /\ failures = [c \in Calls |-> {}]
      /\ verdict = [c \in Calls |-> "none"] /\ socket = None /\ cachedAt = -1
      /\ state \in [Parts -> {"up", "down"}] /\ state["authentication"] = "up"
      /\ clock = 0 /\ changes = 0
      /\ upDuring = [c \in Calls |-> {}] /\ downDuring = [c \in Calls |-> {}]
      /\ cameAt = [c \in Calls |-> 0] /\ oidcUpAt = 0
  BY DEF ReplicaInit, Services
<1>2. ready \in Seq(Calls) /\ ToSet(ready) = {} /\ IsInjective(ready)
  <2>1. DOMAIN ready = {}
    BY <1>1
  <2> QED
    BY <1>1, <2>1 DEF ToSet, IsInjective
<1>3. QueueTypeOK
  <2>1. \A c \in Calls : todo[c] \in Rest(kind[c])
    BY <1>1, AllSteps
  <2> QED
    BY <1>1, <1>2, <2>1 DEF QueueTypeOK
<1>4. AnswersOK /\ WorldOK /\ SocketOK
  BY <1>1, ReplicaAssumption DEF AnswersOK, WorldOK, SocketOK, Codes
<1>5. ReplicaTypeOK
  BY <1>3, <1>4 DEF ReplicaTypeOK, QueueTypeOK, Codes, AnswersOK, WorldOK, SocketOK
<1>6. QueueInv /\ ScanInv /\ FileInv /\ VerdictIsOwn
  BY <1>1, <1>2 DEF QueueInv, ScanInv, FileInv, VerdictIsOwn
<1>7. ClockInv /\ ReportInv /\ HealthIsTrue
  BY <1>1 DEF ClockInv, ReportInv, HealthIsTrue, Services
<1> QED
  BY <1>5, <1>6, <1>7 DEF ReplicaInv

LEMMA ReplicaNext_Inv ==
  ReplicaInv /\ [ReplicaNext]_replicaVars => ReplicaInv'
<1> SUFFICES ASSUME ReplicaInv, [ReplicaNext]_replicaVars
             PROVE  ReplicaInv'
  OBVIOUS
<1>1. CASE ReplicaNext
  BY <1>1, TypeStep, QueueStep, ScanStep, ClockStep, ReportStep DEF ReplicaInv
<1>2. CASE UNCHANGED replicaVars
  <2>1. /\ UNCHANGED <<kind, infected, ready, running, todo, code, failures, verdict>>
        /\ UNCHANGED <<socket, cachedAt, state, clock, changes>>
        /\ UNCHANGED <<upDuring, downDuring, cameAt, oidcUpAt>>
    BY <1>2 DEF replicaVars, callVars, historyVars
  <2>2. ReplicaTypeOK'
    BY <2>1 DEF ReplicaInv, ReplicaTypeOK
  <2>3. QueueInv' /\ ScanInv' /\ FileInv' /\ VerdictIsOwn' /\ ClockInv'
    BY <2>1 DEF ReplicaInv, QueueInv, ScanInv, FileInv, VerdictIsOwn, ClockInv
  <2>4. ReportInv' /\ HealthIsTrue'
    BY <2>1 DEF ReplicaInv, ReportInv, HealthIsTrue, Good, Up
  <2> QED
    BY <2>2, <2>3, <2>4 DEF ReplicaInv
<1> QED
  BY <1>1, <1>2

(* The invariant of the loop: its queue, the scan that has the loop while  *)
(* it waits for its reply, the clock, and what each report of /health has  *)
(* found out so far (routers/health.py, services/clam_av_service.py).      *)
THEOREM ReplicaInvariant == ReplicaSpec => []ReplicaInv
BY ReplicaInit_Inv, ReplicaNext_Inv, PTL DEF ReplicaSpec

(* Every variable has its type, for any calls: nobody waits twice for the  *)
(* loop, and what is left of a call is an end of its endpoint's steps.     *)
THEOREM ReplicaTypeCorrect == ReplicaSpec => []ReplicaTypeOK
<1>1. ReplicaInv => ReplicaTypeOK
  BY DEF ReplicaInv
<1> QED
  BY <1>1, ReplicaInvariant, PTL

(* However many uploads and status reports share the one connection to     *)
(* clamd, each is told the verdict of its own file                         *)
(* (ClamAVService.check awaits nothing).                                   *)
THEOREM VerdictIsOwnAlways == ReplicaSpec => []VerdictIsOwn
<1>1. ReplicaInv => VerdictIsOwn
  BY DEF ReplicaInv
<1> QED
  BY <1>1, ReplicaInvariant, PTL

(* However services and configurations come and go meanwhile, /health      *)
(* answers 200 only if each part it asks about was up at some time during  *)
(* the report, the identity provider within Ttl before it came, and 503    *)
(* only if one was not (status_service.get_status).                        *)
THEOREM HealthIsTrueAlways == ReplicaSpec => []HealthIsTrue
<1>1. ReplicaInv => HealthIsTrue
  BY DEF ReplicaInv
<1> QED
  BY <1>1, ReplicaInvariant, PTL
=============================================================================
