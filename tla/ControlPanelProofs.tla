-------------------------- MODULE ControlPanelProofs --------------------------
(***************************************************************************)
(* Proofs about the configuration between its editors, for every set of    *)
(* engines and settings, however many edits, failed saves and restarts.    *)
(***************************************************************************)
EXTENDS ControlPanel, SequenceLemmas, FiniteSetTheorems

PanelFields == {"staged", "committed", "cache", "seeded", "submitting", "timer",
                "recording", "unsent", "sent", "form"}

(* The records keep their fields.                                          *)
Shape ==
    /\ DOMAIN panel = PanelFields
    /\ DOMAIN daemon = {"up", "conf", "text", "voice"}
    /\ DOMAIN watch = {"event", "armed"}

(* A message that answers a write.                                         *)
IsAnswer(m) == m.kind \in {"done", "failed"}
NoAnswer(b) == \A i \in 1..Len(b) : ~IsAnswer(b[i])
OneAnswer(b) ==
    \E i \in 1..Len(b) : IsAnswer(b[i]) /\ \A j \in 1..Len(b) : IsAnswer(b[j]) => i = j

(* What can be on the bus.                                                 *)
MessageKinds == {"properties", "done", "failed", "vanished", "appeared"}
IsBus(b) == \E S : b \in Seq(S) /\ \A m \in S : m.kind \in MessageKinds

(* The write in flight waits at the daemon, or its answer on the bus.      *)
InFlight ==
    /\ IsBus(bus)
    /\ IF panel.submitting
       THEN \/ (\E t : request = <<t>>) /\ NoAnswer(bus)
            \/ request = <<>> /\ OneAnswer(bus)
       ELSE request = <<>> /\ NoAnswer(bus)

(* Before the daemon gave its configuration the panel has none, and no     *)
(* reason to write.                                                        *)
Unseeded(p) ==
    ~p.seeded => p.staged = NoText /\ p.committed = NoText /\ ~p.timer /\ ~p.submitting

(* The inductive invariant.                                                *)
IInv == Shape /\ InFlight /\ Unseeded(panel) /\ ConfigFollowsFile

-----------------------------------------------------------------------------
(* Sequences of messages.                                                  *)

(* One more message.                                                       *)
LEMMA Appended ==
    ASSUME NEW b, IsBus(b), NEW m, m.kind \in MessageKinds
    PROVE  /\ IsBus(Append(b, m))
           /\ ~IsAnswer(m) /\ NoAnswer(b) => NoAnswer(Append(b, m))
           /\ ~IsAnswer(m) /\ OneAnswer(b) => OneAnswer(Append(b, m))
           /\ IsAnswer(m) /\ NoAnswer(b) => OneAnswer(Append(b, m))
<1> DEFINE c == Append(b, m)
           n == Len(b)
<1>1. PICK S : b \in Seq(S) /\ \A x \in S : x.kind \in MessageKinds
  BY DEF IsBus
<1>2. c \in Seq(S \cup {m})
  <2>1. b \in Seq(S \cup {m})
    BY <1>1
  <2> QED
    BY <2>1
<1>3. n \in Nat /\ Len(c) = n + 1 /\ c[n + 1] = m /\ \A i \in 1..n : c[i] = b[i]
  BY <1>1
<1> HIDE DEF c, n
<1>4. \A i \in 1..(n+1) : i = n + 1 \/ i \in 1..n
  BY <1>3
<1>5. n + 1 \in 1..(n+1) /\ \A i \in 1..n : i \in 1..(n+1) /\ i # n + 1
  BY <1>3
<1>6. ~IsAnswer(m) /\ NoAnswer(b) => NoAnswer(c)
  BY <1>3, <1>4 DEF NoAnswer, n
<1>7. ASSUME ~IsAnswer(m), OneAnswer(b)
      PROVE  OneAnswer(c)
  <2>1. PICK i \in 1..n : IsAnswer(b[i]) /\ \A j \in 1..n : IsAnswer(b[j]) => i = j
    BY <1>7 DEF OneAnswer, n
  <2>2. i \in 1..(n+1) /\ IsAnswer(c[i])
    BY <1>3, <1>5, <2>1
  <2>3. \A j \in 1..(n+1) : IsAnswer(c[j]) => i = j
    BY <1>3, <1>4, <1>7, <2>1
  <2> QED
    BY <1>3, <2>2, <2>3 DEF OneAnswer
<1>8. ASSUME IsAnswer(m), NoAnswer(b)
      PROVE  OneAnswer(c)
  <2>1. IsAnswer(c[n + 1])
    BY <1>3, <1>8
  <2>2. \A j \in 1..(n+1) : IsAnswer(c[j]) => n + 1 = j
    BY <1>3, <1>4, <1>8 DEF NoAnswer, n
  <2> QED
    BY <1>3, <1>5, <2>1, <2>2 DEF OneAnswer
<1>9. IsBus(c)
  BY <1>1, <1>2 DEF IsBus
<1> QED
  BY <1>6, <1>7, <1>8, <1>9 DEF c

(* The first message taken.                                                *)
LEMMA Taken ==
    ASSUME NEW b, IsBus(b), b # <<>>
    PROVE  /\ IsBus(Tail(b)) /\ Head(b).kind \in MessageKinds
           /\ ~IsAnswer(Head(b)) /\ NoAnswer(b) => NoAnswer(Tail(b))
           /\ ~IsAnswer(Head(b)) /\ OneAnswer(b) => OneAnswer(Tail(b))
           /\ IsAnswer(Head(b)) => ~NoAnswer(b)
           /\ IsAnswer(Head(b)) /\ OneAnswer(b) => NoAnswer(Tail(b))
<1> DEFINE c == Tail(b)
           n == Len(b)
<1>1. PICK S : b \in Seq(S) /\ \A x \in S : x.kind \in MessageKinds
  BY DEF IsBus
<1>2. c \in Seq(S) /\ n \in Nat /\ n # 0 /\ Len(c) = n - 1 /\ Head(b) = b[1]
  BY <1>1
<1>3. \A i \in 1..(n-1) : c[i] = b[i+1]
  BY <1>1
<1>4. IsBus(c) /\ Head(b).kind \in MessageKinds
  BY <1>1, <1>2 DEF IsBus
<1> HIDE DEF c, n
<1>5. 1 \in 1..n /\ \A i \in 1..n : i = 1 \/ (i - 1 \in 1..(n-1) /\ (i - 1) + 1 = i)
  BY <1>2
<1>6. \A i \in 1..(n-1) : i + 1 \in 1..n /\ i + 1 # 1
  BY <1>2
<1>7. ~IsAnswer(b[1]) /\ NoAnswer(b) => NoAnswer(c)
  BY <1>2, <1>3, <1>6 DEF NoAnswer, n
<1>8. ASSUME ~IsAnswer(b[1]), OneAnswer(b)
      PROVE  OneAnswer(c)
  <2>1. PICK i \in 1..n : IsAnswer(b[i]) /\ \A j \in 1..n : IsAnswer(b[j]) => i = j
    BY <1>8 DEF OneAnswer, n
  <2>2. i - 1 \in 1..(n-1) /\ (i - 1) + 1 = i
    BY <1>5, <1>8, <2>1
  <2>3. IsAnswer(c[i-1])
    BY <1>3, <2>1, <2>2
  <2>4. ASSUME NEW j \in 1..(n-1), IsAnswer(c[j])
        PROVE  i - 1 = j
    <3>1. IsAnswer(b[j+1]) /\ j + 1 \in 1..n
      BY <1>3, <1>6, <2>4
    <3>2. i = j + 1
      BY <2>1, <3>1
    <3> QED
      BY <3>2
  <2> QED
    BY <1>2, <2>2, <2>3, <2>4 DEF OneAnswer
<1>9. IsAnswer(b[1]) => ~NoAnswer(b)
  BY <1>5 DEF NoAnswer, n
<1>10. ASSUME IsAnswer(b[1]), OneAnswer(b)
       PROVE  NoAnswer(c)
  <2>1. \A j \in 1..n : IsAnswer(b[j]) => j = 1
    BY <1>5, <1>10 DEF OneAnswer, n
  <2> QED
    BY <1>2, <1>3, <1>6, <2>1 DEF NoAnswer
<1> QED
  BY <1>2, <1>4, <1>7, <1>8, <1>9, <1>10 DEF c

(* What the messages without a kind are, prefix by prefix.                 *)
LEMMA WithoutSteps ==
    ASSUME NEW S, NEW b \in Seq(S), NEW kind
    PROVE  \E f : /\ f[0] = <<>> /\ f[Len(b)] = Without(b, kind)
                  /\ \A k \in 0..Len(b) : f[k] \in Seq(S)
                  /\ \A k \in 1..Len(b) :
                        f[k] = IF b[k].kind = kind THEN f[k-1] ELSE Append(f[k-1], b[k])
<1> DEFINE n == Len(b)
           B == Seq(S)
           g == [x \in B \X (1..n) |->
                   IF b[x[2]].kind = kind THEN x[1] ELSE Append(x[1], b[x[2]])]
           eq(h) == h = [t \in SUBSET (1..n) |->
                           IF t = {} THEN <<>>
                           ELSE IF b[Max(t)].kind = kind THEN h[t \ {Max(t)}]
                           ELSE Append(h[t \ {Max(t)}], b[Max(t)])]
<1>1. g \in [B \X (1..n) -> B]
  OBVIOUS
<1>2. n \in Nat /\ DOMAIN b = 1..n /\ <<>> \in B
  OBVIOUS
<1>3. \A s \in B, i \in 1..n :
         g[<<s, i>>] = IF b[i].kind = kind THEN s ELSE Append(s, b[i])
  OBVIOUS
<1> HIDE DEF g
<1>4. Without(b, kind) = (CHOOSE h : eq(h))[1..n]
  BY <1>2 DEF Without, FoldLeft, MapThenFoldSet
<1>5. PICK h \in [SUBSET (1..n) -> B] : FoldEquation(h, B, <<>>, g, n)
  BY <1>1, <1>2, FoldExists
<1>6. eq(h)
  <2>1. ASSUME NEW t \in SUBSET (1..n)
        PROVE  h[t] = IF t = {} THEN <<>>
                      ELSE IF b[Max(t)].kind = kind THEN h[t \ {Max(t)}]
                      ELSE Append(h[t \ {Max(t)}], b[Max(t)])
    <3>1. CASE t = {}
      BY <1>5, <3>1 DEF FoldEquation
    <3>2. CASE t # {}
      <4>1. Max(t) \in 1..n
        BY <1>2, <3>2, MaxIsMember
      <4>2. h[t \ {Max(t)}] \in B
        OBVIOUS
      <4>3. h[t] = g[<<h[t \ {Max(t)}], Max(t)>>]
        BY <1>5, <3>2, <4>2 DEF FoldEquation
      <4> HIDE DEF B
      <4> QED
        BY <1>3, <3>2, <4>1, <4>2, <4>3
    <3> QED
      BY <3>1, <3>2
  <2> QED
    BY <2>1
<1> DEFINE c == CHOOSE h2 : eq(h2)
<1>7. eq(c)
  <2> HIDE DEF eq
  <2> QED
    BY <1>6
<1> HIDE DEF c
<1>8. FoldEquation(c, B, <<>>, g, n)
  <2>1. c[{}] = <<>>
    BY <1>7
  <2>2. ASSUME NEW t \in SUBSET (1..n), t # {}, c[t \ {Max(t)}] \in B
        PROVE  c[t] = g[<<c[t \ {Max(t)}], Max(t)>>]
    <3>1. Max(t) \in 1..n
      BY <1>2, <2>2, MaxIsMember
    <3>2. c[t] = IF b[Max(t)].kind = kind THEN c[t \ {Max(t)}]
                 ELSE Append(c[t \ {Max(t)}], b[Max(t)])
      BY <1>7, <2>2
    <3> HIDE DEF B
    <3> QED
      BY <1>3, <2>2, <3>1, <3>2
  <2> QED
    BY <2>1, <2>2 DEF FoldEquation
<1> DEFINE f == [k \in 0..n |-> c[1..k]]
<1>9. \A k \in 0..n : c[1..k] \in B /\ (k # 0 => FoldStep(c, g, k))
  <2> DEFINE e == <<>>
  <2>1. e \in B /\ FoldEquation(c, B, e, g, n)
    BY <1>2, <1>8
  <2> HIDE DEF B, e, n
  <2> QED
    BY <1>1, <1>2, <2>1, FoldSteps
<1>10. \A k \in 0..n : f[k] = c[1..k]
  OBVIOUS
<1>11. f[0] = <<>>
  <2>1. 1..0 = {} /\ 0 \in 0..n
    OBVIOUS
  <2>2. f[0] = c[{}]
    BY <1>10, <2>1
  <2> QED
    BY <1>8, <2>2 DEF FoldEquation
<1>12. f[n] = Without(b, kind)
  <2>1. n \in 0..n
    BY <1>2
  <2> QED
    BY <1>4, <1>10, <2>1 DEF c
<1>13. ASSUME NEW k \in 1..n
       PROVE  f[k] = IF b[k].kind = kind THEN f[k-1] ELSE Append(f[k-1], b[k])
  <2>1. k \in 0..n /\ k # 0 /\ k - 1 \in 0..n
    OBVIOUS
  <2>2. f[k] = c[1..k] /\ f[k-1] = c[1..(k-1)]
    BY <1>10, <2>1
  <2>3. c[1..(k-1)] \in B /\ c[1..k] = g[<<c[1..(k-1)], k>>]
    BY <1>9, <2>1 DEF FoldStep
  <2> HIDE DEF B, f
  <2> QED
    BY <1>3, <2>2, <2>3
<1>14. \A k \in 0..n : f[k] \in B
  BY <1>9, <1>10
<1> HIDE DEF f
<1> QED
  BY <1>11, <1>12, <1>13, <1>14

(* A kind that is no answer goes without an answer lost.                   *)
LEMMA WithoutKeeps ==
    ASSUME NEW b, IsBus(b)
    PROVE  LET c == Without(b, "properties")
           IN  /\ IsBus(c)
               /\ NoAnswer(b) => NoAnswer(c)
               /\ OneAnswer(b) => OneAnswer(c)
<1>1. PICK S : b \in Seq(S) /\ \A x \in S : x.kind \in MessageKinds
  BY DEF IsBus
<1> DEFINE n == Len(b)
           none(k) == \A i \in 1..k : ~IsAnswer(b[i])
           one(k) == \E i \in 1..k : IsAnswer(b[i]) /\ \A j \in 1..k : IsAnswer(b[j]) => i = j
<1>2. PICK f : /\ f[0] = <<>> /\ f[n] = Without(b, "properties")
               /\ \A k \in 0..n : f[k] \in Seq(S)
               /\ \A k \in 1..n : f[k] = IF b[k].kind = "properties" THEN f[k-1]
                                         ELSE Append(f[k-1], b[k])
  <2>1. b \in Seq(S)
    BY <1>1
  <2> QED
    BY <2>1, WithoutSteps
<1>3. n \in Nat
  BY <1>1
<1> DEFINE P(k) == (none(k) => NoAnswer(f[k])) /\ (one(k) => OneAnswer(f[k]))
           T == {k \in Nat : k <= n => P(k)}
<1>4. 0 \in T
  <2>1. 1..0 = {} /\ Len(<<>>) = 0
    OBVIOUS
  <2>2. NoAnswer(f[0])
    BY <1>2, <2>1 DEF NoAnswer
  <2>3. ~one(0)
    BY <2>1
  <2> QED
    BY <2>2, <2>3
<1>5. ASSUME NEW k \in Nat, k \in T
      PROVE  k + 1 \in T
  <2>1. ASSUME k + 1 <= n
        PROVE  P(k + 1)
    <3>1. k + 1 \in 1..n /\ (k + 1) - 1 = k /\ k <= n /\ k \in 0..n
      BY <1>3, <2>1
    <3>2. P(k)
      BY <1>5, <3>1
    <3>3. f[k+1] = IF b[k+1].kind = "properties" THEN f[k] ELSE Append(f[k], b[k+1])
      BY <1>2, <3>1
    <3>4. IsBus(f[k]) /\ b[k+1].kind \in MessageKinds
      <4>1. f[k] \in Seq(S) /\ b[k+1] \in S
        BY <1>1, <1>2, <3>1
      <4> QED
        BY <1>1, <4>1 DEF IsBus
    <3>5. \A i \in 1..(k+1) : i = k + 1 \/ i \in 1..k
      OBVIOUS
    <3>6. k + 1 \in 1..(k+1) /\ \A i \in 1..k : i \in 1..(k+1) /\ i # k + 1
      OBVIOUS
    <3>7. none(k+1) => none(k) /\ ~IsAnswer(b[k+1])
      BY <3>6
    <3>8. one(k+1) => (one(k) /\ ~IsAnswer(b[k+1])) \/ (none(k) /\ IsAnswer(b[k+1]))
      <4>1. ASSUME one(k+1), IsAnswer(b[k+1])
            PROVE  none(k)
        BY <3>6, <4>1
      <4>2. ASSUME one(k+1), ~IsAnswer(b[k+1])
            PROVE  one(k)
        <5>1. PICK i \in 1..(k+1) :
                 IsAnswer(b[i]) /\ \A j \in 1..(k+1) : IsAnswer(b[j]) => i = j
          BY <4>2
        <5>2. i \in 1..k
          BY <3>5, <4>2, <5>1
        <5>3. \A j \in 1..k : IsAnswer(b[j]) => i = j
          BY <3>6, <5>1
        <5> QED
          BY <5>1, <5>2, <5>3
      <4> HIDE DEF none, one
      <4> QED
        BY <4>1, <4>2
    <3> HIDE DEF none, one
    <3>9. CASE b[k+1].kind = "properties"
      <4>1. f[k+1] = f[k] /\ ~IsAnswer(b[k+1])
        BY <3>3, <3>9 DEF IsAnswer
      <4> QED
        BY <3>2, <3>7, <3>8, <4>1
    <3>10. CASE b[k+1].kind # "properties"
      <4>1. f[k+1] = Append(f[k], b[k+1])
        BY <3>3, <3>10
      <4>2. /\ ~IsAnswer(b[k+1]) /\ NoAnswer(f[k]) => NoAnswer(f[k+1])
            /\ ~IsAnswer(b[k+1]) /\ OneAnswer(f[k]) => OneAnswer(f[k+1])
            /\ IsAnswer(b[k+1]) /\ NoAnswer(f[k]) => OneAnswer(f[k+1])
        BY <3>4, <4>1, Appended
      <4> QED
        BY <3>2, <3>7, <3>8, <4>2
    <3> QED
      BY <3>9, <3>10
  <2> HIDE DEF P
  <2>2. k + 1 \in Nat
    OBVIOUS
  <2> QED
    BY <2>1, <2>2
<1>6. Nat \subseteq T
  <2> HIDE DEF T
  <2> QED
    BY <1>4, <1>5, Induction
<1>7. P(n)
  <2>1. n \in T /\ n <= n
    BY <1>3, <1>6
  <2> HIDE DEF P
  <2> QED
    BY <2>1
<1>8. (NoAnswer(b) => none(n)) /\ (OneAnswer(b) => one(n))
  BY DEF NoAnswer, OneAnswer
<1>9. IsBus(f[n])
  <2>1. n \in 0..n
    BY <1>3
  <2> QED
    BY <1>1, <1>2, <2>1 DEF IsBus
<1> HIDE DEF none, one, n
<1> QED
  BY <1>2, <1>7, <1>8, <1>9

-----------------------------------------------------------------------------
(* The panel's operations.                                                 *)

(* What an operation on the panel leaves of the write in flight and of     *)
(* what was staged before the daemon gave its configuration.               *)
Tame(p, q) ==
    /\ DOMAIN q = PanelFields
    /\ q.submitting = p.submitting
    /\ Unseeded(p) => Unseeded(q)

(* control_set_config_text.                                                *)
LEMMA SeededTame ==
    ASSUME NEW p, DOMAIN p = PanelFields, NEW text
    PROVE  LET q == Seeded(p, text)
           IN  DOMAIN q = PanelFields /\ q.submitting = p.submitting /\ q.seeded = TRUE
<1> DEFINE q == [p EXCEPT !.seeded = TRUE, !.committed = text]
<1>1. DOMAIN q = PanelFields /\ q.submitting = p.submitting /\ q.seeded = TRUE
  BY DEF PanelFields
<1>2. Seeded(p, text) \in {q, Replaced(q, text)}
  BY DEF Seeded
<1> HIDE DEF q
<1>3. LET r == Replaced(q, text)
      IN  DOMAIN r = PanelFields /\ r.submitting = q.submitting /\ r.seeded = q.seeded
  BY <1>1 DEF Replaced, PanelFields
<1> QED
  BY <1>1, <1>2, <1>3

(* control_refresh_from_proxy.                                             *)
LEMMA RefreshedTame ==
    ASSUME NEW p, DOMAIN p = PanelFields
    PROVE  /\ Tame(p, Refreshed(p))
           /\ p.seeded => Refreshed(p).seeded
<1>1. ASSUME NEW v
      PROVE  LET q == [p EXCEPT !.form.voice = v]
             IN  /\ DOMAIN q = PanelFields /\ q.submitting = p.submitting
                 /\ q.seeded = p.seeded /\ q.staged = p.staged
                 /\ q.committed = p.committed /\ q.timer = p.timer
  BY DEF PanelFields
<1>2. CASE p.cache = NoText
  <2>1. Refreshed(p) = [p EXCEPT !.form.voice = NoChoice]
    BY <1>2 DEF Refreshed
  <2> QED
    BY <1>1, <2>1 DEF Tame, Unseeded
<1>3. CASE p.cache # NoText
  <2> DEFINE q == [p EXCEPT !.form.voice = VoiceShown(p)]
  <2>1. Refreshed(p) = Seeded(q, p.cache.text)
    BY <1>3 DEF Refreshed
  <2>2. DOMAIN q = PanelFields /\ q.submitting = p.submitting
    BY <1>1
  <2> HIDE DEF q
  <2>3. LET r == Seeded(q, p.cache.text)
        IN  DOMAIN r = PanelFields /\ r.submitting = q.submitting /\ r.seeded = TRUE
    BY <2>2, SeededTame
  <2> QED
    BY <2>1, <2>2, <2>3 DEF Tame, Unseeded
<1> QED
  BY <1>2, <1>3

(* The panel sees a property, or the daemon go.                            *)
LEMMA CacheTame ==
    ASSUME NEW p, DOMAIN p = PanelFields, NEW cache
    PROVE  Tame(p, Refreshed([p EXCEPT !.cache = cache]))
<1> DEFINE q == [p EXCEPT !.cache = cache]
<1>1. /\ DOMAIN q = PanelFields /\ q.submitting = p.submitting
      /\ q.seeded = p.seeded /\ q.staged = p.staged
      /\ q.committed = p.committed /\ q.timer = p.timer
  BY DEF PanelFields
<1> HIDE DEF q
<1>2. Tame(q, Refreshed(q))
  BY <1>1, RefreshedTame
<1>3. Unseeded(p) => Unseeded(q)
  BY <1>1 DEF Unseeded
<1>4. Tame(p, Refreshed(q))
  BY <1>1, <1>2, <1>3 DEF Tame
<1> QED
  BY <1>4 DEF q

(* on_name_appeared.                                                       *)
LEMMA AppearedTame ==
    ASSUME NEW p, DOMAIN p = PanelFields
    PROVE  Tame(p, Appeared(p))
<1> DEFINE q == Refreshed([p EXCEPT !.cache = [text |-> daemon.text, voice |-> daemon.voice]])
           r == [q EXCEPT !.timer = @ \/ q.staged # q.committed]
<1>1. Tame(p, q)
  BY CacheTame
<1>2. Appeared(p) = r
  BY DEF Appeared
<1> HIDE DEF q
<1>3. DOMAIN q = PanelFields
  BY <1>1 DEF Tame
<1>4. /\ DOMAIN r = PanelFields /\ r.submitting = q.submitting
      /\ r.seeded = q.seeded /\ r.staged = q.staged
      /\ r.committed = q.committed /\ r.timer = (q.timer \/ q.staged # q.committed)
  BY <1>3 DEF PanelFields
<1> HIDE DEF r
<1>5. Unseeded(q) => Unseeded(r)
  BY <1>4 DEF Unseeded
<1>6. Tame(p, r)
  BY <1>1, <1>4, <1>5 DEF Tame
<1> QED
  BY <1>2, <1>6

(* on_set_config_text_finished ends the write, in a panel that has its     *)
(* configuration.                                                          *)
LEMMA FinishedEnds ==
    ASSUME NEW p, DOMAIN p = PanelFields, p.seeded, NEW ok
    PROVE  LET q == Finished(p, ok)
           IN  DOMAIN q = PanelFields /\ q.submitting = FALSE /\ Unseeded(q)
<1>1. CASE ok
  <2> DEFINE q == [p EXCEPT !.submitting = FALSE, !.sent = <<>>]
  <2>1. DOMAIN q = PanelFields /\ q.submitting = FALSE /\ q.seeded = p.seeded
    BY DEF PanelFields
  <2>2. Finished(p, ok) = Refreshed(q)
    BY <1>1 DEF Finished
  <2> HIDE DEF q
  <2>3. Tame(q, Refreshed(q)) /\ Refreshed(q).seeded
    BY <2>1, RefreshedTame
  <2> QED
    BY <2>1, <2>2, <2>3 DEF Tame, Unseeded
<1>2. CASE ~ok
  BY <1>2 DEF Finished, Unseeded, PanelFields
<1> QED
  BY <1>1, <1>2

(* control_stage_form_change.                                              *)
LEMMA StageTame ==
    ASSUME NEW p, DOMAIN p = PanelFields, NEW form, NEW k,
           NEW q \in StageFormChange(p, form, k), NEW recording
    PROVE  Tame(p, [q EXCEPT !.recording = recording])
<1>1. CASE ~p.seeded
  <2>1. q = [p EXCEPT !.form = form]
    BY <1>1 DEF StageFormChange
  <2> QED
    BY <2>1 DEF Tame, Unseeded, PanelFields
<1>2. CASE p.seeded
  <2>1. PICK t, u : q = [p EXCEPT !.form = form, !.staged = t, !.timer = TRUE, !.unsent = u]
    BY <1>2 DEF StageFormChange
  <2> QED
    BY <1>2, <2>1 DEF Tame, Unseeded, PanelFields
<1> QED
  BY <1>1, <1>2

(* shortcut_btn_clicked.                                                   *)
LEMMA ClickTame ==
    ASSUME DOMAIN panel = PanelFields, ShortcutClicked
    PROVE  Tame(panel, panel')
<1>1. CASE panel.recording
  <2>1. PICK f : panel' = [panel EXCEPT !.recording = FALSE, !.form = f]
    BY <1>1 DEF ShortcutClicked
  <2> QED
    BY <2>1 DEF Tame, Unseeded, PanelFields
<1>2. CASE ~panel.recording
  <2>1. panel' = [panel EXCEPT !.recording = TRUE, !.form.keys = Placeholder]
    BY <1>2 DEF ShortcutClicked
  <2> QED
    BY <2>1 DEF Tame, Unseeded, PanelFields
<1> QED
  BY <1>1, <1>2

-----------------------------------------------------------------------------
(* The daemon's configurations.                                            *)

(* A configuration in force is the one it was made of.                     *)
LEMMA InForceIs ==
    ASSUME NEW d, DOMAIN d = {"up", "conf", "text", "voice"}, NEW c, NEW e \in InForce(d, c)
    PROVE  DOMAIN e = {"up", "conf", "text", "voice"} /\ e.conf = c /\ e.up = d.up
  BY DEF InForce

(* typio_instance_reload_config.                                           *)
LEMMA ReloadedIs ==
    ASSUME NEW d, DOMAIN d = {"up", "conf", "text", "voice"}, NEW e \in Reloaded(d)
    PROVE  /\ DOMAIN e = {"up", "conf", "text", "voice"} /\ e.up = d.up
           /\ file # NoText => e.conf = WithDefaults(file)
<1> DEFINE c == IF file = NoText THEN d.conf ELSE WithDefaults(file)
<1>1. PICK x \in IF file = NoText THEN {d} ELSE InForce(d, c) :
         \E v : e = [x EXCEPT !.voice = v]
  BY DEF Reloaded
<1>2. DOMAIN x = {"up", "conf", "text", "voice"} /\ x.up = d.up /\ (file # NoText => x.conf = c)
  <2>1. CASE file = NoText
    BY <1>1, <2>1
  <2>2. CASE file # NoText
    <3> HIDE DEF c
    <3>1. x \in InForce(d, c)
      BY <1>1, <2>2
    <3> QED
      BY <3>1, InForceIs
  <2> QED
    BY <2>1, <2>2
<1> HIDE DEF c
<1>3. DOMAIN e = DOMAIN x /\ e.up = x.up /\ e.conf = x.conf
  BY <1>1, <1>2
<1> QED
  BY <1>2, <1>3 DEF c

-----------------------------------------------------------------------------
(* The steps.                                                              *)

(* The invariant holds before the panel has seen the daemon.               *)
LEMMA IInvInit == Init => IInv
<1> SUFFICES ASSUME Init PROVE IInv
  OBVIOUS
<1> USE DEF Init
<1>1. Shape
  BY DEF Shape, PanelFields
<1>2. InFlight
  <2> DEFINE m == Message("vanished")
  <2>1. IsBus(<<>>)
    <3> DEFINE S == {}
               b == <<>>
    <3>1. b \in Seq(S) /\ \A x \in S : x.kind \in MessageKinds
      OBVIOUS
    <3> HIDE DEF S, b
    <3>2. IsBus(b)
      BY <3>1 DEF IsBus
    <3> QED
      BY <3>2 DEF b
  <2>2. NoAnswer(<<>>)
    BY DEF NoAnswer
  <2>3. ~IsAnswer(m) /\ m.kind \in MessageKinds
    BY DEF IsAnswer, Message, MessageKinds
  <2>4. bus = Append(<<>>, m)
    OBVIOUS
  <2> HIDE DEF m
  <2>5. IsBus(bus) /\ NoAnswer(bus)
    BY <2>1, <2>2, <2>3, <2>4, Appended
  <2>6. ~panel.submitting /\ request = <<>>
    OBVIOUS
  <2> QED
    BY <2>5, <2>6 DEF InFlight
<1>3. Unseeded(panel)
  BY DEF Unseeded
<1>4. ConfigFollowsFile
  BY DEF ConfigFollowsFile
<1> QED
  BY <1>1, <1>2, <1>3, <1>4 DEF IInv

(* Every step keeps the fields of the daemon and of the watch, and the     *)
(* configuration in force the file's unless an event or a reload is        *)
(* pending.                                                                *)
LEMMA FileStep ==
    ASSUME Shape, ConfigFollowsFile, [Next]_vars
    PROVE  /\ ConfigFollowsFile' /\ DOMAIN daemon' = {"up", "conf", "text", "voice"}
           /\ DOMAIN watch' = {"event", "armed"}
<1> USE DEF Shape
<1>1. CASE User \/ AutosaveFires \/ PanelSees \/ UNCHANGED vars
  <2>1. UNCHANGED <<daemon, file, watch>>
    BY <1>1 DEF User, ShortcutClicked, UserEdits, AutosaveFires, PanelSees, vars
  <2> QED
    BY <2>1 DEF ConfigFollowsFile
<1>2. CASE SetConfigText
  <2> DEFINE c == WithDefaults(Received(Head(request)))
  <2>1. CASE UNCHANGED <<daemon, file, watch>>
    BY <2>1 DEF ConfigFollowsFile
  <2>2. CASE daemon' \in InForce(daemon, c) /\ watch' = [watch EXCEPT !.event = TRUE]
    <3> HIDE DEF c
    <3>1. DOMAIN daemon' = {"up", "conf", "text", "voice"}
      BY <2>2, InForceIs
    <3> QED
      BY <2>2, <3>1 DEF ConfigFollowsFile
  <2> QED
    BY <1>2, <2>1, <2>2 DEF SetConfigText
<1>3. ASSUME NEW e, ActivateEngine(e)
      PROVE  /\ ConfigFollowsFile' /\ DOMAIN daemon' = {"up", "conf", "text", "voice"}
             /\ DOMAIN watch' = {"event", "armed"}
  <2>1. PICK c : daemon' \in InForce(daemon, c)
    BY <1>3 DEF ActivateEngine
  <2>2. DOMAIN daemon' = {"up", "conf", "text", "voice"}
    BY <2>1, InForceIs
  <2>3. watch' = [watch EXCEPT !.event = TRUE]
    BY <1>3 DEF ActivateEngine
  <2> QED
    BY <2>2, <2>3 DEF ConfigFollowsFile
<1>4. CASE FileChanges
  BY <1>4 DEF FileChanges, ConfigFollowsFile
<1>5. CASE HandleConfigWatch
  BY <1>5 DEF HandleConfigWatch, ConfigFollowsFile
<1>6. CASE DispatchConfigReload
  <2>1. daemon' \in Reloaded(daemon) /\ file' = file /\ watch' = [watch EXCEPT !.armed = FALSE]
    BY <1>6 DEF DispatchConfigReload
  <2>2. /\ DOMAIN daemon' = {"up", "conf", "text", "voice"}
        /\ file # NoText => daemon'.conf = WithDefaults(file)
    BY <2>1, ReloadedIs
  <2>3. WithDefaults(file)' = WithDefaults(file')
    BY DEF WithDefaults, Settings
  <2> QED
    BY <2>1, <2>2, <2>3 DEF ConfigFollowsFile
<1>7. CASE Stop
  BY <1>7 DEF Stop, ConfigFollowsFile
<1>8. CASE Start
  <2> DEFINE c == IF file = NoText THEN Default ELSE WithDefaults(file)
  <2>1. PICK d \in InForce(daemon, c) :
           \E v : daemon' = [d EXCEPT !.up = TRUE, !.voice = v]
    BY <1>8 DEF Start
  <2>2. file' = file /\ watch' = watch
    BY <1>8 DEF Start
  <2> HIDE DEF c
  <2>3. DOMAIN d = {"up", "conf", "text", "voice"} /\ d.conf = c
    BY <2>1, InForceIs
  <2>4. DOMAIN daemon' = {"up", "conf", "text", "voice"} /\ daemon'.conf = c
    BY <2>1, <2>3
  <2>5. file # NoText => daemon'.conf = WithDefaults(file)
    BY <2>4 DEF c
  <2> QED
    BY <2>2, <2>4, <2>5 DEF ConfigFollowsFile
<1> QED
  BY <1>1, <1>2, <1>3, <1>4, <1>5, <1>6, <1>7, <1>8 DEF Next, Daemon

(* A step that touches the panel only, and tames it.                       *)
LEMMA QuietStep ==
    ASSUME InFlight, Unseeded(panel), UNCHANGED <<request, bus>>, Tame(panel, panel')
    PROVE  InFlight' /\ Unseeded(panel)' /\ DOMAIN panel' = PanelFields
<1>1. panel'.submitting = panel.submitting
  BY DEF Tame
<1>2. InFlight'
  BY <1>1 DEF InFlight
<1>3. Unseeded(panel') /\ DOMAIN panel' = PanelFields
  BY DEF Tame
<1> QED
  BY <1>2, <1>3 DEF Unseeded

(* The user's step.                                                        *)
LEMMA UserStep ==
    ASSUME Shape, InFlight, Unseeded(panel), User
    PROVE  InFlight' /\ Unseeded(panel)' /\ DOMAIN panel' = PanelFields
<1>1. DOMAIN panel = PanelFields
  BY DEF Shape
<1>2. UNCHANGED <<request, bus>>
  BY DEF User, ShortcutClicked, UserEdits
<1>3. Tame(panel, panel')
  <2>1. CASE ShortcutClicked
    BY <1>1, <2>1, ClickTame
  <2>2. ASSUME NEW k, UserEdits(k)
        PROVE  Tame(panel, panel')
    <3>1. PICK form : \E p \in StageFormChange(panel, form, k) :
             panel' = [p EXCEPT !.recording = IF k = "keys" THEN FALSE ELSE @]
      BY <2>2 DEF UserEdits
    <3>2. PICK p \in StageFormChange(panel, form, k) :
             panel' = [p EXCEPT !.recording = IF k = "keys" THEN FALSE ELSE p.recording]
      BY <3>1
    <3> DEFINE recording == IF k = "keys" THEN FALSE ELSE p.recording
    <3>3. panel' = [p EXCEPT !.recording = recording]
      BY <3>2
    <3> HIDE DEF recording
    <3>4. Tame(panel, [p EXCEPT !.recording = recording])
      BY <1>1, StageTame
    <3> QED
      BY <3>3, <3>4
  <2> QED
    BY <2>1, <2>2 DEF User
<1> QED
  BY <1>2, <1>3, QuietStep

(* control_autosave_timeout_cb begins a write only when none is in flight. *)
LEMMA AutosaveStep ==
    ASSUME Shape, InFlight, Unseeded(panel), AutosaveFires
    PROVE  InFlight' /\ Unseeded(panel)' /\ DOMAIN panel' = PanelFields
<1>1. DOMAIN panel = PanelFields /\ panel.timer /\ ~panel.submitting /\ bus' = bus
  BY DEF Shape, AutosaveFires
<1>2. panel.seeded /\ request = <<>> /\ NoAnswer(bus) /\ IsBus(bus)
  BY <1>1 DEF Unseeded, InFlight
<1>3. CASE panel.staged = panel.committed
  <2>1. panel' = [panel EXCEPT !.timer = FALSE] /\ request' = request
    BY <1>3 DEF AutosaveFires
  <2>2. Tame(panel, panel')
    BY <1>1, <2>1 DEF Tame, Unseeded, PanelFields
  <2> QED
    BY <1>1, <2>1, <2>2, QuietStep
<1>4. CASE panel.staged # panel.committed
  <2>1. /\ panel' = [panel EXCEPT !.timer = FALSE, !.submitting = TRUE,
                                  !.sent = panel.unsent, !.unsent = <<>>]
        /\ request' = Append(request, panel.staged)
    BY <1>4 DEF AutosaveFires
  <2>2. panel'.submitting = TRUE /\ panel'.seeded = panel.seeded /\ DOMAIN panel' = PanelFields
    BY <1>1, <2>1 DEF PanelFields
  <2>3. request' = <<panel.staged>>
    BY <1>2, <2>1
  <2>4. InFlight'
    BY <1>1, <1>2, <2>2, <2>3 DEF InFlight
  <2> QED
    BY <1>2, <2>2, <2>4 DEF Unseeded
<1> QED
  BY <1>3, <1>4

(* The panel takes a message; an answer ends its write.                    *)
LEMMA MessageStep ==
    ASSUME Shape, InFlight, Unseeded(panel), PanelSees
    PROVE  InFlight' /\ Unseeded(panel)' /\ DOMAIN panel' = PanelFields
<1> DEFINE m == Head(bus)
           later == Tail(bus)
<1>1. DOMAIN panel = PanelFields /\ bus # <<>> /\ request' = request
  BY DEF Shape, PanelSees
<1>2. /\ IsBus(bus) /\ IsBus(later) /\ m.kind \in MessageKinds
      /\ ~IsAnswer(m) /\ NoAnswer(bus) => NoAnswer(later)
      /\ ~IsAnswer(m) /\ OneAnswer(bus) => OneAnswer(later)
      /\ IsAnswer(m) => ~NoAnswer(bus)
      /\ IsAnswer(m) /\ OneAnswer(bus) => NoAnswer(later)
  BY <1>1, Taken DEF InFlight
<1>3. CASE IsAnswer(m)
  <2>1. panel' = Finished(panel, m.kind = "done") /\ bus' = later
    BY <1>3 DEF PanelSees, IsAnswer
  <2> HIDE DEF later
  <2>2. panel.submitting /\ request = <<>> /\ NoAnswer(later)
    BY <1>2, <1>3 DEF InFlight
  <2>3. panel.seeded
    BY <2>2 DEF Unseeded
  <2>4. DOMAIN panel' = PanelFields /\ panel'.submitting = FALSE /\ Unseeded(panel')
    BY <1>1, <2>1, <2>3, FinishedEnds
  <2>5. InFlight'
    BY <1>1, <1>2, <2>1, <2>2, <2>4 DEF InFlight
  <2> QED
    BY <2>4, <2>5 DEF Unseeded
<1>4. ASSUME ~IsAnswer(m), Tame(panel, panel'), bus' \in {later, Without(later, "properties")}
      PROVE  InFlight' /\ Unseeded(panel)' /\ DOMAIN panel' = PanelFields
  <2> HIDE DEF m, later
  <2>1. /\ IsBus(bus')
        /\ NoAnswer(bus) => NoAnswer(bus')
        /\ OneAnswer(bus) => OneAnswer(bus')
    BY <1>2, <1>4, WithoutKeeps
  <2>2. panel'.submitting = panel.submitting
    BY <1>4 DEF Tame
  <2>3. InFlight'
    BY <1>1, <2>1, <2>2 DEF InFlight
  <2> QED
    BY <1>4, <2>3 DEF Tame, Unseeded
<1>5. Tame(panel, panel)
  BY <1>1 DEF Tame
<1>6. CASE m.kind = "properties"
  <2>1. panel' = panel \/ \E c : panel' = Refreshed([panel EXCEPT !.cache = c])
    BY <1>6 DEF PanelSees
  <2>2. Tame(panel, panel')
    BY <1>1, <1>5, <2>1, CacheTame
  <2>3. bus' = later
    BY <1>6 DEF PanelSees
  <2> QED
    BY <1>4, <1>6, <2>2, <2>3 DEF IsAnswer
<1>7. CASE m.kind = "vanished"
  <2>1. panel' = Refreshed([panel EXCEPT !.cache = NoText]) /\ bus' = later
    BY <1>7 DEF PanelSees
  <2>2. Tame(panel, panel')
    BY <1>1, <2>1, CacheTame
  <2> QED
    BY <1>4, <1>7, <2>1, <2>2 DEF IsAnswer
<1>8. CASE m.kind = "appeared"
  <2>1. /\ panel' = Appeared(panel) \/ panel' = panel
        /\ bus' = Without(later, "properties")
    BY <1>8 DEF PanelSees
  <2>2. Tame(panel, panel')
    BY <1>1, <1>5, <2>1, AppearedTame
  <2> QED
    BY <1>4, <1>8, <2>1, <2>2 DEF IsAnswer
<1> QED
  BY <1>2, <1>3, <1>6, <1>7, <1>8 DEF MessageKinds, IsAnswer

(* The daemon answers the write it serves; its other messages are no       *)
(* answers.                                                                *)
LEMMA DaemonStep ==
    ASSUME Shape, InFlight, Unseeded(panel),
           Daemon \/ FileChanges \/ Start \/ UNCHANGED vars
    PROVE  InFlight' /\ Unseeded(panel)' /\ DOMAIN panel' = PanelFields
<1>1. panel' = panel
  BY DEF Daemon, SetConfigText, HandleConfigWatch, DispatchConfigReload,
         ActivateEngine, FileChanges, Start, vars
<1>2. Unseeded(panel)' /\ DOMAIN panel' = PanelFields
  BY <1>1 DEF Shape, Unseeded
<1>3. CASE SetConfigText
  <2>1. PICK m : /\ bus' = Append(bus, m) /\ IsAnswer(m) /\ m.kind \in MessageKinds
                 /\ request # <<>> /\ request' = Tail(request)
    BY <1>3 DEF SetConfigText, Message, IsAnswer, MessageKinds
  <2>2. PICK t : panel.submitting /\ request = <<t>> /\ NoAnswer(bus) /\ IsBus(bus)
    BY <2>1 DEF InFlight
  <2>3. IsBus(bus') /\ OneAnswer(bus')
    BY <2>1, <2>2, Appended
  <2>4. request' = <<>>
    BY <2>1, <2>2
  <2>5. InFlight'
    BY <1>1, <2>2, <2>3, <2>4 DEF InFlight
  <2> QED
    BY <1>2, <2>5
<1>4. ASSUME request' = request,
             bus' = bus \/ \E m : /\ bus' = Append(bus, m) /\ ~IsAnswer(m)
                                  /\ m.kind \in MessageKinds
      PROVE  InFlight'
  <2>1. /\ IsBus(bus')
        /\ NoAnswer(bus) => NoAnswer(bus')
        /\ OneAnswer(bus) => OneAnswer(bus')
    BY <1>4, Appended DEF InFlight
  <2> QED
    BY <1>1, <1>4, <2>1 DEF InFlight
<1>5. \A d : ~IsAnswer(Properties(d)) /\ Properties(d).kind \in MessageKinds
  BY DEF Properties, IsAnswer, MessageKinds
<1>6. ~IsAnswer(Message("appeared")) /\ Message("appeared").kind \in MessageKinds
  BY DEF Message, IsAnswer, MessageKinds
<1>7. CASE HandleConfigWatch \/ FileChanges \/ UNCHANGED vars
  <2>1. UNCHANGED <<request, bus>>
    BY <1>7 DEF HandleConfigWatch, FileChanges, vars
  <2> QED
    BY <1>2, <1>4, <2>1
<1>8. CASE DispatchConfigReload
  <2>1. request' = request /\ \E d : bus' = Append(bus, Properties(d))
    BY <1>8 DEF DispatchConfigReload
  <2> QED
    BY <1>2, <1>4, <1>5, <2>1
<1>9. ASSUME NEW e, ActivateEngine(e)
      PROVE  InFlight'
  <2>1. request' = request /\ (bus' = bus \/ bus' = Append(bus, Properties(daemon)))
    BY <1>9 DEF ActivateEngine
  <2> QED
    BY <1>4, <1>5, <2>1
<1>10. CASE Start
  <2>1. request' = request /\ bus' = Append(bus, Message("appeared"))
    BY <1>10 DEF Start
  <2> QED
    BY <1>2, <1>4, <1>6, <2>1
<1> QED
  BY <1>2, <1>3, <1>7, <1>8, <1>9, <1>10 DEF Daemon

(* A daemon that goes leaves the bus to answer the write it had not.       *)
LEMMA StopStep ==
    ASSUME Shape, InFlight, Unseeded(panel), Stop
    PROVE  InFlight' /\ Unseeded(panel)' /\ DOMAIN panel' = PanelFields
<1> DEFINE gone == Message("vanished")
           failed == Message("failed")
           left == Append(bus, gone)
<1>1. /\ panel' = panel /\ request' = <<>>
      /\ bus' = bus \o <<gone>> \o [i \in DOMAIN request |-> failed]
  BY DEF Stop
<1>2. Unseeded(panel)' /\ DOMAIN panel' = PanelFields
  BY <1>1 DEF Shape, Unseeded
<1>3. /\ ~IsAnswer(gone) /\ gone.kind \in MessageKinds
      /\ IsAnswer(failed) /\ failed.kind \in MessageKinds
  BY DEF Message, IsAnswer, MessageKinds
<1> HIDE DEF gone, failed
<1>4. /\ IsBus(left)
      /\ NoAnswer(bus) => NoAnswer(left)
      /\ OneAnswer(bus) => OneAnswer(left)
  BY <1>3, Appended DEF InFlight
<1>5. PICK S : bus \in Seq(S)
  BY DEF InFlight, IsBus
<1>6. bus \in Seq(S \cup {gone, failed})
  BY <1>5
<1>7. left = bus \o <<gone>> /\ left \in Seq(S \cup {gone, failed})
  BY <1>6
<1> HIDE DEF left
<1>8. CASE request = <<>>
  <2>1. [i \in DOMAIN request |-> failed] = <<>>
    BY <1>8
  <2>2. bus' = left
    BY <1>1, <1>7, <2>1
  <2>3. InFlight'
    BY <1>1, <1>4, <1>8, <2>2 DEF InFlight
  <2> QED
    BY <1>2, <2>3
<1>9. ASSUME NEW t, request = <<t>>
      PROVE  InFlight'
  <2>1. [i \in DOMAIN request |-> failed] = <<failed>>
    BY <1>9
  <2>2. bus' = Append(left, failed)
    BY <1>1, <1>7, <2>1
  <2>3. panel.submitting /\ NoAnswer(bus)
    BY <1>9 DEF InFlight
  <2>4. IsBus(bus') /\ OneAnswer(bus')
    BY <1>3, <1>4, <2>2, <2>3, Appended
  <2> QED
    BY <1>1, <2>3, <2>4 DEF InFlight
<1>10. request = <<>> \/ \E t : request = <<t>>
  BY DEF InFlight
<1> QED
  BY <1>2, <1>8, <1>9, <1>10

(* Every step keeps the invariant.                                         *)
LEMMA IInvStep == IInv /\ [Next]_vars => IInv'
<1> SUFFICES ASSUME IInv, [Next]_vars PROVE IInv'
  OBVIOUS
<1>1. Shape /\ InFlight /\ Unseeded(panel) /\ ConfigFollowsFile
  BY DEF IInv
<1>2. InFlight' /\ Unseeded(panel)' /\ DOMAIN panel' = PanelFields
  BY <1>1, UserStep, AutosaveStep, MessageStep, DaemonStep, StopStep DEF Next
<1>3. /\ ConfigFollowsFile' /\ DOMAIN daemon' = {"up", "conf", "text", "voice"}
      /\ DOMAIN watch' = {"event", "armed"}
  BY <1>1, FileStep
<1>4. Shape'
  BY <1>2, <1>3 DEF Shape
<1> QED
  BY <1>2, <1>3, <1>4 DEF IInv

(* So it always holds.                                                     *)
LEMMA SpecIInv == Spec => []IInv
  BY IInvInit, IInvStep, PTL DEF Spec

-----------------------------------------------------------------------------
(* The theorems.                                                           *)

(* One write is in flight at a time, and the panel knows of it until it    *)
(* has seen the answer, whatever the daemon does in between                *)
(* (submitting_config of control_config.c).                                *)
THEOREM WritesAreSingle == Spec => []OneWriteInFlight
<1>1. IInv => OneWriteInFlight
  <2> SUFFICES ASSUME InFlight PROVE OneWriteInFlight
    BY DEF IInv
  <2> DEFINE answers == {i \in DOMAIN bus : bus[i].kind \in {"done", "failed"}}
  <2>1. DOMAIN bus = 1..Len(bus)
    <3>1. PICK S : bus \in Seq(S)
      BY DEF InFlight, IsBus
    <3> QED
      BY <3>1
  <2>2. answers = {i \in 1..Len(bus) : IsAnswer(bus[i])}
    BY <2>1 DEF IsAnswer
  <2>3. NoAnswer(bus) => answers = {}
    BY <2>2 DEF NoAnswer
  <2>4. OneAnswer(bus) => \E i : answers = {i}
    BY <2>2 DEF OneAnswer
  <2>5. Cardinality({}) = 0 /\ \A i : Cardinality({i}) = 1
    BY FS_EmptySet, FS_Singleton
  <2>6. Len(<<>>) = 0 /\ \A t : Len(<<t>>) = 1
    OBVIOUS
  <2> HIDE DEF answers
  <2>7. Len(request) + Cardinality(answers) = IF panel.submitting THEN 1 ELSE 0
    <3>1. CASE ~panel.submitting
      <4>1. Len(request) = 0 /\ Cardinality(answers) = 0
        BY <2>3, <2>5, <2>6, <3>1 DEF InFlight
      <4> QED
        BY <3>1, <4>1
    <3>2. CASE panel.submitting
      <4>1. \/ Len(request) = 1 /\ Cardinality(answers) = 0
            \/ Len(request) = 0 /\ Cardinality(answers) = 1
        BY <2>3, <2>4, <2>5, <2>6, <3>2 DEF InFlight
      <4>2. Len(request) + Cardinality(answers) = 1
        BY <4>1
      <4> QED
        BY <3>2, <4>2
    <3> QED
      BY <3>1, <3>2
  <2> QED
    BY <2>7 DEF OneWriteInFlight, answers
<1> QED
  BY <1>1, SpecIInv, PTL

(* Nothing is staged and nothing written before the daemon has given its   *)
(* configuration (config_seeded of control_config.c).                      *)
THEOREM SeedComesFirst == Spec => []NothingBeforeSeed
<1>1. IInv => NothingBeforeSeed
  BY DEF IInv, InFlight, Unseeded, NothingBeforeSeed
<1> QED
  BY <1>1, SpecIInv, PTL

(* With no event and no reload pending the configuration in force is the   *)
(* file's (wl_runtime_config.c).                                           *)
THEOREM FileIsFollowed == Spec => []ConfigFollowsFile
<1>1. IInv => ConfigFollowsFile
  BY DEF IInv
<1> QED
  BY <1>1, SpecIInv, PTL

=============================================================================
