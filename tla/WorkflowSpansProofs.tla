------------------------- MODULE WorkflowSpansProofs -------------------------
(***************************************************************************)
(* The spans of agent runs, turns, LLM requests and tool calls, for every  *)
(* set of identifiers and prompts and every limit of the registries.       *)
(***************************************************************************)
EXTENDS WorkflowSpans, BoundedMapProofs

\* The registries: the gauge of each counts its spans, and what is active or
\* current was started.
SpansKept ==
  /\ active = [kind \in Kind |-> active[kind]]
  /\ current = [kind \in Kind |-> current[kind]]
  /\ used = [kind \in Kind |-> used[kind]]
  /\ open \in [Kind -> Int]
  /\ \A kind \in Kind :
       /\ IsBoundedMap(active[kind], Entry(kind), Limit[kind])
       /\ open[kind] = Len(active[kind])
       /\ used[kind] \subseteq IdOf[kind]
       /\ current[kind] \in used[kind] \cup {NoId}
       /\ \A e \in Entries(active[kind]) : e.key \in used[kind]

\* What the sequences have to remember: the turns of the current run.
SequencesKept ==
  /\ IsBoundedMap(sequences, [key : Run, index : 0 .. MaxIndex], MaxRuns)
  /\ repeated = FALSE
  /\ \A turn \in used["turn"] : turn[1] \in used["run"]
  /\ (session = "open" /\ current["run"] # NoId) =>
       \A turn \in used["turn"] :
         turn[1] = current["run"] =>
           \E e \in Entries(sequences) : e.key = turn[1] /\ turn[2] <= e.index

\* Images that wait for a turn are those of the prompt of the current run, and
\* no turn of that run has them yet.
ImagesKept ==
  /\ images \in [pending : Prompt \cup {NoId}, next : Prompt \cup {NoId}]
  /\ prompted \in [Run -> Prompt \cup {NoId}]
  /\ shown \in [Prompt -> SUBSET TurnId]
  /\ \A p \in Prompt : shown[p] \subseteq used["turn"]
  /\ ImagesOfOwnPrompt
  /\ (session = "open" /\ images.next # NoId) =>
       /\ current["run"] # NoId
       /\ prompted[current["run"]] = images.next
       /\ \A turn \in shown[images.next] : turn[1] # current["run"]

\* Unless the registry was full, a tool that runs has a call with its arguments,
\* and the current call is active.
CallsKept ==
  /\ running \subseteq used["tool"] /\ misfiled \subseteq Tool /\ crowded \in BOOLEAN
  /\ ~crowded => misfiled = {}
  /\ (session = "open" /\ ~crowded) =>
       /\ current["tool"] # NoId => \E e \in Entries(active["tool"]) : e.key = current["tool"]
       /\ \A t \in running : \E e \in Entries(active["tool"]) : e.key = t
       /\ \A e \in Entries(active["tool"]) : e.key \in running => ArgumentsAtEnd(e) = e.key

IInv ==
  /\ session \in {"open", "closed"}
  /\ SpansKept /\ SequencesKept /\ ImagesKept /\ CallsKept
-----------------------------------------------------------------------------
(* The registries                                                          *)

\* Limits are positive, and keys are identifiers.
LEMMA KindFacts ==
  ASSUME NEW kind \in Kind
  PROVE  /\ Limit[kind] \in Nat \ {0} /\ Limit[kind] \in Nat
         /\ \A e \in Entry(kind) : e.key \in IdOf[kind]
BY BoundsTyped DEF Kind, Limit, Entry, IdOf

\* A span that starts may evict the oldest one, which leaves the gauge.
LEMMA SpanStarts ==
  ASSUME SpansKept, NEW kind \in Kind, NEW e \in Entry(kind),
         active' = [active EXCEPT ![kind] = Set(@, e, Limit[kind])],
         current' = [current EXCEPT ![kind] = e.key],
         open' = [open EXCEPT ![kind] = @ + 1 - Excess(active[kind], e, Limit[kind])],
         ~Has(active[kind], e.key),
         used' = [other \in Kind |-> used'[other]],
         \A other \in Kind : used[other] \subseteq used'[other] /\ used'[other] \subseteq IdOf[other],
         e.key \in used'[kind]
  PROVE  SpansKept'
<1> DEFINE set == Set(active[kind], e, Limit[kind])
           evicted == Evicted(active[kind], e, Limit[kind])
           excess == Excess(active[kind], e, Limit[kind])
<1>1. /\ active = [other \in Kind |-> active[other]] /\ current = [other \in Kind |-> current[other]]
      /\ open \in [Kind -> Int] /\ open[kind] = Len(active[kind])
      /\ IsBoundedMap(active[kind], Entry(kind), Limit[kind]) /\ Limit[kind] \in Nat \ {0}
  BY KindFacts DEF SpansKept
<1>2. IsSet(active[kind], e, Entry(kind), Limit[kind])
  BY <1>1, SetEntries
<1>3. /\ IsBoundedMap(set, Entry(kind), Limit[kind])
      /\ excess \in {0, 1} /\ Len(set) = Len(active[kind]) + 1 - excess
      /\ Entries(set) = ({d \in Entries(active[kind]) : d.key # e.key} \ evicted) \cup {e}
  BY <1>2 DEF IsSet
<1> HIDE DEF set, evicted, excess
<1>4. /\ active' = [active EXCEPT ![kind] = set]
      /\ open' = [open EXCEPT ![kind] = @ + 1 - excess]
  BY DEF set, excess
<1>5. /\ active' = [other \in Kind |-> active'[other]] /\ current' = [other \in Kind |-> current'[other]]
      /\ active'[kind] = set /\ current'[kind] = e.key
      /\ \A other \in Kind : other # kind => /\ active'[other] = active[other]
                                             /\ current'[other] = current[other]
  BY <1>1, <1>4
<1>6. /\ open' \in [Kind -> Int] /\ open'[kind] = Len(set)
      /\ \A other \in Kind : other # kind => open'[other] = open[other]
  BY <1>1, <1>3, <1>4
<1>7. \A d \in Entries(set) : d.key \in used'[kind]
  BY <1>3 DEF SpansKept
<1>8. ASSUME NEW other \in Kind
      PROVE  /\ IsBoundedMap(active'[other], Entry(other), Limit[other])
             /\ open'[other] = Len(active'[other])
             /\ current'[other] \in used'[other] \cup {NoId}
             /\ \A d \in Entries(active'[other]) : d.key \in used'[other]
  <2>1. CASE other = kind
    BY <1>3, <1>5, <1>6, <1>7, <2>1
  <2>2. CASE other # kind
    BY <1>5, <1>6, <2>2 DEF SpansKept
  <2>3. QED
    BY <2>1, <2>2
<1>9. QED
  BY <1>5, <1>6, <1>8 DEF SpansKept

\* A span that ends leaves its registry and the gauge.
LEMMA SpanEnds ==
  ASSUME SpansKept, NEW kind \in Kind, NEW id, Active(kind, id), EndSpan(kind, id), used' = used
  PROVE  /\ SpansKept'
         /\ active'[kind] = Delete(active[kind], id)
         /\ Entries(active'[kind]) = {e \in Entries(active[kind]) : e.key # id}
         /\ current'[kind] = IF current[kind] = id THEN NoId ELSE current[kind]
         /\ \A other \in Kind : other # kind => /\ active'[other] = active[other]
                                                /\ current'[other] = current[other]
<1> DEFINE rest == Delete(active[kind], id)
<1>1. /\ active = [other \in Kind |-> active[other]] /\ current = [other \in Kind |-> current[other]]
      /\ open \in [Kind -> Int] /\ open[kind] = Len(active[kind])
      /\ IsBoundedMap(active[kind], Entry(kind), Limit[kind]) /\ Limit[kind] \in Nat
      /\ Has(active[kind], id)
  BY KindFacts DEF SpansKept, Active
<1>2. /\ IsBoundedMap(rest, Entry(kind), Limit[kind])
      /\ Entries(rest) = {e \in Entries(active[kind]) : e.key # id}
      /\ Len(rest) = Len(active[kind]) - 1
  BY <1>1, DeleteEntries
<1>3. /\ active' = [active EXCEPT ![kind] = rest]
      /\ open' = [open EXCEPT ![kind] = @ - 1]
      /\ current' = [current EXCEPT ![kind] = IF @ = id THEN NoId ELSE @]
  BY DEF EndSpan
<1> HIDE DEF rest
<1>4. /\ active' = [other \in Kind |-> active'[other]] /\ current' = [other \in Kind |-> current'[other]]
      /\ active'[kind] = rest /\ current'[kind] = IF current[kind] = id THEN NoId ELSE current[kind]
      /\ \A other \in Kind : other # kind => /\ active'[other] = active[other]
                                             /\ current'[other] = current[other]
  BY <1>1, <1>3
<1>5. /\ open' \in [Kind -> Int] /\ open'[kind] = Len(rest)
      /\ \A other \in Kind : other # kind => open'[other] = open[other]
  BY <1>1, <1>2, <1>3
<1>6. ASSUME NEW other \in Kind
      PROVE  /\ IsBoundedMap(active'[other], Entry(other), Limit[other])
             /\ open'[other] = Len(active'[other])
             /\ used'[other] \subseteq IdOf[other]
             /\ current'[other] \in used'[other] \cup {NoId}
             /\ \A d \in Entries(active'[other]) : d.key \in used'[other]
  <2>1. /\ used[other] \subseteq IdOf[other] /\ current[other] \in used[other] \cup {NoId}
        /\ \A d \in Entries(active[other]) : d.key \in used[other]
        /\ IsBoundedMap(active[other], Entry(other), Limit[other])
        /\ open[other] = Len(active[other])
    BY DEF SpansKept
  <2>2. CASE other = kind
    BY <1>2, <1>4, <1>5, <2>1, <2>2
  <2>3. CASE other # kind
    BY <1>4, <1>5, <2>1, <2>3
  <2>4. QED
    BY <2>2, <2>3
<1>7. SpansKept'
  BY <1>4, <1>5, <1>6 DEF SpansKept
<1>8. QED
  BY <1>2, <1>4, <1>7 DEF rest

\* A call that goes on keeps its place; what is current is it, or stays.
LEMMA CallGoesOn ==
  ASSUME SpansKept, NEW call \in Entry("tool"), Active("tool", call.key), active' = WithCall(call),
         \/ current' = current
         \/ current' = [current EXCEPT !["tool"] = call.key],
         open' = open, used' = used
  PROVE  /\ SpansKept'
         /\ Entries(active'["tool"]) = {e \in Entries(active["tool"]) : e.key # call.key} \cup {call}
         /\ \A other \in Kind : other # "tool" => /\ active'[other] = active[other]
                                                  /\ current'[other] = current[other]
<1> DEFINE stored == Store(active["tool"], call)
<1>1. /\ "tool" \in Kind
      /\ active = [other \in Kind |-> active[other]] /\ current = [other \in Kind |-> current[other]]
      /\ IsBoundedMap(active["tool"], Entry("tool"), Limit["tool"]) /\ Limit["tool"] \in Nat
      /\ Has(active["tool"], call.key)
  BY KindFacts DEF SpansKept, Active, Kind
<1>2. /\ stored \in Seq(Entry("tool")) /\ Len(stored) = Len(active["tool"])
      /\ \A i, j \in DOMAIN stored : stored[i].key = stored[j].key => i = j
      /\ Entries(stored) = {e \in Entries(active["tool"]) : e.key # call.key} \cup {call}
  BY <1>1, StoreEntries
<1>3. IsBoundedMap(stored, Entry("tool"), Limit["tool"])
  BY <1>1, <1>2 DEF IsBoundedMap
<1>4. active' = [active EXCEPT !["tool"] = stored]
  BY DEF WithCall
<1> HIDE DEF stored
<1>5. /\ active' = [other \in Kind |-> active'[other]] /\ active'["tool"] = stored
      /\ \A other \in Kind : other # "tool" => active'[other] = active[other]
  BY <1>1, <1>4
<1>6. /\ current' = [other \in Kind |-> current'[other]]
      /\ current'["tool"] \in {current["tool"], call.key}
      /\ \A other \in Kind : other # "tool" => current'[other] = current[other]
  BY <1>1
<1>7. PICK e \in Entries(active["tool"]) : e.key = call.key
  BY <1>1, KeysOfEntries DEF Has
<1>8. ASSUME NEW other \in Kind
      PROVE  /\ IsBoundedMap(active'[other], Entry(other), Limit[other])
             /\ open'[other] = Len(active'[other])
             /\ used'[other] \subseteq IdOf[other]
             /\ current'[other] \in used'[other] \cup {NoId}
             /\ \A d \in Entries(active'[other]) : d.key \in used'[other]
  <2>1. /\ used[other] \subseteq IdOf[other] /\ current[other] \in used[other] \cup {NoId}
        /\ \A d \in Entries(active[other]) : d.key \in used[other]
        /\ IsBoundedMap(active[other], Entry(other), Limit[other])
        /\ open[other] = Len(active[other])
    BY DEF SpansKept
  <2>2. CASE other = "tool"
    <3>1. call.key \in used["tool"]
      BY <1>7, <2>1, <2>2
    <3>2. QED
      BY <1>2, <1>3, <1>5, <1>6, <2>1, <2>2, <3>1
  <2>3. CASE other # "tool"
    BY <1>5, <1>6, <2>1, <2>3
  <2>4. QED
    BY <2>2, <2>3
<1>9. SpansKept'
  BY <1>5, <1>6, <1>8 DEF SpansKept
<1>10. QED
  BY <1>2, <1>5, <1>6, <1>9
\* What was not started is not active.
LEMMA FreshIsInactive ==
  ASSUME SpansKept, NEW kind \in Kind, NEW id, Fresh(kind, id)
  PROVE  ~Active(kind, id) /\ \A e \in Entries(active[kind]) : e.key # id
BY KeysOfEntries DEF SpansKept, Fresh, Active, Has

\* What has an entry is active.
LEMMA ActiveEntries ==
  ASSUME NEW kind, NEW e \in Entries(active[kind])
  PROVE  Active(kind, e.key)
BY KeysOfEntries DEF Active, Has

\* startActiveChildSpan starts what is not active.
LEMMA StartSpanKeeps ==
  ASSUME SpansKept, NEW kind \in Kind, NEW e \in Entry(kind), ~Active(kind, e.key), StartSpan(kind, e)
  PROVE  /\ SpansKept' /\ current'[kind] = e.key /\ used'[kind] = used[kind] \cup {e.key}
         /\ Excess(active[kind], e, Limit[kind]) = 0 =>
              Entries(active'[kind]) = Entries(active[kind]) \cup {e}
         /\ \A other \in Kind : other # kind => /\ active'[other] = active[other]
                                                /\ current'[other] = current[other]
                                                /\ used'[other] = used[other]
<1>1. /\ active = [other \in Kind |-> active[other]] /\ current = [other \in Kind |-> current[other]]
      /\ used = [other \in Kind |-> used[other]]
      /\ \A other \in Kind : used[other] \subseteq IdOf[other]
      /\ \A d \in Entries(active[kind]) : d.key \in used[kind]
  BY DEF SpansKept
<1>2. /\ active' = [active EXCEPT ![kind] = Set(@, e, Limit[kind])]
      /\ current' = [current EXCEPT ![kind] = e.key]
      /\ open' = [open EXCEPT ![kind] = @ + 1 - Excess(active[kind], e, Limit[kind])]
      /\ used' = [used EXCEPT ![kind] = @ \cup {e.key}]
  BY DEF StartSpan
<1>3. e.key \in IdOf[kind] /\ ~Has(active[kind], e.key)
  BY KindFacts DEF Active
<1>4. /\ used' = [other \in Kind |-> used'[other]] /\ used'[kind] = used[kind] \cup {e.key}
      /\ \A other \in Kind : other # kind => used'[other] = used[other]
  BY <1>1, <1>2
<1>5. \A other \in Kind : used[other] \subseteq used'[other] /\ used'[other] \subseteq IdOf[other]
  BY <1>1, <1>3, <1>4
<1>6. SpansKept'
  BY <1>2, <1>3, <1>4, <1>5, SpanStarts
<1>7. /\ current'[kind] = e.key
      /\ \A other \in Kind : other # kind => /\ active'[other] = active[other]
                                             /\ current'[other] = current[other]
  BY <1>1, <1>2
<1>8. ASSUME Excess(active[kind], e, Limit[kind]) = 0
      PROVE  Entries(active'[kind]) = Entries(active[kind]) \cup {e}
  <2>1. IsBoundedMap(active[kind], Entry(kind), Limit[kind]) /\ Limit[kind] \in Nat \ {0}
    BY KindFacts DEF SpansKept
  <2>2. IsSet(active[kind], e, Entry(kind), Limit[kind])
    BY <2>1, SetEntries
  <2>3. Entries(Set(active[kind], e, Limit[kind]))
          = {d \in Entries(active[kind]) : d.key # e.key} \cup {e}
    BY <1>8, <2>2 DEF IsSet
  <2>4. \A d \in Entries(active[kind]) : d.key # e.key
    BY <1>3, KeysOfEntries DEF Has
  <2>5. active'[kind] = Set(active[kind], e, Limit[kind])
    BY <1>1, <1>2
  <2>6. QED
    BY <2>3, <2>4, <2>5
<1>9. QED
  BY <1>4, <1>6, <1>7, <1>8

\* Events of other kinds leave the runs, the turns and the calls alone.
LEMMA RunsStay ==
  ASSUME SequencesKept, ImagesKept,
         used'["run"] = used["run"], used'["turn"] = used["turn"], current'["run"] = current["run"],
         UNCHANGED <<sequences, images, repeated, prompted, shown, session>>
  PROVE  SequencesKept' /\ ImagesKept'
<1>1. SequencesKept'
  BY DEF SequencesKept
<1>2. ImagesOfOwnPrompt'
  BY DEF ImagesKept, ImagesOfOwnPrompt
<1>3. ImagesKept'
  BY <1>2 DEF ImagesKept
<1>4. QED
  BY <1>1, <1>3

LEMMA CallsStay ==
  ASSUME CallsKept,
         active'["tool"] = active["tool"], current'["tool"] = current["tool"],
         used["tool"] \subseteq used'["tool"],
         UNCHANGED <<running, misfiled, crowded, session>>
  PROVE  CallsKept'
BY DEF CallsKept

-----------------------------------------------------------------------------
(* Agent runs                                                              *)

LEMMA BeforeAgentStartStep ==
  ASSUME IInv, NEW prompt \in Prompt, BeforeAgentStart(prompt)
  PROVE  IInv'
<1> USE DEF BeforeAgentStart, history, IInv
<1>1. SpansKept'
  BY DEF SpansKept
<1>2. SequencesKept'
  BY DEF SequencesKept
<1>3. /\ images' \in [pending : Prompt \cup {NoId}, next : Prompt \cup {NoId}]
      /\ images'.next = images.next
  BY DEF ImagesKept
<1>4. ImagesOfOwnPrompt'
  BY DEF ImagesKept, ImagesOfOwnPrompt
<1>5. ImagesKept'
  BY <1>3, <1>4 DEF ImagesKept
<1>6. CallsKept'
  BY CallsStay
<1>7. QED
  BY <1>1, <1>2, <1>5, <1>6

LEMMA AgentStartStep ==
  ASSUME IInv, NEW r \in Run, AgentStart(r)
  PROVE  IInv'
<1>1. /\ session = "open" /\ Fresh("run", r) /\ StartSpan("run", [key |-> r])
      /\ sequences' = RemainingSequences(r)
      /\ images' = [pending |-> NoId, next |-> images.pending]
      /\ prompted' = [prompted EXCEPT ![r] = images.pending]
      /\ UNCHANGED <<repeated, shown, running, misfiled, crowded, session>>
  BY DEF AgentStart
<1>2. "run" \in Kind /\ "turn" \in Kind /\ "tool" \in Kind /\ [key |-> r] \in Entry("run")
  BY DEF Kind, Entry, IdOf
<1>3. /\ SpansKept' /\ current'["run"] = r /\ used'["run"] = used["run"] \cup {r}
      /\ \A other \in Kind : other # "run" => /\ active'[other] = active[other]
                                              /\ current'[other] = current[other]
                                              /\ used'[other] = used[other]
  BY <1>1, <1>2, FreshIsInactive, StartSpanKeeps DEF IInv
<1>4. /\ \A turn \in used["turn"] : turn[1] \in used["run"] /\ turn[1] # r
      /\ \A p \in Prompt : shown[p] \subseteq used["turn"]
  BY <1>1 DEF IInv, SequencesKept, ImagesKept, Fresh
<1>5. used'["turn"] = used["turn"] /\ used'["tool"] = used["tool"]
  BY <1>2, <1>3
<1>6. SequencesKept'
  <2>1. IsBoundedMap(sequences, [key : Run, index : 0 .. MaxIndex], MaxRuns) /\ MaxRuns \in Nat
    BY BoundsTyped DEF IInv, SequencesKept
  <2>2. IsBoundedMap(sequences', [key : Run, index : 0 .. MaxIndex], MaxRuns)
    BY <1>1, <2>1, DeleteEntries DEF RemainingSequences
  <2>3. ~repeated' /\ \A turn \in used'["turn"] : turn[1] \in used'["run"]
    BY <1>1, <1>3, <1>4, <1>5 DEF IInv, SequencesKept
  <2>4. QED
    BY <1>3, <1>4, <1>5, <2>2, <2>3 DEF SequencesKept
<1>7. ImagesKept'
  <2>1. /\ images' \in [pending : Prompt \cup {NoId}, next : Prompt \cup {NoId}]
        /\ images'.next = images.pending /\ images.pending \in Prompt \cup {NoId}
    BY <1>1 DEF IInv, ImagesKept
  <2>2. /\ prompted' \in [Run -> Prompt \cup {NoId}] /\ prompted'[r] = images.pending
        /\ \A other \in Run : other # r => prompted'[other] = prompted[other]
    BY <1>1, <2>1 DEF IInv, ImagesKept
  <2>3. shown' \in [Prompt -> SUBSET TurnId] /\ \A p \in Prompt : shown'[p] \subseteq used'["turn"]
    BY <1>1, <1>4, <1>5 DEF IInv, ImagesKept
  <2>4. ASSUME NEW p \in Prompt, NEW turn \in shown'[p]
        PROVE  prompted'[turn[1]] = p /\ turn[1] # r
    <3>1. turn \in shown[p] /\ turn \in used["turn"] /\ turn \in TurnId
      BY <1>1, <1>4, <2>3
    <3>2. turn[1] # r /\ turn[1] \in Run
      BY <1>4, <3>1 DEF TurnId
    <3>3. prompted[turn[1]] = p
      BY <3>1 DEF IInv, ImagesKept, ImagesOfOwnPrompt
    <3>4. QED
      BY <2>2, <3>2, <3>3
  <2>5. ImagesOfOwnPrompt'
    BY <1>1, <2>4 DEF IInv, ImagesKept, ImagesOfOwnPrompt
  <2>6. images'.next # NoId => /\ current'["run"] # NoId
                               /\ prompted'[current'["run"]] = images'.next
                               /\ \A turn \in shown'[images'.next] : turn[1] # current'["run"]
    <3>1. r # NoId
      BY NoIdOutside
    <3>2. QED
      BY <1>3, <2>1, <2>2, <2>4, <3>1
  <2>7. QED
    BY <2>1, <2>2, <2>3, <2>5, <2>6 DEF ImagesKept
<1>8. CallsKept'
  BY <1>1, <1>2, <1>3, CallsStay DEF IInv
<1>9. QED
  BY <1>1, <1>3, <1>6, <1>7, <1>8 DEF IInv

LEMMA AgentEndStep ==
  ASSUME IInv, NEW given \in Run \cup {NoId}, AgentEnd(given)
  PROVE  IInv'
<1> DEFINE r == OrCurrent("run", given)
<1>1. /\ session = "open" /\ Active("run", r) /\ EndSpan("run", r)
      /\ sequences' = Delete(sequences, r)
      /\ images' = IF current["run"] = r THEN [images EXCEPT !.next = NoId] ELSE images
      /\ UNCHANGED <<used, repeated, prompted, shown, running, misfiled, crowded, session>>
  BY DEF AgentEnd, history
<1> HIDE DEF r
<1>2. "run" \in Kind /\ "tool" \in Kind
  BY DEF Kind
<1>3. /\ SpansKept'
      /\ current'["run"] = IF current["run"] = r THEN NoId ELSE current["run"]
      /\ active'["tool"] = active["tool"] /\ current'["tool"] = current["tool"]
  BY <1>1, <1>2, SpanEnds DEF IInv
<1>4. SequencesKept'
  <2>1. /\ IsBoundedMap(sequences, [key : Run, index : 0 .. MaxIndex], MaxRuns) /\ MaxRuns \in Nat
        /\ ~repeated
    BY BoundsTyped DEF IInv, SequencesKept
  <2>2. /\ IsBoundedMap(sequences', [key : Run, index : 0 .. MaxIndex], MaxRuns)
        /\ Entries(sequences') = {e \in Entries(sequences) : e.key # r}
    BY <1>1, <2>1, DeleteEntries
  <2>3. ASSUME current'["run"] # NoId, NEW turn \in used["turn"], turn[1] = current'["run"]
        PROVE  \E e \in Entries(sequences') : e.key = turn[1] /\ turn[2] <= e.index
    <3>1. current'["run"] = current["run"] /\ current["run"] # r /\ current["run"] # NoId
      BY <1>3, <2>3
    <3>2. PICK e \in Entries(sequences) : e.key = turn[1] /\ turn[2] <= e.index
      BY <1>1, <2>3, <3>1 DEF IInv, SequencesKept
    <3>3. QED
      BY <2>2, <2>3, <3>1, <3>2
  <2>4. QED
    BY <1>1, <2>1, <2>2, <2>3 DEF IInv, SequencesKept
<1>5. ImagesKept'
  <2>1. /\ images' \in [pending : Prompt \cup {NoId}, next : Prompt \cup {NoId}]
        /\ images'.next # NoId => images'.next = images.next /\ current["run"] # r
    BY <1>1 DEF IInv, ImagesKept
  <2>2. ImagesOfOwnPrompt'
    BY <1>1 DEF IInv, ImagesKept, ImagesOfOwnPrompt
  <2>3. QED
    BY <1>1, <1>3, <2>1, <2>2 DEF IInv, ImagesKept
<1>6. CallsKept'
  BY <1>1, <1>3, CallsStay DEF IInv
<1>7. QED
  BY <1>1, <1>3, <1>4, <1>5, <1>6 DEF IInv
-----------------------------------------------------------------------------
(* Turns and requests                                                      *)

\* The index of a run is the one of its entry.
LEMMA LastIndexFacts ==
  ASSUME SequencesKept, NEW r \in Run
  PROVE  /\ LastIndex(r) \in 0 .. MaxIndex
         /\ \A e \in Entries(sequences) : e.key = r => LastIndex(r) = e.index
<1>1. IsBoundedMap(sequences, [key : Run, index : 0 .. MaxIndex], MaxRuns) /\ MaxIndex \in Nat
  BY BoundsTyped DEF SequencesKept
<1>2. \A e \in Entries(sequences) : e.key = r => Has(sequences, r) /\ Get(sequences, r) = e
  BY <1>1, EntryIsGot
<1>3. Has(sequences, r) => Get(sequences, r) \in [key : Run, index : 0 .. MaxIndex]
  BY <1>1, GetEntry
<1>4. QED
  BY <1>1, <1>2, <1>3 DEF LastIndex

LEMMA TurnStartStep ==
  ASSUME IInv, NEW r \in Run, NEW given \in (0 .. MaxIndex) \cup {NoId}, TurnStart(r, given)
  PROVE  IInv'
<1> DEFINE index == IF given = NoId THEN LastIndex(r) + 1 ELSE given
           turn == <<r, index>>
           highest == IF given = NoId THEN LastIndex(r) + 1
                      ELSE IF given > LastIndex(r) THEN given ELSE LastIndex(r)
           entry == [key |-> r, index |-> highest]
           span == [key |-> turn]
<1>1. /\ session = "open"
      /\ current["run"] = NoId => Fresh("run", r)
      /\ current["run"] # NoId => r = current["run"]
      /\ index <= MaxIndex
      /\ given # NoId => Fresh("turn", turn)
      /\ sequences' = Set(sequences, entry, MaxRuns)
      /\ active' = [active EXCEPT !["turn"] = Set(@, span, MaxTurns)]
      /\ current' = [current EXCEPT !["turn"] = turn]
      /\ open' = [open EXCEPT !["turn"] = @ + 1 - Excess(active["turn"], span, MaxTurns)]
      /\ used' = [used EXCEPT !["turn"] = @ \cup {turn}, !["run"] = @ \cup {r}]
      /\ repeated' = (repeated \/ turn \in used["turn"])
      /\ images' = [images EXCEPT !.next = NoId]
      /\ shown' = [p \in Prompt |-> IF p = images.next THEN shown[p] \cup {turn} ELSE shown[p]]
      /\ UNCHANGED <<prompted, running, misfiled, crowded, session>>
  BY DEF TurnStart, NextSequences, TakeImages
<1>2. /\ LastIndex(r) \in 0 .. MaxIndex /\ MaxIndex \in Nat
      /\ \A e \in Entries(sequences) : e.key = r => LastIndex(r) = e.index
  BY LastIndexFacts, BoundsTyped DEF IInv
<1>3. /\ index \in 0 .. MaxIndex /\ highest \in 0 .. MaxIndex
      /\ index <= highest /\ LastIndex(r) <= highest
  BY <1>1, <1>2
<1>4. /\ turn \in TurnId /\ turn[1] = r /\ turn[2] = index
      /\ entry \in [key : Run, index : 0 .. MaxIndex] /\ entry.key = r /\ entry.index = highest
  BY <1>3 DEF TurnId
<1>5. turn \notin used["turn"]
  <2>1. CASE given # NoId
    BY <1>1, <2>1 DEF Fresh
  <2>2. CASE given = NoId /\ current["run"] = NoId
    BY <1>1, <1>4, <2>2 DEF Fresh, IInv, SequencesKept
  <2>3. CASE given = NoId /\ current["run"] # NoId
    <3>1. index = LastIndex(r) + 1 /\ current["run"] = r
      BY <1>1, <2>3
    <3>2. ASSUME turn \in used["turn"]
          PROVE  \E e \in Entries(sequences) : e.key = turn[1] /\ turn[2] <= e.index
      BY <1>1, <1>4, <2>3, <3>1, <3>2 DEF IInv, SequencesKept
    <3> HIDE DEF turn, index
    <3>3. QED
      BY <1>2, <1>4, <3>1, <3>2
  <2>4. QED
    BY <2>1, <2>2, <2>3
<1>6. span \in Entry("turn") /\ span.key = turn
  BY <1>4 DEF Entry, IdOf
<1> HIDE DEF index, turn, highest, entry, span
<1>7. /\ used = [other \in Kind |-> used[other]] /\ current = [other \in Kind |-> current[other]]
      /\ active = [other \in Kind |-> active[other]]
      /\ used["run"] \subseteq Run /\ used["turn"] \subseteq TurnId
      /\ \A other \in Kind : used[other] \subseteq IdOf[other]
  BY DEF IInv, SpansKept, Kind, IdOf
<1>8. /\ used' = [other \in Kind |-> used'[other]]
      /\ used'["turn"] = used["turn"] \cup {turn} /\ used'["run"] = used["run"] \cup {r}
      /\ used'["tool"] = used["tool"] /\ used'["request"] = used["request"]
  BY <1>1, <1>7 DEF Kind
<1>9. SpansKept'
  <2>1. "turn" \in Kind /\ Limit["turn"] = MaxTurns
    BY DEF Kind, Limit
  <2>2. ~Has(active["turn"], span.key)
    <3>1. \A e \in Entries(active["turn"]) : e.key \in used["turn"]
      BY <2>1 DEF IInv, SpansKept
    <3>2. QED
      BY <1>5, <1>6, <3>1, KeysOfEntries DEF Has
  <2>3. \A other \in Kind : used[other] \subseteq used'[other] /\ used'[other] \subseteq IdOf[other]
    BY <1>4, <1>7, <1>8 DEF Kind, IdOf
  <2>4. span.key \in used'["turn"]
    BY <1>6, <1>8
  <2>5. /\ active' = [active EXCEPT !["turn"] = Set(@, span, Limit["turn"])]
        /\ current' = [current EXCEPT !["turn"] = span.key]
        /\ open' = [open EXCEPT !["turn"] = @ + 1 - Excess(active["turn"], span, Limit["turn"])]
    BY <1>1, <1>6, <2>1
  <2>6. SpansKept
    BY DEF IInv
  <2>7. QED
    BY <1>6, <1>8, <2>1, <2>2, <2>3, <2>4, <2>5, <2>6, SpanStarts
<1>10. /\ current'["run"] = current["run"] /\ current'["tool"] = current["tool"]
       /\ active'["tool"] = active["tool"]
  BY <1>1, <1>7 DEF Kind
<1>11. SequencesKept'
  <2>1. /\ IsBoundedMap(sequences, [key : Run, index : 0 .. MaxIndex], MaxRuns)
        /\ MaxRuns \in Nat \ {0} /\ repeated = FALSE
    BY BoundsTyped DEF IInv, SequencesKept
  <2>2. IsSet(sequences, entry, [key : Run, index : 0 .. MaxIndex], MaxRuns)
    BY <1>4, <2>1, SetEntries
  <2>3. IsBoundedMap(sequences', [key : Run, index : 0 .. MaxIndex], MaxRuns) /\ entry \in Entries(sequences')
    BY <1>1, <2>2 DEF IsSet
  <2>4. repeated' = FALSE
    BY <1>1, <1>5, <2>1
  <2>5. \A other \in used'["turn"] : other[1] \in used'["run"]
    BY <1>4, <1>8 DEF IInv, SequencesKept
  <2>6. ASSUME current'["run"] # NoId, NEW other \in used'["turn"], other[1] = current'["run"]
        PROVE  \E e \in Entries(sequences') : e.key = other[1] /\ other[2] <= e.index
    <3>1. current["run"] = r /\ other[1] = r /\ current["run"] # NoId
      BY <1>1, <1>10, <2>6
    <3>2. CASE other = turn
      BY <1>3, <1>4, <2>3, <3>1, <3>2
    <3>3. CASE other # turn
      <4>1. other \in used["turn"] /\ other[2] \in 0 .. MaxIndex
        BY <1>7, <1>8, <3>3 DEF TurnId
      <4>2. \E e \in Entries(sequences) : e.key = other[1] /\ other[2] <= e.index
        BY <1>1, <3>1, <4>1 DEF IInv, SequencesKept
      <4>3. other[2] <= LastIndex(r)
        BY <1>2, <3>1, <4>2
      <4>4. other[2] <= highest
        BY <1>2, <1>3, <4>1, <4>3
      <4>5. QED
        BY <1>4, <2>3, <3>1, <4>4
    <3>4. QED
      BY <3>2, <3>3
  <2>7. QED
    BY <2>3, <2>4, <2>5, <2>6 DEF SequencesKept
<1>12. ImagesKept'
  <2>1. /\ images' \in [pending : Prompt \cup {NoId}, next : Prompt \cup {NoId}]
        /\ images'.next = NoId /\ images.next \in Prompt \cup {NoId}
    BY <1>1 DEF IInv, ImagesKept
  <2>2. /\ shown' \in [Prompt -> SUBSET TurnId]
        /\ \A p \in Prompt : p # images.next => shown'[p] = shown[p]
        /\ \A p \in Prompt : p = images.next => shown'[p] = shown[p] \cup {turn}
    BY <1>1, <1>4 DEF IInv, ImagesKept
  <2>3. \A p \in Prompt : shown'[p] \subseteq used'["turn"]
    BY <1>8, <2>2 DEF IInv, ImagesKept
  <2>4. ASSUME NEW p \in Prompt
        PROVE  /\ \A t \in shown'[p] : prompted[t[1]] = p
               /\ \A t, other \in shown'[p] : t[1] = other[1] => t = other
    <3>1. /\ \A t \in shown[p] : prompted[t[1]] = p
          /\ \A t, other \in shown[p] : t[1] = other[1] => t = other
      BY DEF IInv, ImagesKept, ImagesOfOwnPrompt
    <3>2. CASE p # images.next
      BY <2>2, <3>1, <3>2
    <3>3. CASE p = images.next
      <4>1. images.next # NoId
        BY <3>3, NoIdOutside
      <4>2. r = current["run"] /\ prompted[r] = p /\ \A t \in shown[p] : t[1] # r
        BY <1>1, <3>3, <4>1 DEF IInv, ImagesKept
      <4>3. shown'[p] = shown[p] \cup {turn}
        BY <2>2, <3>3
      <4>4. QED
        BY <1>4, <3>1, <4>2, <4>3
    <3>4. QED
      BY <3>2, <3>3
  <2>5. ImagesOfOwnPrompt'
    BY <1>1, <2>4 DEF ImagesOfOwnPrompt
  <2>6. QED
    BY <1>1, <2>1, <2>2, <2>3, <2>5 DEF IInv, ImagesKept
<1>13. CallsKept'
  BY <1>1, <1>8, <1>10, CallsStay DEF IInv
<1>14. QED
  BY <1>1, <1>9, <1>11, <1>12, <1>13 DEF IInv

LEMMA TurnEndStep ==
  ASSUME IInv, NEW turn, NEW run, NEW index, TurnEnd(turn, run, index)
  PROVE  IInv'
<1> DEFINE ended == EndedTurn(turn, run, index)
<1>1. /\ Active("turn", ended) /\ EndSpan("turn", ended)
      /\ UNCHANGED <<sequences, images, used, repeated, prompted, shown, running, misfiled,
                     crowded, session>>
  BY DEF TurnEnd, history
<1> HIDE DEF ended
<1>2. "run" \in Kind /\ "turn" \in Kind /\ "tool" \in Kind
  BY DEF Kind
<1>3. /\ SpansKept' /\ active'["tool"] = active["tool"]
      /\ current'["tool"] = current["tool"] /\ current'["run"] = current["run"]
  BY <1>1, <1>2, SpanEnds DEF IInv
<1>4. SequencesKept' /\ ImagesKept'
  BY <1>1, <1>3, RunsStay DEF IInv
<1>5. CallsKept'
  BY <1>1, <1>3, CallsStay DEF IInv
<1>6. QED
  BY <1>1, <1>3, <1>4, <1>5 DEF IInv

LEMMA BeforeProviderRequestStep ==
  ASSUME IInv, NEW q \in Request, BeforeProviderRequest(q)
  PROVE  IInv'
<1>1. /\ Fresh("request", q) /\ StartSpan("request", [key |-> q])
      /\ UNCHANGED <<sequences, images, repeated, prompted, shown, running, misfiled,
                     crowded, session>>
  BY DEF BeforeProviderRequest
<1>2. /\ "run" \in Kind /\ "turn" \in Kind /\ "tool" \in Kind /\ "request" \in Kind
      /\ [key |-> q] \in Entry("request")
  BY DEF Kind, Entry, IdOf
<1>3. /\ SpansKept'
      /\ \A other \in Kind : other # "request" => /\ active'[other] = active[other]
                                                  /\ current'[other] = current[other]
                                                  /\ used'[other] = used[other]
  BY <1>1, <1>2, FreshIsInactive, StartSpanKeeps DEF IInv
<1>4. SequencesKept' /\ ImagesKept'
  BY <1>1, <1>2, <1>3, RunsStay DEF IInv
<1>5. CallsKept'
  BY <1>1, <1>2, <1>3, CallsStay DEF IInv
<1>6. QED
  BY <1>1, <1>3, <1>4, <1>5 DEF IInv

LEMMA MessageEndStep ==
  ASSUME IInv, NEW given, MessageEnd(given)
  PROVE  IInv'
<1> DEFINE q == OrCurrent("request", given)
<1>1. /\ Active("request", q) /\ EndSpan("request", q)
      /\ UNCHANGED <<sequences, images, used, repeated, prompted, shown, running, misfiled,
                     crowded, session>>
  BY DEF MessageEnd, history
<1> HIDE DEF q
<1>2. "run" \in Kind /\ "request" \in Kind /\ "tool" \in Kind
  BY DEF Kind
<1>3. /\ SpansKept' /\ active'["tool"] = active["tool"]
      /\ current'["tool"] = current["tool"] /\ current'["run"] = current["run"]
  BY <1>1, <1>2, SpanEnds DEF IInv
<1>4. SequencesKept' /\ ImagesKept'
  BY <1>1, <1>3, RunsStay DEF IInv
<1>5. CallsKept'
  BY <1>1, <1>3, CallsStay DEF IInv
<1>6. QED
  BY <1>1, <1>3, <1>4, <1>5 DEF IInv
-----------------------------------------------------------------------------
(* Tool calls                                                              *)

\* Unless the registry was full, the call an event of a tool goes to is the
\* tool's own: it has one, and what stands in for it is the only one.
LEMMA OwnCall ==
  ASSUME IInv, session = "open", ~crowded, NEW t \in running, NEW id,
         Active("tool", id), id = t \/ id = CurrentTool
  PROVE  /\ id = t /\ Get(active["tool"], id) \in Entries(active["tool"])
         /\ ArgumentsAtEnd(Get(active["tool"], id)) = t
<1>1. /\ IsBoundedMap(active["tool"], Entry("tool"), Limit["tool"]) /\ Limit["tool"] \in Nat
      /\ \A e \in Entries(active["tool"]) : e.key \in Tool
  BY KindFacts DEF IInv, SpansKept, Kind, IdOf
<1>2. /\ Position(active["tool"], id) \in DOMAIN active["tool"]
      /\ active["tool"][Position(active["tool"], id)].key = id
      /\ Get(active["tool"], id) \in Entries(active["tool"]) /\ Get(active["tool"], id).key = id
  BY <1>1, GetEntry DEF Active
<1>3. PICK e \in Entries(active["tool"]) : e.key = t
  BY DEF IInv, CallsKept
<1>4. PICK i \in DOMAIN active["tool"] : active["tool"][i].key = t
  BY <1>3 DEF Entries
<1>5. id = t
  <2>1. CASE Len(active["tool"]) > 1
    BY <1>1, <1>2, <2>1, NoIdOutside DEF CurrentTool
  <2>2. CASE ~(Len(active["tool"]) > 1)
    <3>1. DOMAIN active["tool"] = 1 .. Len(active["tool"]) /\ Len(active["tool"]) \in Nat
      BY <1>1, LenProperties DEF IsBoundedMap
    <3>2. i = 1 /\ Position(active["tool"], id) = 1
      BY <1>2, <1>4, <2>2, <3>1
    <3>3. QED
      BY <1>2, <1>4, <3>2
  <2>3. QED
    BY <2>1, <2>2
<1>6. QED
  BY <1>2, <1>5 DEF IInv, CallsKept

LEMMA CrowdFacts ==
  ASSUME IInv, NEW id, Crowd(id), ~crowded', NEW e, e.key = id
  PROVE  ~crowded /\ Excess(active["tool"], e, Limit["tool"]) = 0
<1>1. IsBoundedMap(active["tool"], Entry("tool"), Limit["tool"]) /\ Limit["tool"] \in Nat /\ Limit["tool"] = MaxTools
  BY KindFacts DEF IInv, SpansKept, Kind, Limit
<1>2. ~(Excess(active["tool"], [key |-> id], MaxTools) > 0) /\ ~crowded
  BY DEF Crowd
<1>3. Excess(active["tool"], [key |-> id], MaxTools) = Excess(active["tool"], e, MaxTools)
  <2>1. [key |-> id].key = id
    OBVIOUS
  <2>2. QED
    BY <1>1, <2>1, ExcessOfKey
<1>4. Excess(active["tool"], e, MaxTools) \in {0, 1}
  BY <1>1, ExcessOfKey
<1>5. QED
  BY <1>1, <1>2, <1>3, <1>4

\* An event of a tool goes to a call that is active.
LEMMA InputObserved ==
  ASSUME IInv, NEW id, NEW t \in Tool, Active("tool", id)
  PROVE  LET old == Get(active["tool"], id)
             call == [old EXCEPT !.input = t] IN
           /\ old \in Entries(active["tool"]) /\ call \in Entry("tool") /\ call.key = id
           /\ ObserveToolInput(id, t) = WithCall(call)
           /\ ArgumentsAtEnd(old) = t => ArgumentsAtEnd(call) = t
<1>1. IsBoundedMap(active["tool"], Entry("tool"), Limit["tool"])
  BY DEF IInv, SpansKept, Kind
<1>2. /\ Get(active["tool"], id) \in Entries(active["tool"]) /\ Get(active["tool"], id).key = id
      /\ Get(active["tool"], id) \in Entry("tool")
  BY <1>1, GetEntry DEF Active
<1>3. Entry("tool") = [key : Tool, input : Tool \cup {NoId}, arguments : Tool \cup {NoId}]
  BY DEF Entry
<1> DEFINE old == Get(active["tool"], id)
           call == [old EXCEPT !.input = t]
<1>4. ObserveToolInput(id, t) = WithCall(call)
  BY DEF ObserveToolInput
<1>5. old \in Entries(active["tool"]) /\ old.key = id /\ old \in Entry("tool")
  BY <1>2
<1> HIDE DEF old
<1>6. /\ call \in Entry("tool") /\ call.key = id
      /\ call.input = t /\ call.arguments = old.arguments
  <2>1. old \in [key : Tool, input : Tool \cup {NoId}, arguments : Tool \cup {NoId}]
    BY <1>3, <1>5
  <2>2. call = [key |-> old.key, input |-> t, arguments |-> old.arguments]
    BY <2>1
  <2>3. QED
    BY <1>3, <1>5, <2>1, <2>2
<1> HIDE DEF call
<1>7. ArgumentsAtEnd(old) = t => ArgumentsAtEnd(call) = t
  BY <1>6 DEF ArgumentsAtEnd
<1>8. QED
  BY <1>4, <1>5, <1>6, <1>7 DEF old, call

\* A step that lets a call go on: the calls keep their tools' arguments.
LEMMA CallsGoOn ==
  ASSUME IInv, session = "open", NEW t \in Tool, NEW id, NEW call \in Entry("tool"),
         Active("tool", id), call.key = id,
         Entries(active'["tool"]) = {e \in Entries(active["tool"]) : e.key # id} \cup {call},
         ~crowded => t \in running /\ id = t /\ ArgumentsAtEnd(call) = t,
         current'["tool"] \in {current["tool"], id},
         used' = used, t \in used["tool"], running' \in {running, running \cup {t}}, misfiled' = misfiled,
         crowded' \in BOOLEAN, crowded => crowded'
  PROVE  CallsKept'
<1>1. running' \subseteq used'["tool"] /\ misfiled' \subseteq Tool /\ (~crowded' => misfiled' = {})
  BY DEF IInv, CallsKept
<1>2. ASSUME session' = "open", ~crowded'
      PROVE  /\ current'["tool"] # NoId => \E e \in Entries(active'["tool"]) : e.key = current'["tool"]
             /\ \A u \in running' : \E e \in Entries(active'["tool"]) : e.key = u
             /\ \A e \in Entries(active'["tool"]) : e.key \in running' => ArgumentsAtEnd(e) = e.key
  <2>1. ~crowded /\ t \in running /\ id = t /\ ArgumentsAtEnd(call) = t /\ running' = running
    BY <1>2
  <2>2. /\ current["tool"] # NoId => \E e \in Entries(active["tool"]) : e.key = current["tool"]
        /\ \A u \in running : \E e \in Entries(active["tool"]) : e.key = u
        /\ \A e \in Entries(active["tool"]) : e.key \in running => ArgumentsAtEnd(e) = e.key
    BY <2>1 DEF IInv, CallsKept
  <2>3. \A u : (\E e \in Entries(active["tool"]) : e.key = u) => \E e \in Entries(active'["tool"]) : e.key = u
    OBVIOUS
  <2>4. QED
    BY <2>1, <2>2, <2>3
<1>3. QED
  BY <1>1, <1>2 DEF CallsKept

\* An event that is observed by an active call leaves the calls their tools'.
LEMMA CallIsObserved ==
  ASSUME IInv, session = "open", NEW t \in running, t \in Tool, t \in used["tool"], NEW id,
         Active("tool", id), id = t \/ id = CurrentTool,
         active' = ObserveToolInput(id, t),
         \/ current' = current
         \/ current' = [current EXCEPT !["tool"] = id],
         UNCHANGED <<open, used, misfiled>>, running' = running \cup {t},
         crowded' \in BOOLEAN, crowded => crowded'
  PROVE  SpansKept' /\ CallsKept' /\ current'["run"] = current["run"]
<1> DEFINE old == Get(active["tool"], id)
           call == [old EXCEPT !.input = t]
<1>1. /\ old \in Entries(active["tool"]) /\ call \in Entry("tool") /\ call.key = id
      /\ active' = WithCall(call) /\ (ArgumentsAtEnd(old) = t => ArgumentsAtEnd(call) = t)
  BY InputObserved
<1>2. ~crowded => id = t /\ ArgumentsAtEnd(old) = t
  BY OwnCall
<1> HIDE DEF old, call
<1>3. "run" \in Kind /\ "tool" \in Kind
  BY DEF Kind
<1>4. /\ SpansKept'
      /\ Entries(active'["tool"]) = {e \in Entries(active["tool"]) : e.key # id} \cup {call}
      /\ current'["run"] = current["run"]
  BY <1>1, <1>3, CallGoesOn DEF IInv
<1>5. current'["tool"] \in {current["tool"], id}
  <2>1. current = [kind \in Kind |-> current[kind]]
    BY DEF IInv, SpansKept
  <2>2. QED
    BY <1>3, <2>1
<1>6. CallsKept'
  BY <1>1, <1>2, <1>4, <1>5, CallsGoOn
<1>7. QED
  BY <1>4, <1>6

\* A step that starts a call: it is the tool's own, or of no tool that runs.
LEMMA CallStarts ==
  ASSUME IInv, session = "open", NEW t \in Tool, NEW id \in Tool, ~Active("tool", id),
         StartSpan("tool", NewCall(id, t)), Crowd(id), running' = running \cup {t},
         t = id \/ (t \in running /\ (~crowded => id \notin running)),
         misfiled' = misfiled
  PROVE  /\ SpansKept' /\ CallsKept'
         /\ \A other \in Kind : other # "tool" => /\ active'[other] = active[other]
                                                  /\ current'[other] = current[other]
                                                  /\ used'[other] = used[other]
<1> DEFINE call == NewCall(id, t)
<1>1. "tool" \in Kind /\ call \in Entry("tool") /\ call.key = id /\ ArgumentsAtEnd(call) = t
  BY NoIdOutside DEF Kind, Entry, NewCall, ArgumentsAtEnd
<1> HIDE DEF call
<1>2. /\ SpansKept' /\ current'["tool"] = id /\ used'["tool"] = used["tool"] \cup {id}
      /\ Excess(active["tool"], call, Limit["tool"]) = 0 =>
           Entries(active'["tool"]) = Entries(active["tool"]) \cup {call}
      /\ \A other \in Kind : other # "tool" => /\ active'[other] = active[other]
                                               /\ current'[other] = current[other]
                                               /\ used'[other] = used[other]
  <2>1. SpansKept /\ StartSpan("tool", call) /\ ~Active("tool", call.key)
    BY <1>1 DEF IInv, call
  <2>2. QED
    BY <1>1, <2>1, StartSpanKeeps
<1>3. running' \subseteq used'["tool"] /\ misfiled' \subseteq Tool /\ crowded' \in BOOLEAN
      /\ (~crowded' => ~crowded /\ misfiled' = {})
  BY <1>2 DEF IInv, CallsKept, Crowd
<1>4. ASSUME session' = "open", ~crowded'
      PROVE  /\ current'["tool"] # NoId => \E e \in Entries(active'["tool"]) : e.key = current'["tool"]
             /\ \A u \in running' : \E e \in Entries(active'["tool"]) : e.key = u
             /\ \A e \in Entries(active'["tool"]) : e.key \in running' => ArgumentsAtEnd(e) = e.key
  <2>1. ~crowded /\ Entries(active'["tool"]) = Entries(active["tool"]) \cup {call}
    BY <1>1, <1>2, <1>4, CrowdFacts
  <2>2. /\ \A u \in running : \E e \in Entries(active["tool"]) : e.key = u
        /\ \A e \in Entries(active["tool"]) : e.key \in running => ArgumentsAtEnd(e) = e.key
    BY <2>1 DEF IInv, CallsKept
  <2>3. \A e \in Entries(active["tool"]) : e.key # id
    BY KeysOfEntries DEF Active, Has
  <2>4. QED
    BY <1>1, <1>2, <2>1, <2>2, <2>3
<1>5. CallsKept'
  BY <1>3, <1>4 DEF CallsKept
<1>6. QED
  BY <1>2, <1>5

LEMMA ToolExecutionStartStep ==
  ASSUME IInv, NEW t \in Tool, ToolExecutionStart(t)
  PROVE  IInv'
<1>1. /\ session = "open" /\ (Fresh("tool", t) \/ t \in running)
      /\ running' = running \cup {t} /\ Crowd(t)
      /\ UNCHANGED <<sequences, images, repeated, prompted, shown, misfiled, session>>
  BY DEF ToolExecutionStart
<1>2. "run" \in Kind /\ "turn" \in Kind /\ "tool" \in Kind
  BY DEF Kind
<1>3. CASE Active("tool", t)
  <2>1. /\ current' = [current EXCEPT !["tool"] = t] /\ active' = ObserveToolInput(t, t)
        /\ open' = open /\ used' = used
    BY <1>3, FreshIsInactive DEF ToolExecutionStart
  <2>2. t \in running /\ t \in used["tool"]
    BY <1>1, <1>2, <1>3, FreshIsInactive DEF IInv, CallsKept
  <2>3. SpansKept' /\ CallsKept' /\ current'["run"] = current["run"]
    BY <1>1, <1>3, <2>1, <2>2, CallIsObserved DEF Crowd
  <2>4. QED
    BY <1>1, <2>1, <2>3, RunsStay DEF IInv
<1>4. CASE ~Active("tool", t)
  <2>1. StartSpan("tool", NewCall(t, t))
    BY <1>4 DEF ToolExecutionStart
  <2>2. /\ SpansKept' /\ CallsKept'
        /\ \A other \in Kind : other # "tool" => /\ active'[other] = active[other]
                                                 /\ current'[other] = current[other]
                                                 /\ used'[other] = used[other]
    BY <1>1, <1>4, <2>1, CallStarts
  <2>3. SequencesKept' /\ ImagesKept'
    BY <1>1, <1>2, <2>2, RunsStay DEF IInv
  <2>4. QED
    BY <1>1, <2>2, <2>3 DEF IInv
<1>5. QED
  BY <1>3, <1>4

LEMMA ToolCallStep ==
  ASSUME IInv, NEW t \in Tool, NEW named \in BOOLEAN, ToolCall(t, named)
  PROVE  IInv'
<1>1. /\ session = "open" /\ (t \in running \/ (named /\ Fresh("tool", t)))
      /\ (named \/ Len(active["tool"]) <= 1) /\ running' = running \cup {t}
      /\ UNCHANGED <<sequences, images, repeated, prompted, shown, misfiled, session>>
  BY DEF ToolCall
<1>2. PICK id \in CallIds(t, named) :
        /\ \/ /\ Active("tool", id) /\ active' = ObserveToolInput(id, t)
              /\ UNCHANGED <<current, open, used>>
           \/ ~Active("tool", id) /\ StartSpan("tool", NewCall(id, t))
        /\ Crowd(id)
  BY DEF ToolCall
<1>3. "run" \in Kind /\ "turn" \in Kind /\ "tool" \in Kind
  BY DEF Kind
<1>4. \/ id = t /\ named
      \/ ~named /\ id = CurrentTool /\ CurrentTool # NoId
      \/ ~named /\ id \in Tool /\ Fresh("tool", id)
  BY DEF CallIds
<1>5. CASE Active("tool", id)
  <2>1. active' = ObserveToolInput(id, t) /\ UNCHANGED <<current, open, used>>
    BY <1>2, <1>5
  <2>2. id = t \/ id = CurrentTool
    BY <1>3, <1>4, <1>5, FreshIsInactive DEF IInv
  <2>3. t \in running /\ t \in used["tool"]
    BY <1>1, <1>3, <1>4, <1>5, FreshIsInactive DEF IInv, CallsKept
  <2>4. SpansKept' /\ CallsKept' /\ current'["run"] = current["run"]
    BY <1>1, <1>2, <1>5, <2>1, <2>2, <2>3, CallIsObserved DEF Crowd
  <2>5. QED
    BY <1>1, <2>1, <2>4, RunsStay DEF IInv
<1>6. CASE ~Active("tool", id)
  <2>1. StartSpan("tool", NewCall(id, t)) /\ Crowd(id)
    BY <1>2, <1>6
  <2>2. id \in Tool /\ (t = id \/ (t \in running /\ (~crowded => id \notin running)))
    <3>1. CASE id = t /\ named
      BY <3>1
    <3>2. CASE ~named /\ id = CurrentTool /\ CurrentTool # NoId
      <4>1. id = current["tool"] /\ id # NoId
        BY <3>2 DEF CurrentTool
      <4>2. current["tool"] \in used["tool"] \cup {NoId} /\ used["tool"] \subseteq Tool
        BY <1>3 DEF IInv, SpansKept, IdOf
      <4>3. crowded
        BY <1>1, <1>6, <4>1, ActiveEntries DEF IInv, CallsKept
      <4>4. QED
        BY <1>1, <3>2, <4>1, <4>2, <4>3
    <3>3. CASE ~named /\ id \in Tool /\ Fresh("tool", id)
      BY <1>1, <3>3 DEF IInv, CallsKept, Fresh
    <3>4. QED
      BY <1>4, <3>1, <3>2, <3>3
  <2>3. /\ SpansKept' /\ CallsKept'
        /\ \A other \in Kind : other # "tool" => /\ active'[other] = active[other]
                                                 /\ current'[other] = current[other]
                                                 /\ used'[other] = used[other]
    BY <1>1, <1>6, <2>1, <2>2, CallStarts
  <2>4. SequencesKept' /\ ImagesKept'
    BY <1>1, <1>3, <2>3, RunsStay DEF IInv
  <2>5. QED
    BY <1>1, <2>3, <2>4 DEF IInv
<1>7. QED
  BY <1>5, <1>6

LEMMA ToolResultStep ==
  ASSUME IInv, NEW t \in Tool, NEW named \in BOOLEAN, ToolResult(t, named)
  PROVE  IInv'
<1> DEFINE id == IF named THEN t ELSE CurrentTool
           call == [key |-> id, input |-> NoId, arguments |-> t]
<1>1. /\ session = "open" /\ t \in running /\ Active("tool", id)
      /\ active' = WithCall(call)
      /\ UNCHANGED <<current, sequences, images, open, used, repeated, prompted, shown,
                     running, misfiled, crowded, session>>
  BY DEF ToolResult, ReconcileToolInput, history
<1>2. id = t \/ id = CurrentTool
  OBVIOUS
<1> HIDE DEF id
<1>3. /\ IsBoundedMap(active["tool"], Entry("tool"), Limit["tool"])
      /\ Entry("tool") = [key : Tool, input : Tool \cup {NoId}, arguments : Tool \cup {NoId}]
  BY DEF IInv, SpansKept, Kind, Entry
<1>4. Get(active["tool"], id) \in Entry("tool") /\ Get(active["tool"], id).key = id
  BY <1>1, <1>3, GetEntry DEF Active
<1>5. id \in Tool
  <2>1. "tool" \in Kind /\ IdOf["tool"] = Tool
    BY DEF Kind, IdOf
  <2>2. QED
    BY <1>4, <2>1, KindFacts
<1>6. call \in Entry("tool") /\ call.key = id /\ ArgumentsAtEnd(call) = t
  BY <1>3, <1>5, NoIdOutside DEF ArgumentsAtEnd
<1> HIDE DEF call
<1>7. /\ SpansKept'
      /\ Entries(active'["tool"]) = {e \in Entries(active["tool"]) : e.key # id} \cup {call}
  BY <1>1, <1>6, CallGoesOn DEF IInv
<1>8. ~crowded => id = t
  BY <1>1, <1>2, OwnCall
<1>9. CallsKept'
  <2>1. t \in used["tool"] /\ crowded' \in BOOLEAN
    BY <1>1 DEF IInv, CallsKept
  <2>2. QED
    BY <1>1, <1>6, <1>7, <1>8, <2>1, CallsGoOn
<1>10. SequencesKept' /\ ImagesKept'
  BY <1>1, RunsStay DEF IInv
<1>11. QED
  BY <1>1, <1>7, <1>9, <1>10 DEF IInv

LEMMA ToolExecutionEndStep ==
  ASSUME IInv, NEW t \in Tool, NEW named \in BOOLEAN, ToolExecutionEnd(t, named)
  PROVE  IInv'
<1> DEFINE ended == IF named THEN t ELSE CurrentTool
           filed == ArgumentsAtEnd(Get(active["tool"], ended))
<1>1. /\ session = "open" /\ t \in running /\ running' = running \ {t}
      /\ IF Active("tool", ended)
         THEN /\ EndSpan("tool", ended)
              /\ misfiled' = IF filed = t THEN misfiled ELSE misfiled \cup {t}
         ELSE UNCHANGED <<active, current, open, misfiled>>
      /\ UNCHANGED <<sequences, images, used, repeated, prompted, shown, crowded, session>>
  BY DEF ToolExecutionEnd
<1>2. ended = t \/ ended = CurrentTool
  OBVIOUS
<1> HIDE DEF ended
<1>3. "run" \in Kind /\ "tool" \in Kind
  BY DEF Kind
<1>4. CASE Active("tool", ended)
  <2>1. /\ SpansKept'
        /\ Entries(active'["tool"]) = {e \in Entries(active["tool"]) : e.key # ended}
        /\ current'["tool"] = IF current["tool"] = ended THEN NoId ELSE current["tool"]
        /\ current'["run"] = current["run"]
    BY <1>1, <1>3, <1>4, SpanEnds DEF IInv
  <2>2. ~crowded => ended = t /\ filed = t
    BY <1>1, <1>2, <1>4, OwnCall
  <2>3. misfiled' = IF filed = t THEN misfiled ELSE misfiled \cup {t}
    BY <1>1, <1>4
  <2> HIDE DEF filed
  <2>4. CallsKept'
    <3>1. running' \subseteq used'["tool"] /\ misfiled' \subseteq Tool /\ crowded' \in BOOLEAN
          /\ (~crowded' => misfiled' = {})
      BY <1>1, <2>2, <2>3 DEF IInv, CallsKept
    <3>2. ASSUME ~crowded
          PROVE  /\ current'["tool"] # NoId => \E e \in Entries(active'["tool"]) : e.key = current'["tool"]
                 /\ \A u \in running' : \E e \in Entries(active'["tool"]) : e.key = u
                 /\ \A e \in Entries(active'["tool"]) : e.key \in running' => ArgumentsAtEnd(e) = e.key
      BY <1>1, <2>1, <2>2, <3>2 DEF IInv, CallsKept
    <3>3. QED
      BY <1>1, <3>1, <3>2 DEF CallsKept
  <2>5. QED
    BY <1>1, <2>1, <2>4, RunsStay DEF IInv
<1>5. CASE ~Active("tool", ended)
  <2>1. UNCHANGED <<active, current, open, misfiled>>
    BY <1>1, <1>5
  <2>2. SpansKept'
    BY <1>1, <2>1 DEF IInv, SpansKept
  <2>3. CallsKept'
    BY <1>1, <2>1 DEF IInv, CallsKept
  <2>4. QED
    BY <1>1, <2>1, <2>2, <2>3, RunsStay DEF IInv
<1>6. QED
  BY <1>4, <1>5

-----------------------------------------------------------------------------
\* The end of the session ends what is active, and nothing starts again.
LEMMA EndAllActiveSpansStep ==
  ASSUME IInv, EndAllActiveSpans
  PROVE  IInv'
<1>1. /\ session' = "closed" /\ active' = [kind \in Kind |-> <<>>]
      /\ open' = [kind \in Kind |-> open[kind] - Len(active[kind])]
      /\ sequences' = <<>> /\ images' = [pending |-> NoId, next |-> NoId]
      /\ UNCHANGED <<current, used, repeated, prompted, shown, running, misfiled, crowded>>
  BY DEF EndAllActiveSpans, history
<1>2. SpansKept'
  <2>1. ASSUME NEW kind \in Kind
        PROVE  /\ active'[kind] = <<>> /\ open'[kind] = 0
               /\ IsBoundedMap(<<>>, Entry(kind), Limit[kind])
    <3>1. open \in [Kind -> Int] /\ open[kind] = Len(active[kind])
      BY DEF IInv, SpansKept
    <3>2. IsBoundedMap(<<>>, Entry(kind), Limit[kind])
      BY KindFacts, EmptyMap
    <3>3. QED
      BY <1>1, <3>1, <3>2
  <2>2. Entries(<<>>) = {} /\ Len(<<>>) = 0
    BY DEF Entries
  <2>3. open' = [kind \in Kind |-> 0]
    BY <1>1, <2>1
  <2>4. QED
    BY <1>1, <2>1, <2>2, <2>3 DEF IInv, SpansKept
<1>3. SequencesKept'
  <2>1. IsBoundedMap(<<>>, [key : Run, index : 0 .. MaxIndex], MaxRuns)
    BY BoundsTyped, EmptyMap
  <2>2. QED
    BY <1>1, <2>1 DEF IInv, SequencesKept
<1>4. ImagesKept'
  <2>1. ImagesOfOwnPrompt'
    BY <1>1 DEF IInv, ImagesKept, ImagesOfOwnPrompt
  <2>2. QED
    BY <1>1, <2>1 DEF IInv, ImagesKept
<1>5. CallsKept'
  BY <1>1 DEF IInv, CallsKept
<1>6. QED
  BY <1>1, <1>2, <1>3, <1>4, <1>5 DEF IInv

LEMMA EveryStep ==
  ASSUME IInv, [Next]_vars
  PROVE  IInv'
<1>1. CASE RunEvents
  <2>1. CASE \E p \in Prompt : BeforeAgentStart(p)
    BY <2>1, BeforeAgentStartStep
  <2>2. CASE \E r \in Run : AgentStart(r)
    BY <2>2, AgentStartStep
  <2>3. CASE \E r \in Run, given \in (0 .. MaxIndex) \cup {NoId} : TurnStart(r, given)
    BY <2>3, TurnStartStep
  <2>4. CASE \E r \in Run \cup {NoId} : AgentEnd(r)
    BY <2>4, AgentEndStep
  <2>5. CASE \E r \in Run \cup {NoId}, index \in (0 .. MaxIndex) \cup {NoId},
                turn \in TurnId \cup {NoId} : TurnEnd(turn, r, index)
    BY <2>5, TurnEndStep
  <2>6. QED
    BY <1>1, <2>1, <2>2, <2>3, <2>4, <2>5 DEF RunEvents
<1>2. CASE RequestEvents
  BY <1>2, BeforeProviderRequestStep, MessageEndStep DEF RequestEvents
<1>3. CASE ToolEvents
  BY <1>3, ToolExecutionStartStep, ToolCallStep, ToolResultStep, ToolExecutionEndStep DEF ToolEvents
<1>4. CASE EndAllActiveSpans
  BY <1>4, EndAllActiveSpansStep
<1>5. CASE UNCHANGED vars
  <2>1. /\ UNCHANGED <<active, current, sequences, images, open, session>>
        /\ UNCHANGED <<used, repeated, prompted, shown, running, misfiled, crowded>>
    BY <1>5 DEF vars, history
  <2>2. SpansKept' /\ CallsKept'
    BY <2>1 DEF IInv, SpansKept, CallsKept
  <2>3. QED
    BY <2>1, <2>2, RunsStay DEF IInv
<1>6. QED
  BY <1>1, <1>2, <1>3, <1>4, <1>5 DEF Next

LEMMA Beginning ==
  ASSUME Init
  PROVE  IInv
<1>1. SpansKept
  <2>1. ASSUME NEW kind \in Kind
        PROVE  IsBoundedMap(<<>>, Entry(kind), Limit[kind])
    BY KindFacts, EmptyMap
  <2>2. Entries(<<>>) = {} /\ Len(<<>>) = 0
    BY DEF Entries
  <2>3. QED
    BY <2>1, <2>2 DEF Init, SpansKept
<1>2. SequencesKept
  <2>1. IsBoundedMap(<<>>, [key : Run, index : 0 .. MaxIndex], MaxRuns)
    BY BoundsTyped, EmptyMap
  <2>2. used["turn"] = {} /\ current["run"] = NoId
    BY DEF Init, Kind
  <2>3. QED
    BY <2>1, <2>2 DEF Init, SequencesKept
<1>3. ImagesKept
  BY DEF Init, ImagesKept, ImagesOfOwnPrompt
<1>4. CallsKept
  <2>1. current["tool"] = NoId /\ active["tool"] = <<>> /\ Entries(<<>>) = {}
    BY DEF Init, Kind, Entries
  <2>2. QED
    BY <2>1 DEF Init, CallsKept
<1>5. QED
  BY <1>1, <1>2, <1>3, <1>4 DEF IInv, Init

\* What the events of a session may rely on.
THEOREM Inductive == Spec => []IInv
<1>1. Init => IInv
  BY Beginning
<1>2. IInv /\ [Next]_vars => IInv'
  BY EveryStep
<1>3. QED
  BY <1>1, <1>2, PTL DEF Spec

-----------------------------------------------------------------------------
(* What the runs check, for every value of the constants                   *)

\* Evictions, ends and the end of the session leave no span in the gauge that
\* cannot end any more, and take none from it twice.
THEOREM GaugeIsExact == Spec => []NoLeakedGauge
<1>1. ASSUME IInv
      PROVE  NoLeakedGauge
  <2>1. TypeOK
    <3>1. \A kind \in Kind : current[kind] \in IdOf[kind] \cup {NoId}
      BY <1>1 DEF IInv, SpansKept
    <3>2. repeated \in BOOLEAN /\ running \subseteq Tool
      <4>1. "tool" \in Kind /\ IdOf["tool"] = Tool
        BY DEF Kind, IdOf
      <4>2. QED
        BY <1>1, <4>1 DEF IInv, SpansKept, SequencesKept, CallsKept
    <3>3. QED
      BY <1>1, <3>1, <3>2 DEF IInv, TypeOK, SpansKept, SequencesKept, ImagesKept, CallsKept
  <2>2. QED
    BY <1>1, <2>1 DEF IInv, SpansKept, NoLeakedGauge
<1>2. IInv => NoLeakedGauge
  BY <1>1
<1>3. QED
  BY Inductive, <1>2, PTL

\* No turn is given an identifier again, and the images of a prompt go to at
\* most one turn of each run that answers it.
THEOREM TurnsKeepTheirRun == Spec => []TurnsAreOfTheirRun
<1>1. IInv => TurnsAreOfTheirRun
  BY DEF IInv, SequencesKept, ImagesKept, TurnsAreOfTheirRun, TurnIdsUnique
<1>2. QED
  BY Inductive, <1>1, PTL

\* The span a tool's end ends has that tool's arguments while no call was
\* evicted.
THEOREM ArgumentsFollowTheirTool == Spec => []ArgumentsAreOwn
<1>1. IInv => ArgumentsAreOwn
  BY DEF IInv, CallsKept, ArgumentsAreOwn
<1>2. QED
  BY Inductive, <1>1, PTL
=============================================================================
