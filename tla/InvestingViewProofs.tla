-------------------------- MODULE InvestingViewProofs --------------------------
(***************************************************************************)
(* Theorems about InvestingView: what a wallet is offered, and what is     *)
(* left in the cache, for any number of requests, wallets and tickets.     *)
(***************************************************************************)
EXTENDS InvestingView, FiniteSetTheorems, TLAPS

\* A doubled row, with which the count can step over the total.
Doubled == \E row \in rows : row[3] = 2

\* While a request has read nothing, nothing is known to it.  Only a project sold for
\* a token gets as far as waiting for the currency.
TypeInv ==
    /\ TypeOK
    /\ IsFiniteSet(rows)
    /\ \A r \in Requests :
         /\ step[r] \in {"idle", "project"} => saw[r] = Blank
         /\ step[r] \in {"token", "orphaned"} \cup Deaths => ~sol

\* What a request of a settled project has read is final, and so are the entry of the
\* cache and the offers that are made with it.
FinalInv ==
    /\ \A r \in Requests :
         saw[r].settled =>
             /\ settled
             /\ "info" \in saw[r].parts => revised \/ saw[r].list = whitelist
             /\ "mine" \in saw[r].parts => saw[r].won = won[wallet[r]]
    /\ cache \notin {None, {}} => settled /\ (revised \/ cache = whitelist)
    /\ \A r \in Requests :
         answer[r] # None /\ answer[r].is_active =>
             settled /\ (revised \/ <<wallet[r], won[wallet[r]]>> \in whitelist)

\* What a request may conclude from one of the two reads about the other: tickets are
\* only ever used up.
OpenInv ==
    \A r \in Requests :
        /\ Running(r) /\ Open(wallet[r]) => open[r]
        /\ Running(r) /\ "mine" \in saw[r].parts /\ saw[r].left =>
               open[r] \/ SoldOut \/ Doubled
        /\ Running(r) /\ saw[r].settled /\ "invested" \in saw[r].parts
             /\ ~saw[r].soldOut => open[r] \/ ~Left(wallet[r]) \/ Doubled
        /\ Running(r) /\ saw[r].settled /\ {"mine", "invested"} \subseteq saw[r].parts
             /\ saw[r].left /\ ~saw[r].soldOut => open[r] \/ Doubled
        /\ answer[r] # None /\ answer[r].is_active => open[r] \/ Doubled

IInv == TypeInv /\ FinalInv /\ OpenInv

-----------------------------------------------------------------------------
(* What the steps of a request do to it and to others.                       *)

\* A request goes on to another step, and nothing else changes.
Move(r, to) ==
    /\ step[r] \notin {"idle", "answered", "orphaned"}
    /\ to \in Steps \ ({"idle"} \cup Deaths)
    /\ to \in {"token", "orphaned"} => ~sol
    /\ to \in {"project", "registration", "assets", "token", "all"} => Running(r)
    /\ to # "project"
    /\ step' = [step EXCEPT ![r] = to]
    /\ UNCHANGED <<sol, database, cache, wallet, saw, answer, open>>

\* A request reads one of the parts.
See(r, part) ==
    /\ step[r] \in {"token", "all", "orphaned"}
    /\ saw' = [saw EXCEPT ![r] = Seen(r, part)]
    /\ UNCHANGED <<sol, database, cache, step, wallet, answer, open>>

Kept(r) == step'[r] = step[r] /\ saw'[r] = saw[r] /\ open'[r] = open[r]

Over(r) ==
    /\ Running(r) \/ step[r] = "orphaned"
    /\ step'[r] \in {"rejected", "lost"} \cup Deaths
    /\ step'[r] \in Deaths => ~sol
    /\ saw'[r] = Blank
    /\ open'[r] = FALSE

\* Requests end without an answer, and the cache may end with them.
Loss ==
    /\ step' \in [Requests -> Steps]
    /\ saw' \in [Requests -> Sights]
    /\ open' \in [Requests -> BOOLEAN]
    /\ cache' \in {None, cache}
    /\ \A r \in Requests : Kept(r) \/ Over(r)
    /\ UNCHANGED <<sol, database, wallet, answer>>

\* What a request has seen has its type.
LEMMA BlankType == Blank \in Sights
  BY DEF Blank, Sights, Parts, TicketParts

LEMMA SeenType ==
    ASSUME TypeOK, NEW r \in Requests, NEW part \in Parts, wallet[r] # None
    PROVE  /\ Seen(r, part) \in Sights
           /\ Seen(r, part).settled = saw[r].settled
           /\ Seen(r, part).parts = saw[r].parts \cup {part}
           /\ IF part = "mine"
                THEN /\ Seen(r, part).won = won[wallet[r]]
                     /\ Seen(r, part).left = Left(wallet[r])
                ELSE /\ Seen(r, part).won = saw[r].won
                     /\ Seen(r, part).left = saw[r].left
           /\ Seen(r, part).list = IF part = "info" THEN whitelist ELSE saw[r].list
           /\ Seen(r, part).soldOut = IF part = "invested" THEN SoldOut ELSE saw[r].soldOut
  <1>1. saw[r] \in Sights /\ won[wallet[r]] \in {None} \cup 0 .. MaxTickets
    BY DEF TypeOK
  <1>2. Left(wallet[r]) \in BOOLEAN /\ SoldOut \in BOOLEAN
    BY DEF Left, SoldOut
  <1>3. CASE part = "mine"
    BY <1>1, <1>2, <1>3 DEF Seen, Sights, Parts, TicketParts
  <1>4. CASE part = "winners"
    BY <1>1, <1>4 DEF Seen, Sights, Parts, TicketParts
  <1>5. CASE part = "invested"
    BY <1>1, <1>2, <1>5 DEF Seen, Sights, Parts, TicketParts
  <1>6. CASE part = "info"
    BY <1>1, <1>6 DEF Seen, Sights, Parts, TicketParts, TypeOK
  <1> QED
    BY <1>3, <1>4, <1>5, <1>6 DEF Parts, TicketParts

\* Forgetting requests, and ending the process, are losses.
LEMMA ForgetType ==
    ASSUME TypeOK, NEW over \in SUBSET Requests, Forget(over)
    PROVE  /\ saw' \in [Requests -> Sights]
           /\ open' \in [Requests -> BOOLEAN]
           /\ \A r \in over : saw'[r] = Blank /\ open'[r] = FALSE
           /\ \A r \in Requests \ over : saw'[r] = saw[r] /\ open'[r] = open[r]
  BY BlankType DEF Forget, TypeOK

LEMMA DiesLoss ==
    ASSUME TypeInv, NEW r \in Requests, NEW death \in Deaths, Dies(r, death), ~sol,
           step[r] \in {"token", "orphaned"},
           UNCHANGED <<sol, database, wallet, answer>>
    PROVE  Loss
  <1> DEFINE over == {q \in Requests : Running(q) \/ step[q] = "orphaned"}
  <1>1. Forget(over)
    BY DEF Dies
  <1>2. /\ step' \in [Requests -> Steps]
        /\ \A q \in over : step'[q] \in {"rejected", "lost"} \cup Deaths
        /\ \A q \in Requests \ over : step'[q] = step[q]
    BY DEF TypeInv, TypeOK, Dies, Running, Steps, Deaths
  <1>3. cache' = None
    BY DEF Dies
  <1>t. TypeOK /\ over \in SUBSET Requests
    BY DEF TypeInv
  <1>f. /\ saw' \in [Requests -> Sights]
        /\ open' \in [Requests -> BOOLEAN]
        /\ \A q \in over : saw'[q] = Blank /\ open'[q] = FALSE
        /\ \A q \in Requests \ over : saw'[q] = saw[q] /\ open'[q] = open[q]
    <2> HIDE DEF over
    <2> QED
      BY <1>1, <1>t, ForgetType
  <1>4. \A q \in Requests : Kept(q) \/ Over(q)
    BY <1>2, <1>f DEF Kept, Over
  <1> QED
    BY <1>2, <1>3, <1>4, <1>f DEF Loss

LEMMA RejectLoss ==
    ASSUME TypeInv, NEW r \in Requests, NEW death \in Deaths, Reject(r, death),
           step[r] \in {"token", "all", "orphaned"},
           UNCHANGED <<sol, database, wallet, answer>>
    PROVE  Loss
  <1>1. CASE step[r] = "all"
    <2>1. /\ step' = [step EXCEPT ![r] = "rejected"]
          /\ Forget({r})
          /\ UNCHANGED cache
      BY <1>1 DEF Reject
    <2>2. step' \in [Requests -> Steps]
      BY <2>1 DEF TypeInv, TypeOK, Steps
    <2>3. /\ saw' \in [Requests -> Sights]
          /\ open' \in [Requests -> BOOLEAN]
          /\ saw'[r] = Blank /\ open'[r] = FALSE
          /\ \A q \in Requests \ {r} : saw'[q] = saw[q] /\ open'[q] = open[q]
      BY <2>1, ForgetType DEF TypeInv
    <2>4. step'[r] = "rejected" /\ \A q \in Requests \ {r} : step'[q] = step[q]
      BY <2>1 DEF TypeInv, TypeOK
    <2>5. \A q \in Requests : Kept(q) \/ Over(q)
      BY <1>1, <2>3, <2>4 DEF Kept, Over, Running, Deaths
    <2> QED
      BY <2>1, <2>2, <2>3, <2>5 DEF Loss
  <1>2. CASE step[r] # "all"
    BY <1>2, DiesLoss DEF Reject, TypeInv
  <1> QED
    BY <1>1, <1>2

LEMMA RestartLoss == ASSUME TypeInv, Restart PROVE Loss
  <1> DEFINE over == {q \in Requests : Running(q) \/ step[q] = "orphaned"}
  <1>1. Forget(over)
    BY DEF Restart
  <1>2. /\ step' \in [Requests -> Steps]
        /\ \A q \in over : step'[q] \in {"rejected", "lost"}
        /\ \A q \in Requests \ over : step'[q] = step[q]
    BY DEF TypeInv, TypeOK, Restart, Running, Steps
  <1>t. TypeOK /\ over \in SUBSET Requests
    BY DEF TypeInv
  <1>f. /\ saw' \in [Requests -> Sights]
        /\ open' \in [Requests -> BOOLEAN]
        /\ \A q \in over : saw'[q] = Blank /\ open'[q] = FALSE
        /\ \A q \in Requests \ over : saw'[q] = saw[q] /\ open'[q] = open[q]
    <2> HIDE DEF over
    <2> QED
      BY <1>1, <1>t, ForgetType
  <1>3. \A q \in Requests : Kept(q) \/ Over(q)
    BY <1>2, <1>f DEF Kept, Over, Deaths
  <1> QED
    BY <1>2, <1>3, <1>f DEF Loss, Restart

\* Every step is one of these.
Effect ==
    \/ World
    \/ \E r \in Requests, w \in Wallets : Receive(r, w)
    \/ \E r \in Requests, now \in Times : ReadProject(r, now)
    \/ \E r \in Requests, to \in Steps : Move(r, to)
    \/ \E r \in Requests, part \in Parts : See(r, part)
    \/ \E r \in Requests : Answer(r)
    \/ Loss
    \/ UNCHANGED vars

LEMMA StepEffect == ASSUME TypeInv, [Next]_vars PROVE Effect
  <1>1. ASSUME NEW r \in Requests, ReadRegistration(r) PROVE Effect
    <2>1. Move(r, "rejected") \/ Move(r, "answered")
      BY <1>1 DEF ReadRegistration, Move, Steps, Deaths
    <2> QED
      BY <2>1 DEF Effect, Steps
  <1>2. ASSUME NEW r \in Requests, ReadAssets(r) PROVE Effect
    <2>1. Move(r, "answered")
      BY <1>2 DEF ReadAssets, Move, Steps, Deaths
    <2> QED
      BY <2>1 DEF Effect, Steps
  <1>3. ASSUME NEW r \in Requests, ReadFails(r) PROVE Effect
    <2>1. Move(r, "rejected")
      BY <1>3 DEF ReadFails, Move, Steps, Deaths
    <2> QED
      BY <2>1 DEF Effect, Steps
  <1>4. ASSUME NEW r \in Requests, NEW part \in Parts, PartBack(r, part) PROVE Effect
    <2>1. CASE Rejects(Seen(r, part))
      <3>1. PICK death \in Deaths : Reject(r, death)
        BY <1>4, <2>1 DEF PartBack, Deaths
      <3> QED
        BY <1>4, <3>1, RejectLoss DEF PartBack, Waits, Effect
    <2>2. CASE ~Rejects(Seen(r, part))
      BY <1>4, <2>2 DEF PartBack, Waits, See, Effect
    <2> QED
      BY <2>1, <2>2
  <1>5. ASSUME NEW r \in Requests, NEW part \in Parts, PartFails(r, part) PROVE Effect
    <2>1. "byError" \in Deaths /\ Reject(r, "byError")
      BY <1>5 DEF PartFails, Deaths
    <2> QED
      BY <1>5, <2>1, RejectLoss DEF PartFails, Waits, Effect
  <1>6. ASSUME NEW r \in Requests, TokenFound(r) PROVE Effect
    <2>1. Move(r, "all")
      BY <1>6 DEF TokenFound, Move, Steps, Deaths, Running
    <2> QED
      BY <2>1 DEF Effect, Steps
  <1>7. ASSUME NEW r \in Requests, TokenFails(r) PROVE Effect
    <2>1. Move(r, "orphaned")
      BY <1>7 DEF TokenFails, Move, Steps, Deaths, TypeInv
    <2> QED
      BY <2>1 DEF Effect, Steps
  <1>8. ASSUME Restart PROVE Effect
    BY <1>8, RestartLoss DEF Effect
  <1> QED
    BY <1>1, <1>2, <1>3, <1>4, <1>5, <1>6, <1>7, <1>8 DEF Next, Handle, Effect

-----------------------------------------------------------------------------
(* The types.                                                                *)

LEMMA InitType == Init => TypeInv
  <1> SUFFICES ASSUME Init PROVE TypeInv
    OBVIOUS
  <1>1. TypeOK
    <2>1. won \in [Wallets -> {None} \cup 0 .. MaxTickets]
      BY ConstantsAssumption DEF Init
    <2> QED
      BY <2>1, BlankType DEF Init, TypeOK, Steps
  <1> QED
    BY <1>1, FS_EmptySet DEF Init, TypeInv, Deaths

\* Fields of what has been seen are booleans, and offers are answers.
LEMMA AnswerType ==
    ASSUME TypeOK, NEW r \in Requests
    PROVE  /\ AnswerFor(wallet[r], saw[r]) \in Answers
           /\ TicketsLeft(saw[r]) <=> saw[r].settled /\ saw[r].left
           /\ ListFor(saw[r]) \in {None} \cup Lists
           /\ AnswerFor(wallet[r], saw[r]).is_active <=>
                 /\ saw[r].settled /\ saw[r].left /\ ~saw[r].soldOut
                 /\ <<wallet[r], saw[r].won>> \in ListFor(saw[r])
  <1>1. saw[r] \in Sights
    BY DEF TypeOK
  <1>2. TicketsLeft(saw[r]) \in BOOLEAN /\ saw[r].settled \in BOOLEAN
        /\ saw[r].soldOut \in BOOLEAN
    BY <1>1 DEF Sights, TicketsLeft
  <1>3. ListFor(saw[r]) \in {None} \cup Lists
    BY <1>1 DEF Sights, ListFor, TypeOK
  <1> QED
    BY <1>2, <1>3 DEF AnswerFor, Answers, TicketsLeft

LEMMA TypeStep == TypeInv /\ [Next]_vars => TypeInv'
  <1> SUFFICES ASSUME TypeInv, [Next]_vars PROVE TypeInv'
    OBVIOUS
  <1> USE DEF database, requests
  <1>t. TypeOK
    BY DEF TypeInv
  <1>1. ASSUME NEW draw \in [Wallets -> {None} \cup 0 .. MaxTickets], Publish(draw)
        PROVE  TypeInv'
    <2>1. whitelist' \in Lists
      BY <1>1 DEF Publish, Lists
    <2>2. open' \in [Requests -> BOOLEAN]
      BY <1>1, <1>t DEF Publish, Witness, TypeOK
    <2> QED
      BY <1>1, <1>t, <2>1, <2>2 DEF Publish, TypeInv, TypeOK
  <1>2. ASSUME Settle PROVE TypeInv'
    BY <1>2, <1>t DEF Settle, TypeInv, TypeOK
  <1>3. ASSUME NEW list \in Lists, Revise(list) PROVE TypeInv'
    BY <1>3, <1>t DEF Revise, TypeInv, TypeOK
  <1>4. ASSUME NEW w \in Wallets, NEW n \in Tickets, NEW copies \in 1 .. 2,
               Invest(w, n, copies)
        PROVE  TypeInv'
    <2>1. rows' = rows \cup {<<w, n, 1>>} \/ rows' = (rows \cup {<<w, n, 1>>}) \cup {<<w, n, 2>>}
      <3>1. CASE copies = 1
        BY <1>4, <3>1 DEF Invest
      <3>2. CASE copies = 2
        BY <1>4, <3>2 DEF Invest
      <3> QED
        BY <3>1, <3>2
    <2>2. IsFiniteSet(rows')
      <3>1. IsFiniteSet(rows \cup {<<w, n, 1>>})
        BY FS_AddElement DEF TypeInv
      <3>2. IsFiniteSet((rows \cup {<<w, n, 1>>}) \cup {<<w, n, 2>>})
        BY <3>1, FS_AddElement
      <3> QED
        BY <2>1, <3>1, <3>2
    <2>3. rows' \subseteq Wallets \X Tickets \X (1 .. 2)
      BY <2>1, <1>t DEF TypeOK
    <2>4. open' \in [Requests -> BOOLEAN]
      BY <1>4, <1>t DEF Invest, Witness, TypeOK
    <2> QED
      BY <1>4, <1>t, <2>2, <2>3, <2>4 DEF Invest, TypeInv, TypeOK
  <1>5. ASSUME NEW r \in Requests, NEW w \in Wallets, Receive(r, w) PROVE TypeInv'
    <2>1. Open(w) \in BOOLEAN /\ w # None
      BY ConstantsAssumption DEF Open, Left, SoldOut
    <2> QED
      BY <1>5, <1>t, <2>1 DEF Receive, TypeInv, TypeOK, Steps, Deaths
  <1>6. ASSUME NEW r \in Requests, NEW now \in Times, ReadProject(r, now) PROVE TypeInv'
    <2> DEFINE to == FirstWait(ProgressStatus(Timeline, now))
    <2>1. to \in {"registration", "assets", "token", "all", "answered"} /\ (to = "token" => ~sol)
      BY DEF FirstWait
    <2>2. /\ step' = [step EXCEPT ![r] = to]
          /\ saw' = [saw EXCEPT ![r].settled = settled /\ to \in {"token", "all"}]
          /\ UNCHANGED <<sol, won, whitelist, settled, rows, revised, cache, wallet, answer, open>>
      BY <1>6, <1>t DEF ReadProject, TypeOK
    <2> HIDE DEF to
    <2>3. saw' \in [Requests -> Sights]
      <3>1. [saw[r] EXCEPT !.settled = settled /\ to \in {"token", "all"}] \in Sights
        <4>1. saw[r] \in Sights /\ (settled /\ to \in {"token", "all"}) \in BOOLEAN
          BY <1>t DEF TypeOK
        <4> QED
          BY <4>1 DEF Sights
      <3> QED
        BY <1>t, <2>2, <3>1 DEF TypeOK
    <2> QED
      BY <1>6, <1>t, <2>1, <2>2, <2>3 DEF ReadProject, TypeInv, TypeOK, Steps, Deaths
  <1>7. ASSUME NEW r \in Requests, NEW to \in Steps, Move(r, to) PROVE TypeInv'
    BY <1>7, <1>t DEF Move, TypeInv, TypeOK
  <1>8. ASSUME NEW r \in Requests, NEW part \in Parts, See(r, part) PROVE TypeInv'
    <2>1. Seen(r, part) \in Sights
      BY <1>8, <1>t, SeenType DEF See, TypeOK
    <2> QED
      BY <1>8, <1>t, <2>1 DEF See, TypeInv, TypeOK
  <1>9. ASSUME NEW r \in Requests, Answer(r) PROVE TypeInv'
    <2>1. cache' \in {None} \cup Lists
      BY <1>9, <1>t, AnswerType DEF Answer, TypeOK
    <2>2. answer' \in [Requests -> Answers \cup {None}]
      BY <1>9, <1>t, AnswerType DEF Answer, TypeOK
    <2>3. saw' \in [Requests -> Sights]
      BY <1>9, <1>t, BlankType DEF Answer, TypeOK
    <2> QED
      BY <1>9, <1>t, <2>1, <2>2, <2>3 DEF Answer, TypeInv, TypeOK, Steps, Deaths
  <1>10. ASSUME Loss PROVE TypeInv'
    <2>1. \A q \in Requests : /\ step'[q] = "idle" <=> step[q] = "idle"
                              /\ answer'[q] # None => step'[q] = "answered"
      BY <1>10, <1>t DEF Loss, Kept, Over, TypeOK, Running, Deaths
    <2>2. TypeOK'
      BY <1>10, <1>t, <2>1 DEF Loss, TypeOK
    <2>3. \A q \in Requests : /\ step'[q] \in {"idle", "project"} => saw'[q] = Blank
                              /\ step'[q] \in {"token", "orphaned"} \cup Deaths => ~sol'
      BY <1>10 DEF Loss, Kept, Over, TypeInv, Deaths
    <2> QED
      BY <1>10, <2>2, <2>3 DEF Loss, TypeInv
  <1>11. CASE UNCHANGED vars
    BY <1>11, <1>t DEF vars, TypeInv, TypeOK
  <1> QED
    BY <1>1, <1>2, <1>3, <1>4, <1>5, <1>6, <1>7, <1>8, <1>9, <1>10, <1>11, StepEffect
       DEF Effect, World

-----------------------------------------------------------------------------
(* Reads, entries and offers are final.                                      *)

LEMMA InitFinal == Init => FinalInv
  BY DEF Init, FinalInv, Blank

\* Nobody has seen a settled project that is not: the draw and the settling find no
\* one with a read that could become stale.
LEMMA FinalStep == TypeInv /\ FinalInv /\ [Next]_vars => FinalInv'
  <1> SUFFICES ASSUME TypeInv, FinalInv, [Next]_vars PROVE FinalInv'
    OBVIOUS
  <1> USE DEF database, requests
  <1>t. TypeOK
    BY DEF TypeInv
  <1>1. ASSUME NEW draw \in [Wallets -> {None} \cup 0 .. MaxTickets], Publish(draw)
        PROVE  FinalInv'
    BY <1>1 DEF Publish, FinalInv
  <1>2. ASSUME Settle PROVE FinalInv'
    BY <1>2 DEF Settle, FinalInv
  <1>3. ASSUME NEW list \in Lists, Revise(list) PROVE FinalInv'
    BY <1>3 DEF Revise, FinalInv
  <1>4. ASSUME NEW w \in Wallets, NEW n \in Tickets, NEW copies \in 1 .. 2,
               Invest(w, n, copies)
        PROVE  FinalInv'
    BY <1>4 DEF Invest, FinalInv
  <1>5. ASSUME NEW r \in Requests, NEW w \in Wallets, Receive(r, w) PROVE FinalInv'
    <2>1. saw[r] = Blank /\ answer[r] = None
      BY <1>5, <1>t DEF Receive, TypeInv, TypeOK
    <2>2. \A q \in Requests : q # r => wallet'[q] = wallet[q]
      BY <1>5, <1>t DEF Receive, TypeOK
    <2>3. UNCHANGED <<sol, won, whitelist, settled, rows, revised, cache, saw, answer>>
      BY <1>5 DEF Receive
    <2> QED
      BY <2>1, <2>2, <2>3 DEF FinalInv, Blank
  <1>6. ASSUME NEW r \in Requests, NEW now \in Times, ReadProject(r, now) PROVE FinalInv'
    <2>1. saw[r] = Blank
      BY <1>6 DEF ReadProject, TypeInv
    <2>2. /\ saw'[r].settled => settled
          /\ saw'[r].parts = {}
          /\ \A q \in Requests : q # r => saw'[q] = saw[q]
      BY <1>6, <1>t, <2>1 DEF ReadProject, TypeOK, Blank
    <2>3. UNCHANGED <<sol, won, whitelist, settled, rows, revised, cache, wallet, answer>>
      BY <1>6 DEF ReadProject
    <2> QED
      BY <2>2, <2>3 DEF FinalInv
  <1>7. ASSUME NEW r \in Requests, NEW to \in Steps, Move(r, to) PROVE FinalInv'
    BY <1>7 DEF Move, FinalInv
  <1>8. ASSUME NEW r \in Requests, NEW part \in Parts, See(r, part) PROVE FinalInv'
    <2>1. /\ saw'[r] = Seen(r, part)
          /\ \A q \in Requests : q # r => saw'[q] = saw[q]
          /\ UNCHANGED <<won, whitelist, settled, revised, cache, wallet, answer>>
      BY <1>8, <1>t DEF See, TypeOK
    <2>2. /\ saw'[r].settled = saw[r].settled
          /\ saw'[r].parts = saw[r].parts \cup {part}
          /\ saw'[r].won = IF part = "mine" THEN won[wallet[r]] ELSE saw[r].won
          /\ saw'[r].list = IF part = "info" THEN whitelist ELSE saw[r].list
      BY <1>8, <1>t, <2>1, SeenType DEF See, TypeOK
    <2> QED
      BY <2>1, <2>2 DEF FinalInv
  <1>9. ASSUME NEW r \in Requests, Answer(r) PROVE FinalInv'
    <2>1. /\ \A q \in Requests : q # r => saw'[q] = saw[q] /\ answer'[q] = answer[q]
          /\ saw'[r] = Blank
          /\ answer'[r] = AnswerFor(wallet[r], saw[r])
          /\ cache' = IF TicketsLeft(saw[r]) THEN ListFor(saw[r]) ELSE cache
          /\ UNCHANGED <<sol, won, whitelist, settled, rows, revised, wallet>>
          /\ {"mine", "info"} \subseteq saw[r].parts
      BY <1>9, <1>t DEF Answer, TypeOK, Parts, TicketParts
    <2>2. saw[r].settled => settled /\ saw[r].won = won[wallet[r]]
                            /\ (revised \/ saw[r].list = whitelist)
      BY <2>1 DEF FinalInv
    <2>3. saw[r].settled => revised \/ ListFor(saw[r]) = whitelist
      BY <2>2 DEF ListFor, FinalInv
    <2>4. TicketsLeft(saw[r]) => saw[r].settled
      BY <1>t, AnswerType
    <2>5. cache' \notin {None, {}} => settled' /\ (revised' \/ cache' = whitelist')
      BY <2>1, <2>2, <2>3, <2>4 DEF FinalInv
    <2>6. answer'[r].is_active => settled /\ (revised \/ <<wallet[r], won[wallet[r]]>> \in whitelist)
      BY <1>t, <2>1, <2>2, <2>3, AnswerType
    <2> QED
      BY <2>1, <2>5, <2>6 DEF FinalInv, Blank
  <1>10. ASSUME Loss PROVE FinalInv'
    BY <1>10 DEF Loss, Kept, Over, FinalInv, Blank
  <1>11. CASE UNCHANGED vars
    BY <1>11 DEF vars, FinalInv
  <1> QED
    BY <1>1, <1>2, <1>3, <1>4, <1>5, <1>6, <1>7, <1>8, <1>9, <1>10, <1>11, StepEffect
       DEF Effect, World

-----------------------------------------------------------------------------
(* Offers are of tickets that were there.                                    *)

\* Without new rows or a new draw nothing changes about the tickets.
LEMMA TicketsKept ==
    ASSUME UNCHANGED <<won, rows>>
    PROVE  /\ \A w \in Wallets : /\ Left(w)' <=> Left(w)
                                 /\ Open(w)' <=> Open(w)
           /\ SoldOut' <=> SoldOut
           /\ Doubled' <=> Doubled
  BY DEF Left, Open, SoldOut, Doubled

\* An investment leaves no wallet more tickets, and none is possible once every ticket
\* has its row, and just one.
LEMMA InvestUses ==
    ASSUME TypeInv, NEW w \in Wallets, NEW n \in Tickets, NEW copies \in 1 .. 2,
           Invest(w, n, copies)
    PROVE  /\ \A v \in Wallets : Left(v)' => Left(v)
           /\ SoldOut => Doubled
           /\ Doubled => Doubled'
  <1>t. TypeOK /\ IsFiniteSet(rows) /\ IsFiniteSet(rows') /\ rows \subseteq rows' /\ won' = won
    <2>1. TypeInv'
      BY TypeStep DEF Next, World
    <2> QED
      BY <2>1 DEF TypeInv, Invest
  <1>1. ASSUME NEW v \in Wallets, Left(v)' PROVE Left(v)
    <2> DEFINE before == {row \in rows : row[1] = v}
               after == {row \in rows' : row[1] = v}
    <2>1. /\ IsFiniteSet(before) /\ IsFiniteSet(after)
          /\ Cardinality(before) <= Cardinality(after)
      <3>1. IsFiniteSet(after)
        BY <1>t, FS_Subset
      <3>2. before \in SUBSET after
        BY <1>t
      <3> QED
        BY <3>1, <3>2, FS_Subset
    <2>2. Cardinality(before) \in Nat /\ Cardinality(after) \in Nat
      BY <2>1, FS_CardinalityType
    <2>3. won[v] # None /\ won[v] > Cardinality(after)
      BY <1>1, <1>t DEF Left
    <2>4. won[v] \in Nat
      BY <1>t, <2>3, ConstantsAssumption DEF TypeOK
    <2>5. won[v] > Cardinality(before)
      BY <2>1, <2>2, <2>3, <2>4
    <2> QED
      BY <2>3, <2>5 DEF Left
  <1>2. ASSUME ~Doubled PROVE ~SoldOut
    <2>1. {row \in rows : row[3] = 1} = rows
      BY <1>2, <1>t DEF Doubled, TypeOK
    <2>2. Cardinality(rows) < TicketTotal
      BY <2>1 DEF Invest
    <2>3. Cardinality(rows) \in Nat /\ TicketTotal \in Nat
      BY <1>t, FS_CardinalityType, ConstantsAssumption
    <2> QED
      BY <2>2, <2>3 DEF SoldOut
  <1>3. Doubled => Doubled'
    BY <1>t DEF Doubled
  <1> QED
    BY <1>1, <1>2, <1>3

LEMMA InitOpen == Init => OpenInv
  BY DEF Init, OpenInv, Running

LEMMA OpenStep == TypeInv /\ FinalInv /\ OpenInv /\ [Next]_vars => OpenInv'
  <1> SUFFICES ASSUME TypeInv, FinalInv, OpenInv, [Next]_vars PROVE OpenInv'
    OBVIOUS
  <1> USE DEF database, requests
  <1>t. TypeOK
    BY DEF TypeInv
  <1>w. \A r \in Requests : Running(r) => wallet[r] \in Wallets
    BY <1>t DEF TypeOK, Running
  <1>1. ASSUME NEW draw \in [Wallets -> {None} \cup 0 .. MaxTickets], Publish(draw)
        PROVE  OpenInv'
    <2>1. /\ UNCHANGED <<settled, rows, cache, step, wallet, saw, answer>>
          /\ \A r \in Requests : open'[r] = (open[r] \/ (Running(r) /\ Open(wallet[r])'))
      BY <1>1, <1>t DEF Publish, Witness, TypeOK
    <2>2. \A r \in Requests : ~saw[r].settled
      BY <1>1 DEF Publish, FinalInv
    <2>3. (SoldOut' <=> SoldOut) /\ (Doubled' <=> Doubled)
      BY <2>1 DEF SoldOut, Doubled
    <2>4. \A r \in Requests : (Running(r)' <=> Running(r)) /\ (open[r] => open'[r])
      BY <2>1 DEF Running
    <2> QED
      BY <2>1, <2>2, <2>3, <2>4 DEF OpenInv
  <1>2. ASSUME Settle PROVE OpenInv'
    <2>1. UNCHANGED <<won, rows, step, wallet, saw, answer, open>>
      BY <1>2 DEF Settle
    <2> QED
      BY <2>1, <1>w, TicketsKept DEF OpenInv, Running
  <1>3. ASSUME NEW list \in Lists, Revise(list) PROVE OpenInv'
    <2>1. UNCHANGED <<won, rows, step, wallet, saw, answer, open>>
      BY <1>3 DEF Revise
    <2> QED
      BY <2>1, <1>w, TicketsKept DEF OpenInv, Running
  <1>4. ASSUME NEW w \in Wallets, NEW n \in Tickets, NEW copies \in 1 .. 2,
               Invest(w, n, copies)
        PROVE  OpenInv'
    <2>1. /\ UNCHANGED <<step, wallet, saw, answer>>
          /\ \A r \in Requests : open'[r] = (open[r] \/ (Running(r) /\ Open(wallet[r])'))
      BY <1>4, <1>t DEF Invest, Witness, TypeOK
    <2>2. \A r \in Requests : (Running(r)' <=> Running(r)) /\ (open[r] => open'[r])
      BY <2>1 DEF Running
    <2>3. /\ \A v \in Wallets : Left(v)' => Left(v)
          /\ SoldOut => Doubled
          /\ Doubled => Doubled'
      BY <1>4, InvestUses
    <2>4. \A r \in Requests : Running(r) => (Left(wallet[r])' => Left(wallet[r]))
      BY <1>w, <2>1, <2>3
    <2> QED
      BY <2>1, <2>2, <2>3, <2>4 DEF OpenInv
  <1>5. ASSUME NEW r \in Requests, NEW w \in Wallets, Receive(r, w) PROVE OpenInv'
    <2>1. /\ step[r] = "idle" /\ saw'[r] = Blank /\ answer'[r] = None
          /\ wallet'[r] = w /\ open'[r] = Open(w)
      BY <1>5, <1>t DEF Receive, TypeInv, TypeOK
    <2>2. \A q \in Requests : q # r => wallet'[q] = wallet[q] /\ step'[q] = step[q]
                                       /\ open'[q] = open[q]
      BY <1>5, <1>t DEF Receive, TypeOK
    <2>3. UNCHANGED <<won, rows, saw, answer>>
      BY <1>5 DEF Receive
    <2> QED
      BY <1>w, <2>1, <2>2, <2>3, TicketsKept DEF OpenInv, Running, Blank
  <1>6. ASSUME NEW r \in Requests, NEW now \in Times, ReadProject(r, now) PROVE OpenInv'
    <2>1. saw[r] = Blank /\ Running(r)
      BY <1>6 DEF ReadProject, TypeInv, Running
    <2>2. /\ saw'[r].parts = {}
          /\ \A q \in Requests : q # r => saw'[q] = saw[q] /\ step'[q] = step[q]
      BY <1>6, <1>t, <2>1 DEF ReadProject, TypeOK, Blank
    <2>3. UNCHANGED <<won, rows, wallet, answer, open>>
      BY <1>6 DEF ReadProject
    <2> QED
      BY <1>w, <2>1, <2>2, <2>3, TicketsKept DEF OpenInv, Running
  <1>7. ASSUME NEW r \in Requests, NEW to \in Steps, Move(r, to) PROVE OpenInv'
    <2>1. UNCHANGED <<won, rows, wallet, saw, answer, open>>
      BY <1>7 DEF Move
    <2>2. \A q \in Requests : Running(q)' => Running(q)
      BY <1>7, <1>t DEF Move, Running, TypeOK
    <2> QED
      BY <1>w, <2>1, <2>2, TicketsKept DEF OpenInv
  <1>8. ASSUME NEW r \in Requests, NEW part \in Parts, See(r, part) PROVE OpenInv'
    <2>1. /\ saw'[r] = Seen(r, part)
          /\ \A q \in Requests : q # r => saw'[q] = saw[q]
          /\ UNCHANGED <<won, rows, step, wallet, answer, open>>
      BY <1>8, <1>t DEF See, TypeOK
    <2>2. /\ saw'[r].settled = saw[r].settled
          /\ saw'[r].parts = saw[r].parts \cup {part}
          /\ saw'[r].left = IF part = "mine" THEN Left(wallet[r]) ELSE saw[r].left
          /\ saw'[r].soldOut = IF part = "invested" THEN SoldOut ELSE saw[r].soldOut
      BY <1>8, <1>t, <2>1, SeenType DEF See, TypeOK
    <2>3. \A q \in Requests : Running(q)' <=> Running(q)
      BY <2>1 DEF Running
    <2>4. Open(wallet[r]) <=> Left(wallet[r]) /\ ~SoldOut
      BY DEF Open
    <2>5. \A q \in Requests : Running(q) => /\ Left(wallet[q])' <=> Left(wallet[q])
                                            /\ Open(wallet[q])' <=> Open(wallet[q])
      BY <1>w, <2>1, TicketsKept
    <2>6. (SoldOut' <=> SoldOut) /\ (Doubled' <=> Doubled)
      BY <2>1, TicketsKept
    <2>7. ASSUME NEW q \in Requests, q # r PROVE OpenInv!(q)'
      BY <2>1, <2>3, <2>5, <2>6, <2>7 DEF OpenInv
    <2>8. OpenInv!(r)'
      BY <2>1, <2>2, <2>3, <2>4, <2>5, <2>6 DEF OpenInv
    <2> QED
      BY <2>7, <2>8 DEF OpenInv
  <1>9. ASSUME NEW r \in Requests, Answer(r) PROVE OpenInv'
    <2>1. /\ \A q \in Requests : q # r => /\ saw'[q] = saw[q] /\ answer'[q] = answer[q]
                                          /\ step'[q] = step[q]
          /\ step[r] = "all" /\ step'[r] = "answered"
          /\ answer'[r] = AnswerFor(wallet[r], saw[r])
          /\ UNCHANGED <<won, rows, wallet, open>>
          /\ {"mine", "invested"} \subseteq saw[r].parts
      BY <1>9, <1>t DEF Answer, TypeOK, Parts, TicketParts
    <2>2. answer'[r].is_active => open[r] \/ Doubled
      BY <1>t, <2>1, AnswerType DEF OpenInv, Running
    <2> QED
      BY <1>w, <2>1, <2>2, TicketsKept DEF OpenInv, Running
  <1>10. ASSUME Loss PROVE OpenInv'
    <2>1. UNCHANGED <<won, rows, wallet, answer>>
      BY <1>10 DEF Loss
    <2>2. \A q \in Requests : answer[q] # None => Kept(q)
      BY <1>10, <1>t DEF Loss, Over, TypeOK, Running
    <2>3. \A q \in Requests : Kept(q) \/ ~Running(q)'
      BY <1>10 DEF Loss, Over, Running, Deaths
    <2> QED
      BY <1>w, <2>1, <2>2, <2>3, TicketsKept DEF OpenInv, Kept, Running
  <1>11. CASE UNCHANGED vars
    <2>1. UNCHANGED <<won, rows, step, wallet, saw, answer, open>>
      BY <1>11 DEF vars
    <2> QED
      BY <1>w, <2>1, TicketsKept DEF OpenInv, Running
  <1> QED
    BY <1>1, <1>2, <1>3, <1>4, <1>5, <1>6, <1>7, <1>8, <1>9, <1>10, <1>11, StepEffect
       DEF Effect, World

-----------------------------------------------------------------------------
(* The theorems.                                                             *)

\* Every behaviour keeps the inductive invariant.
THEOREM Inductive == Spec => []IInv
  <1>1. Init => IInv
    BY InitType, InitFinal, InitOpen DEF IInv
  <1>2. IInv /\ [Next]_vars => IInv'
    BY TypeStep, FinalStep, OpenStep DEF IInv
  <1> QED
    BY <1>1, <1>2, PTL DEF Spec

\* projectRegistrationInfo: requests, database and cache have their types, and a
\* request that still waits has no answer.
THEOREM TypeCorrect == Spec => []TypeOK
  <1>1. IInv => TypeOK
    BY DEF IInv, TypeInv
  <1> QED
    BY <1>1, Inductive, PTL

\* global['project-hd-<id>'] holds the final whitelist, or an edit came later.
THEOREM CacheCorrect == Spec => []CachedListIsFinal
  <1>1. IInv => CachedListIsFinal
    BY DEF IInv, FinalInv, CachedListIsFinal
  <1> QED
    BY <1>1, Inductive, PTL

\* is_active: the wallet's tickets are on the published whitelist.
THEOREM OffersProvable == Spec => []OffersCanBeProved
  <1>1. IInv => OffersCanBeProved
    BY DEF IInv, FinalInv, OffersCanBeProved
  <1> QED
    BY <1>1, Inductive, PTL

\* is_active: the two aggregations, read apart, tell of one instant at which the
\* wallet could invest.
THEOREM OffersOpen == Spec => []OfferedWhileOpen
  <1>1. IInv => OfferedWhileOpen
    BY DEF IInv, OpenInv, OfferedWhileOpen, Doubled
  <1> QED
    BY <1>1, Inductive, PTL

\* A project sold for SOL attaches Promise.all before anything can be rejected.
THEOREM SolSafe == Spec => []SolProjectsNeverKill
  <1>1. IInv => SolProjectsNeverKill
    BY DEF IInv, TypeInv, SolProjectsNeverKill
  <1> QED
    BY <1>1, Inductive, PTL

=============================================================================
