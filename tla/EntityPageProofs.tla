-------------------------- MODULE EntityPageProofs --------------------------
(***************************************************************************)
(* What holds of EntityPage for every set of buttons and values and for    *)
(* every number of clicks, requests and answers.                           *)
(***************************************************************************)
EXTENDS EntityPage, ModalProofs

LOCAL INSTANCE SequencesExt

-----------------------------------------------------------------------------
(* Types *)

PutRequest == [value : Values, server : {"sent", "done", "refused"}, waiting : BOOLEAN, alone : BOOLEAN]
Block == [loaded : BOOLEAN, shows : SUBSET Nat, sound : BOOLEAN]
Load == [served : BOOLEAN, shows : SUBSET Nat, alone : BOOLEAN]

FormTypes ==
    /\ value \in Values /\ stored \in Values /\ puts \in Seq(PutRequest)
    /\ success \in BOOLEAN /\ danger \in BOOLEAN /\ marks \subseteq Inputs /\ codes \in Nat

BlockTypes == block \in Block /\ fetches \in Seq(Load)

Types == ModalTypes /\ FormTypes /\ BlockTypes

\* The invariant proved is at least the type invariant the runs check.
LEMMA TypesImply == Types => TypeOK
  <1> SUFFICES ASSUME Types PROVE TypeOK
    OBVIOUS
  <1>1. PageTypeOK /\ ModalTypeOK
    BY ModalTypesImply DEF Types
  <1>2. FormTypeOK
    <2>1. \A i \in DOMAIN puts : puts[i] \in PutRequest
      BY LenProperties, ElementOfSeq DEF Types, FormTypes
    <2>2. \A i \in DOMAIN puts : puts[i].value \in Values /\ puts[i].server \in {"sent", "done", "refused"}
      BY <2>1 DEF PutRequest
    <2>3. QED
      BY <2>2 DEF FormTypeOK, Types, FormTypes
  <1>3. BlocksTypeOK
    <2>1. \A k \in DOMAIN fetches : fetches[k] \in Load
      BY LenProperties, ElementOfSeq DEF Types, BlockTypes
    <2>2. \A k \in DOMAIN fetches : fetches[k].served \in BOOLEAN /\ fetches[k].shows \subseteq Nat
      BY <2>1 DEF Load
    <2>3. block.loaded \in BOOLEAN /\ block.shows \subseteq Nat /\ block.sound \in BOOLEAN
      BY DEF Types, BlockTypes, Block
    <2>4. QED
      BY <2>2, <2>3 DEF BlocksTypeOK
  <1>4. QED
    BY <1>1, <1>2, <1>3 DEF TypeOK

-----------------------------------------------------------------------------
(* The loads of the block *)

\* A load leaves the sequence; the others stay in it.
LEMMA LoadRemoved ==
    ASSUME BlockTypes, NEW k \in DOMAIN fetches
    PROVE  LET rest == RemoveAt(fetches, k)
           IN  /\ rest \in Seq(Load) /\ Len(rest) = Len(fetches) - 1
               /\ \A j \in DOMAIN rest : \E i \in DOMAIN fetches : rest[j] = fetches[i]
  <1> DEFINE front == SubSeq(fetches, 1, k - 1)
             back == SubSeq(fetches, k + 1, Len(fetches))
             rest == front \o back
  <1>1. fetches \in Seq(Load) /\ Len(fetches) \in Nat /\ DOMAIN fetches = 1 .. Len(fetches)
        /\ k \in 1 .. Len(fetches)
    BY LenProperties DEF BlockTypes
  <1>2. RemoveAt(fetches, k) = rest
    BY DEF RemoveAt
  <1>3. \A i \in 1 .. Len(fetches) : fetches[i] \in Load
    BY <1>1, ElementOfSeq
  <1>4. /\ front \in Seq(Load) /\ Len(front) = k - 1
        /\ \A j \in 1 .. k - 1 : front[j] = fetches[j]
    <2> DEFINE last == k - 1
    <2>1. last \in Nat /\ 1 \in Int
      BY <1>1
    <2>2. \A i \in 1 .. last : fetches[i] \in Load
      BY <1>1, <1>3
    <2> HIDE DEF last
    <2>3. /\ SubSeq(fetches, 1, last) \in Seq(Load)
          /\ Len(SubSeq(fetches, 1, last)) = IF 1 <= last THEN last - 1 + 1 ELSE 0
          /\ \A j \in 1 .. last - 1 + 1 : SubSeq(fetches, 1, last)[j] = fetches[1 + j - 1]
      BY <2>1, <2>2, SubSeqProperties
    <2> DEFINE sub == SubSeq(fetches, 1, last)
    <2>4. front = sub
      BY DEF last
    <2> HIDE DEF front
    <2>5. sub \in Seq(Load) /\ Len(sub) = last /\ \A j \in 1 .. last : sub[j] = fetches[j]
      <3> HIDE DEF sub
      <3>1. last - 1 + 1 = last /\ \A j \in 1 .. last : 1 + j - 1 = j
        BY <2>1
      <3>2. QED
        BY <2>1, <2>3, <3>1 DEF sub
    <2> HIDE DEF sub
    <2>6. QED
      BY <2>4, <2>5 DEF last
  <1>5. /\ back \in Seq(Load) /\ Len(back) = Len(fetches) - k
        /\ \A j \in 1 .. Len(fetches) - k : back[j] = fetches[k + j]
    <2> DEFINE next == k + 1
               len == Len(fetches)
    <2>1. next \in Nat /\ len \in Nat /\ 1 <= next /\ next <= len + 1
      BY <1>1
    <2>2. \A i \in next .. len : fetches[i] \in Load
      BY <1>1, <1>3
    <2>3. back = SubSeq(fetches, next, len)
      OBVIOUS
    <2> HIDE DEF next, len, back
    <2>4. /\ back \in Seq(Load)
          /\ Len(back) = IF next <= len THEN len - next + 1 ELSE 0
          /\ \A j \in 1 .. len - next + 1 : back[j] = fetches[next + j - 1]
      BY <2>1, <2>2, <2>3, SubSeqProperties
    <2> DEFINE size == len - next + 1
    <2>5. size \in Nat /\ size = Len(fetches) - k /\ (next <= len => size = len - next + 1)
          /\ (~(next <= len) => size = 0) /\ \A j \in Nat : next + j - 1 = k + j
      BY <1>1, <2>1 DEF next, len
    <2>6. Len(back) = size
      BY <2>4, <2>5
    <2>7. \A j \in 1 .. size : back[j] = fetches[next + j - 1]
      BY <2>4
    <2> HIDE DEF size
    <2>8. ASSUME NEW j \in 1 .. size PROVE back[j] = fetches[k + j]
      <3>1. next + j - 1 = k + j
        BY <2>5
      <3>2. QED
        BY <2>7, <3>1
    <2>9. size = Len(fetches) - k /\ back \in Seq(Load)
      BY <2>4, <2>5
    <2>10. QED
      BY <2>6, <2>8, <2>9
  <1> HIDE DEF front, back
  <1>6. /\ rest \in Seq(Load) /\ Len(rest) = Len(front) + Len(back)
        /\ \A j \in 1 .. Len(front) + Len(back) :
              rest[j] = IF j <= Len(front) THEN front[j] ELSE back[j - Len(front)]
    BY <1>4, <1>5, ConcatProperties
  <1> HIDE DEF rest
  <1>7. Len(rest) = Len(fetches) - 1 /\ DOMAIN rest = 1 .. Len(fetches) - 1
    BY <1>1, <1>4, <1>5, <1>6, LenProperties
  <1>8. ASSUME NEW j \in 1 .. Len(fetches) - 1
        PROVE  \E i \in DOMAIN fetches : rest[j] = fetches[i]
    <2>1. CASE j <= k - 1
      <3>1. j \in 1 .. k - 1 /\ j \in 1 .. Len(front) + Len(back) /\ j <= Len(front)
        BY <1>1, <1>4, <1>5, <2>1
      <3>2. rest[j] = fetches[j]
        BY <1>4, <1>6, <3>1
      <3>3. QED
        BY <1>1, <3>1, <3>2
    <2>2. CASE ~(j <= k - 1)
      <3>1. rest[j] = back[j - (k - 1)] /\ j - (k - 1) \in 1 .. Len(fetches) - k
        BY <1>1, <1>4, <1>5, <1>6, <2>2
      <3>2. back[j - (k - 1)] = fetches[k + (j - (k - 1))]
        BY <1>5, <3>1
      <3>3. k + (j - (k - 1)) \in 1 .. Len(fetches)
        BY <1>1, <3>1
      <3>4. QED
        BY <1>1, <3>1, <3>2, <3>3
    <2>3. QED
      BY <2>1, <2>2
  <1>9. QED
    BY <1>2, <1>6, <1>7, <1>8

\* A load is added; none of the others is alone any more.
LEMMA LoadAdded ==
    ASSUME BlockTypes
    PROVE  /\ Fetch \in Seq(Load) /\ Len(Fetch) = Len(fetches) + 1 /\ Fetch # <<>>
           /\ \A j \in DOMAIN Fetch : Fetch[j].alone => ~Fetch[j].served /\ Len(Fetch) = 1
  <1> DEFINE others == [k \in DOMAIN fetches |-> [fetches[k] EXCEPT !.alone = FALSE]]
             empty == fetches = <<>>
             one == [served |-> FALSE, shows |-> {}, alone |-> empty]
  <1>1. fetches \in Seq(Load) /\ Len(fetches) \in Nat /\ DOMAIN fetches = 1 .. Len(fetches)
    BY LenProperties DEF BlockTypes
  <1>2. \A k \in DOMAIN fetches :
            [fetches[k] EXCEPT !.alone = FALSE] \in Load /\ [fetches[k] EXCEPT !.alone = FALSE].alone = FALSE
    <2>1. \A k \in DOMAIN fetches : fetches[k] \in Load
      BY <1>1, ElementOfSeq
    <2>2. QED
      BY <2>1 DEF Load
  <1>3. others \in Seq(Load) /\ Len(others) = Len(fetches)
        /\ \A k \in 1 .. Len(fetches) : others[k].alone = FALSE
    <2>1. others = [k \in DOMAIN fetches |-> others[k]]
          /\ \A k \in DOMAIN fetches : others[k] = [fetches[k] EXCEPT !.alone = FALSE]
      OBVIOUS
    <2> HIDE DEF others
    <2>2. \A k \in DOMAIN fetches : others[k] \in Load /\ others[k].alone = FALSE
      BY <1>2, <2>1
    <2>3. others \in Seq(Load) /\ Len(others) = Len(fetches)
      BY <1>1, <2>1, <2>2, AllChanged
    <2>4. QED
      BY <1>1, <2>2, <2>3
  <1>4. empty \in BOOLEAN
    OBVIOUS
  <1>5. empty => Len(fetches) = 0
    BY EmptySeq
  <1> HIDE DEF empty
  <1>6. one \in Load /\ one.served = FALSE /\ one.alone = empty
    BY <1>4 DEF Load
  <1>7. Fetch = others \o <<one>>
    BY DEF Fetch, empty
  <1> HIDE DEF others, one
  <1>8. <<one>> \in Seq(Load) /\ Len(<<one>>) = 1 /\ <<one>>[1] = one
    BY <1>6
  <1>9. /\ Fetch \in Seq(Load) /\ Len(Fetch) = Len(others) + Len(<<one>>)
        /\ \A j \in 1 .. Len(others) + Len(<<one>>) :
              Fetch[j] = IF j <= Len(others) THEN others[j] ELSE <<one>>[j - Len(others)]
    BY <1>3, <1>7, <1>8, ConcatProperties
  <1>10. Len(Fetch) = Len(fetches) + 1 /\ DOMAIN Fetch = 1 .. Len(fetches) + 1
    BY <1>1, <1>3, <1>8, <1>9, LenProperties
  <1>11. ASSUME NEW j \in DOMAIN Fetch, Fetch[j].alone
         PROVE  ~Fetch[j].served /\ Len(Fetch) = 1
    <2>1. CASE j <= Len(fetches)
      <3>1. Fetch[j].alone = FALSE
        BY <1>1, <1>3, <1>8, <1>9, <1>10, <2>1
      <3>2. QED
        BY <1>11, <3>1
    <2>2. CASE ~(j <= Len(fetches))
      <3>1. j = Len(fetches) + 1
        BY <1>1, <1>10, <2>2
      <3>2. Fetch[j] = one
        BY <1>1, <1>3, <1>8, <1>9, <3>1
      <3>3. empty
        BY <1>6, <1>11, <3>2
      <3>4. QED
        BY <1>5, <1>6, <1>10, <3>2, <3>3
    <2>3. QED
      BY <2>1, <2>2
  <1>12. Fetch # <<>>
    BY <1>1, <1>10, EmptySeq
  <1>13. QED
    BY <1>9, <1>10, <1>11, <1>12

-----------------------------------------------------------------------------
(* Every variable has its type *)

\* What a click on the button of the form adds to the requests
NothingOpen == \A i \in DOMAIN puts : ~Open(i)
Putting == [value |-> value, server |-> "sent", waiting |-> TRUE, alone |-> NothingOpen]

\* What a click on the form's button puts on its way.
LEMMA SubmitPuts ==
    ASSUME PageTypeOK, FormTypes, FormSubmit
    PROVE  /\ Putting \in PutRequest /\ puts' \in Seq(PutRequest) /\ Len(puts') = Len(puts) + 1
           /\ DOMAIN puts = 1 .. Len(puts) /\ DOMAIN puts' = 1 .. Len(puts) + 1
           /\ \A i \in DOMAIN puts : puts'[i] = puts[i]
           /\ puts'[Len(puts) + 1] = Putting
  <1>1. Runs(bound) = 1
    BY ClickCounts DEF FormSubmit
  <1>2. NothingOpen \in BOOLEAN
    BY DEF NothingOpen
  <1>3. Putting \in PutRequest
    <2> HIDE DEF NothingOpen
    <2>1. QED
      BY <1>2 DEF FormTypes, Putting, PutRequest
  <1>4. puts' = puts \o [k \in 1 .. 1 |-> Putting]
    BY <1>1 DEF FormSubmit, Putting, NothingOpen
  <1>5. puts \in Seq(PutRequest) /\ DOMAIN puts = 1 .. Len(puts)
    BY LenProperties DEF FormTypes
  <1> HIDE DEF Putting
  <1>6. QED
    BY <1>3, <1>4, <1>5, OneAdded

\* What the server or an answer changes in a request
LEMMA PutChanges ==
    ASSUME FormTypes, NEW i \in DOMAIN puts, NEW put \in PutRequest, puts' = [puts EXCEPT ![i] = put]
    PROVE  /\ puts' \in Seq(PutRequest) /\ Len(puts') = Len(puts) /\ DOMAIN puts' = DOMAIN puts
           /\ puts'[i] = put /\ \A j \in DOMAIN puts : j # i => puts'[j] = puts[j]
  <1>1. puts \in Seq(PutRequest)
    BY DEF FormTypes
  <1>2. QED
    BY <1>1, OneChanged

\* A request is served, or its answer arrives.
LEMMA PutSteps ==
    ASSUME FormTypes, NEW i \in DOMAIN puts,
           PutServe(i) \/ PutSaved(i) \/ PutRefused(i) \/ PutLost(i)
    PROVE  /\ puts' \in Seq(PutRequest) /\ Len(puts') = Len(puts) /\ DOMAIN puts' = DOMAIN puts
           /\ puts[i] \in PutRequest /\ puts'[i].value = puts[i].value /\ puts'[i].alone = puts[i].alone
           /\ \A j \in DOMAIN puts : j # i => puts'[j] = puts[j]
           /\ Open(i)
           /\ \/ /\ PutServe(i) /\ puts'[i].waiting = puts[i].waiting
                 /\ \/ puts'[i].server = "done" /\ stored' = puts[i].value
                    \/ puts'[i].server = "refused" /\ stored' = stored
                 /\ success' = success /\ danger' = danger
              \/ /\ puts'[i].server = puts[i].server /\ puts'[i].waiting = FALSE /\ stored' = stored
                 /\ \/ success' = FALSE
                    \/ success' = TRUE /\ danger' = FALSE /\ puts[i].server = "done"
  <1>0. puts[i] \in PutRequest
    BY LenProperties, ElementOfSeq DEF FormTypes
  <1>1. CASE PutServe(i)
    <2>1. PICK server \in {"done", "refused"} :
              /\ puts' = [puts EXCEPT ![i].server = server]
              /\ server = "done" => stored' = puts[i].value
              /\ server = "refused" => stored' = stored
      BY <1>1 DEF PutServe
    <2> DEFINE put == [puts[i] EXCEPT !.server = server]
    <2>2. /\ put \in PutRequest /\ put.server = server /\ put.waiting = puts[i].waiting
          /\ put.value = puts[i].value /\ put.alone = puts[i].alone
      BY <1>0 DEF PutRequest
    <2>3. puts' = [puts EXCEPT ![i] = put]
      BY <2>1
    <2> HIDE DEF put
    <2>4. /\ puts' \in Seq(PutRequest) /\ Len(puts') = Len(puts) /\ DOMAIN puts' = DOMAIN puts
          /\ puts'[i] = put /\ \A j \in DOMAIN puts : j # i => puts'[j] = puts[j]
      BY <2>2, <2>3, PutChanges
    <2>5. Open(i) /\ success' = success /\ danger' = danger
      BY <1>1 DEF PutServe, Open, alertVars
    <2>6. QED
      BY <1>0, <1>1, <2>1, <2>2, <2>4, <2>5
  <1>2. CASE PutSaved(i) \/ PutRefused(i) \/ PutLost(i)
    <2>1. Received(i) /\ puts' = [puts EXCEPT ![i].waiting = FALSE] /\ stored' = stored
      BY <1>2 DEF PutSaved, PutRefused, PutLost, Received
    <2> DEFINE put == [puts[i] EXCEPT !.waiting = FALSE]
    <2>2. /\ put \in PutRequest /\ put.server = puts[i].server /\ put.waiting = FALSE
          /\ put.value = puts[i].value /\ put.alone = puts[i].alone
      BY <1>0 DEF PutRequest
    <2>3. puts' = [puts EXCEPT ![i] = put]
      BY <2>1
    <2> HIDE DEF put
    <2>4. /\ puts' \in Seq(PutRequest) /\ Len(puts') = Len(puts) /\ DOMAIN puts' = DOMAIN puts
          /\ puts'[i] = put /\ \A j \in DOMAIN puts : j # i => puts'[j] = puts[j]
      BY <2>2, <2>3, PutChanges
    <2>5. Open(i)
      BY <2>1 DEF Received, Open
    <2>6. success' = FALSE \/ (success' = TRUE /\ danger' = FALSE /\ puts[i].server = "done")
      BY <1>2 DEF PutSaved, PutRefused, PutLost
    <2>7. QED
      BY <1>0, <2>1, <2>2, <2>4, <2>5, <2>6
  <1>3. QED
    BY <1>1, <1>2

\* The steps of the form keep the types of the page.
LEMMA FormKeepsTypes ==
    ASSUME PageTypeOK, FormTypes, FormUse \/ FormAnswer
    PROVE  PageTypeOK' /\ FormTypes'
  <1>1. ASSUME NEW v \in Values, Type(v) PROVE PageTypeOK' /\ FormTypes'
    BY <1>1 DEF Type, pageVars, alertVars, PageTypeOK, FormTypes
  <1>2. CASE FormSubmit
    <2>1. puts' \in Seq(PutRequest)
      BY <1>2, SubmitPuts
    <2>2. clicks' \in 0 .. MaxClicks
      BY <1>2, ClickCounts DEF FormSubmit
    <2>3. UNCHANGED <<scripts, bound, left, value, stored, success, danger, marks, codes>>
      BY <1>2 DEF FormSubmit, alertVars
    <2>4. QED
      BY <2>1, <2>2, <2>3 DEF PageTypeOK, FormTypes
  <1>3. ASSUME NEW g \in Generators, CodeGenerate(g) PROVE PageTypeOK' /\ FormTypes'
    <2>1. clicks' \in 0 .. MaxClicks /\ Runs(bound) = 1
      BY <1>3, ClickCounts DEF CodeGenerate
    <2>2. UNCHANGED <<scripts, bound, left, stored, puts, success, danger, marks>>
      BY <1>3 DEF CodeGenerate, alertVars
    <2>3. value' \in Values /\ codes' \in Nat
      BY <1>3, <2>1, FormAssumption DEF CodeGenerate, FormTypes
    <2>4. QED
      BY <2>1, <2>2, <2>3 DEF PageTypeOK, FormTypes
  <1>4. ASSUME NEW i \in DOMAIN puts, PutServe(i) \/ PutSaved(i) \/ PutRefused(i) \/ PutLost(i)
        PROVE  PageTypeOK' /\ FormTypes'
    <2>1. puts' \in Seq(PutRequest) /\ puts[i].value \in Values
      BY <1>4, PutSteps DEF PutRequest
    <2>2. UNCHANGED <<scripts, bound, left, clicks, value, codes>>
      BY <1>4 DEF PutServe, PutSaved, PutRefused, PutLost, Received, pageVars
    <2>3. success' \in BOOLEAN /\ danger' \in BOOLEAN /\ marks' \subseteq Inputs
      BY <1>4 DEF PutServe, PutSaved, PutRefused, PutLost, alertVars, FormTypes
    <2>4. stored' \in Values
      BY <1>4, <2>1 DEF PutServe, PutSaved, PutRefused, PutLost, Received, FormTypes
    <2>5. QED
      BY <2>1, <2>2, <2>3, <2>4 DEF PageTypeOK, FormTypes
  <1>5. ASSUME NEW v \in Values, CodeArrives(v) PROVE PageTypeOK' /\ FormTypes'
    BY <1>5 DEF CodeArrives, pageVars, alertVars, PageTypeOK, FormTypes
  <1>6. QED
    BY <1>1, <1>2, <1>3, <1>4, <1>5 DEF FormUse, FormAnswer

\* The steps of the blocks keep the types of the page.
LEMMA BlocksKeepTypes ==
    ASSUME ModalTypes, BlockTypes, NEW k \in DOMAIN fetches, Loading(k)
    PROVE  PageTypeOK' /\ BlockTypes'
  <1>0. block \in Block /\ fetches \in Seq(Load) /\ fetches[k] \in Load /\ PageTypeOK
    BY LenProperties, ElementOfSeq DEF BlockTypes, ModalTypes
  <1>1. CASE FetchServe(k, Performed)
    <2> DEFINE load == [fetches[k] EXCEPT !.served = TRUE, !.shows = Performed]
    <2>1. fetches' = [fetches EXCEPT ![k] = load]
      BY <1>1 DEF FetchServe
    <2>2. Performed \subseteq Nat
      <3>1. saves \in Seq(Save)
        BY DEF ModalTypes
      <3>2. DOMAIN saves \subseteq Nat
        BY <3>1, LenProperties
      <3>3. QED
        BY <3>2 DEF Performed
    <2>3. load \in Load
      BY <1>0, <2>2 DEF Load
    <2> HIDE DEF load
    <2>4. fetches' \in Seq(Load)
      BY <1>0, <2>1, <2>3, OneChanged
    <2>5. QED
      BY <1>0, <1>1, <2>4 DEF FetchServe, pageVars, PageTypeOK, BlockTypes
  <1>2. CASE FetchAnswer(k) \/ FetchFail(k)
    <2>1. fetches' = RemoveAt(fetches, k) /\ UNCHANGED <<bound, left, clicks>>
      BY <1>2 DEF FetchAnswer, FetchFail, pageVars
    <2>2. fetches' \in Seq(Load)
      BY <2>1, LoadRemoved
    <2>3. block' \in Block
      <3>1. fetches[k].shows \in SUBSET Nat /\ fetches[k].alone \in BOOLEAN
        BY <1>0 DEF Load
      <3>2. CASE FetchAnswer(k)
        BY <3>1, <3>2 DEF FetchAnswer, Block
      <3>3. CASE FetchFail(k)
        BY <1>0, <3>3 DEF FetchFail, Block
      <3>4. QED
        BY <1>2, <3>2, <3>3
    <2>4. scripts' \in Nat
      BY <1>0, <1>2 DEF FetchAnswer, FetchFail, pageVars, PageTypeOK
    <2>5. QED
      BY <1>0, <2>1, <2>2, <2>3, <2>4 DEF PageTypeOK, BlockTypes
  <1>3. QED
    BY <1>1, <1>2 DEF Loading

\* A step of the page is one of its form, its dialog, its block or its script.
LEMMA Steps ==
    ASSUME Types, Next
    PROVE  \/ Ready
           \/ (FormUse \/ FormAnswer) /\ UNCHANGED <<modalVars, blockVars>>
           \/ Dialog /\ ModalStep /\ UNCHANGED <<formVars, blockVars>>
           \/ \E i \in DOMAIN saves : Saved(i) /\ ModalStep
           \/ \E k \in DOMAIN fetches : Loading(k) /\ UNCHANGED <<formVars, modalVars>>
  <1>1. Dialog => ModalStep
    BY DEF Dialog, ModalStep
  <1>2. \A i \in DOMAIN saves : Saved(i) => ModalStep
    BY DEF Saved, ModalStep
  <1>3. QED
    BY <1>1, <1>2 DEF Next

\* Every step of the page keeps its types.
LEMMA TypesStep ==
    ASSUME Types, [Next]_vars
    PROVE  Types'
  <1>0. ModalTypes /\ FormTypes /\ BlockTypes /\ PageTypeOK
    BY DEF Types, ModalTypes
  <1>1. CASE Ready
    <2>1. PageTypeOK'
      BY <1>0, <1>1 DEF Ready, Bind, PageTypeOK, MaxBound
    <2>2. fetches' \in Seq(Load)
      BY <1>0, <1>1, LoadAdded DEF Ready, BlockTypes
    <2>3. UNCHANGED <<formVars, modalVars, block>>
      BY <1>1 DEF Ready
    <2>4. QED
      BY <1>0, <2>1, <2>2, <2>3
      DEF Types, ModalTypes, FormTypes, BlockTypes, formVars, alertVars, modalVars
  <1>2. CASE (FormUse \/ FormAnswer) /\ UNCHANGED <<modalVars, blockVars>>
    <2>1. PageTypeOK' /\ FormTypes'
      BY <1>0, <1>2, FormKeepsTypes
    <2>2. QED
      BY <1>0, <1>2, <2>1 DEF Types, ModalTypes, BlockTypes, modalVars, blockVars
  <1>3. CASE Dialog /\ ModalStep /\ UNCHANGED <<formVars, blockVars>>
    <2>1. ModalTypes'
      BY <1>0, <1>3, ModalKeepsTypes
    <2>2. QED
      BY <1>0, <1>3, <2>1 DEF Types, FormTypes, BlockTypes, formVars, alertVars, blockVars
  <1>4. ASSUME NEW i \in DOMAIN saves, Saved(i), ModalStep PROVE Types'
    <2>1. ModalTypes'
      BY <1>0, <1>4, ModalKeepsTypes
    <2>2. fetches' \in Seq(Load)
      BY <1>0, <1>4, LoadAdded DEF Saved, BlockTypes
    <2>3. UNCHANGED <<formVars, block>>
      BY <1>4 DEF Saved
    <2>4. QED
      BY <1>0, <2>1, <2>2, <2>3 DEF Types, FormTypes, BlockTypes, formVars, alertVars
  <1>5. ASSUME NEW k \in DOMAIN fetches, Loading(k), UNCHANGED <<formVars, modalVars>>
        PROVE  Types'
    <2>1. PageTypeOK' /\ BlockTypes'
      BY <1>0, <1>5, BlocksKeepTypes
    <2>2. QED
      BY <1>0, <1>5, <2>1 DEF Types, ModalTypes, FormTypes, formVars, alertVars, modalVars
  <1>6. CASE UNCHANGED vars
    BY <1>0, <1>6 DEF vars, pageVars, formVars, alertVars, modalVars, blockVars,
                      Types, ModalTypes, PageTypeOK, FormTypes, BlockTypes
  <1>7. QED
    BY <1>1, <1>2, <1>3, <1>4, <1>5, <1>6, Steps

\* The page as it is served has the right types.
LEMMA TypesInit == Init => Types
  <1> SUFFICES ASSUME Init PROVE Types
    OBVIOUS
  <1>1. ModalTypes
    BY ModalTypesInit DEF Init
  <1>2. FormTypes
    BY FormAssumption, EmptySeq DEF Init, FormInit, FormTypes
  <1>3. BlockTypes
    BY EmptySeq DEF Init, BlocksInit, BlockTypes, Block
  <1>4. QED
    BY <1>1, <1>2, <1>3 DEF Types

\* Every variable has its type.
THEOREM TypeCorrect == Spec => []TypeOK
  <1>1. Types /\ [Next]_vars => Types'
    BY TypesStep
  <1>2. QED
    BY <1>1, TypesInit, TypesImply, PTL DEF Spec

-----------------------------------------------------------------------------
(* The dialog saves the record it shows *)

\* The steps of the dialog keep the urls right (ModalProofs), and no other step
\* touches them.
LEMMA UrlStep ==
    ASSUME Types, UrlOK, [Next]_vars
    PROVE  UrlOK'
  <1>1. CASE ModalStep
    BY <1>1, ModalKeepsUrl DEF Types
  <1>2. CASE UNCHANGED modalVars
    BY <1>2 DEF modalVars, UrlOK
  <1>3. ModalStep \/ UNCHANGED modalVars
    <2>1. Ready => UNCHANGED modalVars
      BY DEF Ready
    <2>2. UNCHANGED vars => UNCHANGED modalVars
      BY DEF vars
    <2>3. QED
      BY <2>1, <2>2, Steps
  <1>4. QED
    BY <1>1, <1>2, <1>3

\* What the server would carry out for a dialog that was opened while no form
\* was on its way is what the user was shown: modal_form_submit takes the url
\* of the last click and the form of the last answer, and these are the same.
THEOREM DialogSavesItsRecord == Spec => []SavesOwnRecord
  <1>1. Types /\ UrlOK /\ [Next]_vars => Types' /\ UrlOK'
    BY TypesStep, UrlStep
  <1>2. Init => Types /\ UrlOK
    BY TypesInit, UrlInit DEF Init
  <1>3. Types /\ UrlOK => SavesOwnRecord
    BY UrlImplies
  <1>4. QED
    BY <1>1, <1>2, <1>3, PTL DEF Spec

-----------------------------------------------------------------------------
(* The form tells the truth *)

\* Since the last save was sent with nothing open, no earlier one has been
\* touched: the server has its data once it is done with it, and its answer, if
\* it has come, is the one that the page shows.
TruthOK ==
    puts # <<>> /\ puts[Len(puts)].alone =>
        /\ \A i \in 1 .. Len(puts) - 1 : ~Open(i)
        /\ puts[Len(puts)].server = "done" => stored = puts[Len(puts)].value
        /\ ~puts[Len(puts)].waiting /\ success => puts[Len(puts)].server = "done" /\ ~danger

\* Every step keeps the messages of the form true.
LEMMA TruthStep ==
    ASSUME Types, TruthOK, [Next]_vars
    PROVE  TruthOK'
  <1>0. /\ puts \in Seq(PutRequest) /\ Len(puts) \in Nat /\ DOMAIN puts = 1 .. Len(puts)
        /\ (puts # <<>> => Len(puts) \in Nat \ {0}) /\ PageTypeOK /\ FormTypes
    BY LenProperties, EmptySeq DEF Types, ModalTypes, FormTypes
  <1>1. CASE FormSubmit
    <2>1. /\ Len(puts') = Len(puts) + 1 /\ DOMAIN puts' = 1 .. Len(puts) + 1
          /\ \A i \in DOMAIN puts : puts'[i] = puts[i]
          /\ puts'[Len(puts')] = Putting
      BY <1>0, <1>1, SubmitPuts
    <2>2. Putting.server = "sent" /\ Putting.waiting = TRUE /\ Putting.alone = NothingOpen
      BY DEF Putting
    <2>3. ASSUME NothingOpen, NEW i \in 1 .. Len(puts') - 1 PROVE ~Open(i)'
      <3>1. i \in DOMAIN puts
        BY <1>0, <2>1
      <3>2. QED
        BY <2>1, <2>3, <3>1 DEF NothingOpen, Open
    <2>4. QED
      BY <2>1, <2>2, <2>3 DEF TruthOK
  <1>2. ASSUME NEW i \in DOMAIN puts, PutServe(i) \/ PutSaved(i) \/ PutRefused(i) \/ PutLost(i)
        PROVE  TruthOK'
    <2> DEFINE n == Len(puts)
    <2>1. /\ Len(puts') = n /\ puts[i] \in PutRequest
          /\ puts'[i].value = puts[i].value /\ puts'[i].alone = puts[i].alone
          /\ \A j \in DOMAIN puts : j # i => puts'[j] = puts[j]
          /\ Open(i)
      BY <1>0, <1>2, PutSteps
    <2>2. \/ /\ PutServe(i) /\ puts'[i].waiting = puts[i].waiting
             /\ \/ puts'[i].server = "done" /\ stored' = puts[i].value
                \/ puts'[i].server = "refused" /\ stored' = stored
             /\ success' = success /\ danger' = danger
          \/ /\ puts'[i].server = puts[i].server /\ puts'[i].waiting = FALSE /\ stored' = stored
             /\ \/ success' = FALSE
                \/ success' = TRUE /\ danger' = FALSE /\ puts[i].server = "done"
      BY <1>0, <1>2, PutSteps
    <2>3. PutServe(i) => puts[i].server = "sent"
      BY DEF PutServe
    <2> SUFFICES ASSUME puts'[n].alone
                 PROVE  /\ \A j \in 1 .. n - 1 : ~Open(j)'
                        /\ puts'[n].server = "done" => stored' = puts'[n].value
                        /\ ~puts'[n].waiting /\ success' => puts'[n].server = "done" /\ ~danger'
      BY <2>1 DEF TruthOK
    <2>4. n \in DOMAIN puts /\ puts # <<>>
      BY <1>0
    <2>5. puts[n].alone
      BY <2>1, <2>4
    <2>6. /\ \A j \in 1 .. n - 1 : ~Open(j)
          /\ puts[n].server = "done" => stored = puts[n].value
          /\ ~puts[n].waiting /\ success => puts[n].server = "done" /\ ~danger
      BY <2>4, <2>5 DEF TruthOK
    <2>7. i = n
      BY <1>0, <2>1, <2>6
    <2>8. \A j \in 1 .. n - 1 : ~Open(j)'
      BY <1>0, <2>1, <2>6, <2>7 DEF Open
    <2>9. QED
      BY <2>1, <2>2, <2>3, <2>6, <2>7, <2>8
  <1>3. CASE UNCHANGED <<puts, stored, success, danger>>
    BY <1>3 DEF TruthOK, Open
  <1>4. \/ FormSubmit \/ UNCHANGED <<puts, stored, success, danger>>
        \/ \E i \in DOMAIN puts : PutServe(i) \/ PutSaved(i) \/ PutRefused(i) \/ PutLost(i)
    <2>1. UNCHANGED formVars => UNCHANGED <<puts, stored, success, danger>>
      BY DEF formVars, alertVars
    <2>2. ASSUME FormUse \/ FormAnswer
          PROVE  \/ FormSubmit \/ UNCHANGED <<puts, stored, success, danger>>
                 \/ \E i \in DOMAIN puts : PutServe(i) \/ PutSaved(i) \/ PutRefused(i) \/ PutLost(i)
      BY <2>2 DEF FormUse, FormAnswer, Type, CodeGenerate, CodeArrives, alertVars
    <2>3. Ready \/ UNCHANGED vars => UNCHANGED formVars
      BY DEF Ready, vars
    <2>4. \A i \in DOMAIN saves : Saved(i) => UNCHANGED formVars
      BY DEF Saved
    <2>5. QED
      BY <2>1, <2>2, <2>3, <2>4, Steps
  <1>5. QED
    BY <1>1, <1>2, <1>3, <1>4

\* The invariant gives the property the run checks.
LEMMA TruthImplies == Types /\ TruthOK => FormTellsTheTruth
  <1> SUFFICES ASSUME Types, TruthOK, puts # <<>>, \A i \in DOMAIN puts : ~Open(i),
                      puts[Len(puts)].alone
               PROVE  /\ success => puts[Len(puts)].server = "done" /\ stored = puts[Len(puts)].value /\ ~danger
                      /\ puts[Len(puts)].server = "refused" => ~success
    BY DEF FormTellsTheTruth
  <1>1. Len(puts) \in DOMAIN puts
    BY LenProperties, EmptySeq DEF Types, FormTypes
  <1>2. ~puts[Len(puts)].waiting
    BY <1>1 DEF Open
  <1>3. QED
    BY <1>2 DEF TruthOK

\* When a save was the only one under way and has come to its end, its alert is
\* right: success says that the server has what was sent (form_on_page_submit).
THEOREM AlertsAreTrue == Spec => []FormTellsTheTruth
  <1>1. Types /\ TruthOK /\ [Next]_vars => Types' /\ TruthOK'
    BY TypesStep, TruthStep
  <1>2. Init => Types /\ TruthOK
    BY TypesInit DEF Init, FormInit, TruthOK
  <1>3. QED
    BY <1>1, <1>2, TruthImplies, PTL DEF Spec

-----------------------------------------------------------------------------
(* The block shows what was saved from it *)

BlockSaves == {i \in DOMAIN saves : saves[i].state = "saved" /\ saves[i].block}

\* A load that is the only one was asked for after the last success, so that
\* the server knows of all of them; a block that it filled shows them.
ShownOK ==
    /\ \A k \in DOMAIN fetches : fetches[k].alone =>
          Len(fetches) = 1 /\ (fetches[k].served => BlockSaves \subseteq fetches[k].shows)
    /\ fetches = <<>> /\ block.sound => BlockSaves \subseteq block.shows

\* The success of a save from a block is the only step that adds to them.
LEMMA BlockSavesStay ==
    ASSUME ModalTypes,
           Dialog \/ \E i \in DOMAIN saves : Saved(i) /\ ~saves[i].block
    PROVE  BlockSaves' = BlockSaves
  <1>0. saves \in Seq(Save) /\ DOMAIN saves = 1 .. Len(saves) /\ Len(saves) \in Nat
    BY LenProperties DEF ModalTypes
  <1>1. CASE ModalSubmit
    <2>1. /\ DOMAIN saves' = 1 .. Len(saves) + 1
          /\ \A i \in DOMAIN saves : saves'[i] = saves[i]
          /\ saves'[Len(saves) + 1] = Sending
      BY <1>1, SubmitAdds
    <2>2. Sending.state = "sent"
      BY DEF Sending
    <2>3. \A i \in 1 .. Len(saves) + 1 : i \in 1 .. Len(saves) \/ i = Len(saves) + 1
      BY <1>0
    <2>4. \A i \in 1 .. Len(saves) : i \in 1 .. Len(saves) + 1
      BY <1>0
    <2>5. QED
      BY <1>0, <2>1, <2>2, <2>3, <2>4 DEF BlockSaves
  <1>2. ASSUME NEW i \in DOMAIN saves,
               \/ ModalServe(i) \/ ModalRefused(i) \/ ModalLost(i)
               \/ ModalSaved(i) /\ ~saves[i].block
        PROVE  BlockSaves' = BlockSaves
    <2>1. PICK state \in {"sent", "done", "refused", "saved", "failed", "lost"} :
              /\ SetState(i, state) /\ saves[i].state # "saved"
              /\ state = "saved" => ~saves[i].block
      BY <1>2 DEF ModalServe, ModalSaved, ModalRefused, ModalLost
    <2>2. /\ DOMAIN saves' = DOMAIN saves /\ saves'[i] = [saves[i] EXCEPT !.state = state]
          /\ \A j \in DOMAIN saves : j # i => saves'[j] = saves[j]
      BY <2>1, StateSet
    <2>3. saves[i] \in Save
      BY <1>0, ElementOfSeq
    <2>4. saves'[i].state = state /\ saves'[i].block = saves[i].block
      BY <2>2, <2>3 DEF Save
    <2>5. i \notin BlockSaves /\ i \notin BlockSaves'
      BY <2>1, <2>4 DEF BlockSaves
    <2>6. \A j \in DOMAIN saves : j # i => (j \in BlockSaves' <=> j \in BlockSaves)
      BY <2>2 DEF BlockSaves
    <2>7. BlockSaves \subseteq DOMAIN saves /\ BlockSaves' \subseteq DOMAIN saves
      BY <2>2 DEF BlockSaves
    <2>8. QED
      BY <2>5, <2>6, <2>7
  <1>3. CASE UNCHANGED saves
    BY <1>3 DEF BlockSaves
  <1>4. Dialog => \/ ModalSubmit \/ UNCHANGED saves
                  \/ \E i \in DOMAIN saves : ModalServe(i) \/ ModalRefused(i) \/ ModalLost(i)
    BY DEF Dialog, ModalOpen, FormLoaded, FormFailed, Faded, Close
  <1>5. QED
    BY <1>1, <1>2, <1>3, <1>4 DEF Saved

\* Every step keeps a block as new as the saves it has to show.
LEMMA ShownStep ==
    ASSUME Types, ShownOK, [Next]_vars
    PROVE  ShownOK'
  <1>0. ModalTypes /\ BlockTypes /\ fetches \in Seq(Load) /\ DOMAIN fetches = 1 .. Len(fetches)
    BY LenProperties DEF Types, BlockTypes
  <1>1. ASSUME fetches' = Fetch PROVE ShownOK'
    BY <1>0, <1>1, LoadAdded DEF ShownOK
  <1>2. ASSUME UNCHANGED fetches, UNCHANGED block, BlockSaves' = BlockSaves PROVE ShownOK'
    BY <1>2 DEF ShownOK
  <1>3. UNCHANGED saves => BlockSaves' = BlockSaves
    BY DEF BlockSaves
  <1>4. CASE Ready
    <2>1. UNCHANGED <<saves, block>> /\ (fetches' = Fetch \/ UNCHANGED fetches)
      BY <1>4 DEF Ready, modalVars
    <2>2. QED
      BY <1>1, <1>2, <1>3, <2>1
  <1>5. CASE (FormUse \/ FormAnswer) /\ UNCHANGED <<modalVars, blockVars>>
    BY <1>2, <1>3, <1>5 DEF modalVars, blockVars
  <1>6. CASE Dialog /\ UNCHANGED <<formVars, blockVars>>
    BY <1>0, <1>2, <1>6, BlockSavesStay DEF blockVars
  <1>7. ASSUME NEW i \in DOMAIN saves, Saved(i) PROVE ShownOK'
    <2>1. CASE saves[i].block
      BY <1>1, <1>7, <2>1 DEF Saved
    <2>2. CASE ~saves[i].block
      BY <1>0, <1>2, <1>7, <2>2, BlockSavesStay DEF Saved
    <2>3. QED
      BY <2>1, <2>2
  <1>8. ASSUME NEW k \in DOMAIN fetches, Loading(k), UNCHANGED <<formVars, modalVars>>
        PROVE  ShownOK'
    <2>0. BlockSaves' = BlockSaves /\ fetches[k] \in Load
      BY <1>0, <1>3, <1>8, ElementOfSeq DEF modalVars
    <2>1. CASE FetchServe(k, Performed)
      <3> DEFINE load == [fetches[k] EXCEPT !.served = TRUE, !.shows = Performed]
      <3>1. fetches' = [fetches EXCEPT ![k] = load] /\ UNCHANGED block
        BY <2>1 DEF FetchServe
      <3>2. Performed \subseteq Nat
        BY <1>0, LenProperties DEF Performed, ModalTypes
      <3>3. load \in Load /\ load.alone = fetches[k].alone /\ load.shows = Performed
        BY <2>0, <3>2 DEF Load
      <3> HIDE DEF load
      <3>4. /\ Len(fetches') = Len(fetches) /\ DOMAIN fetches' = DOMAIN fetches /\ fetches'[k] = load
            /\ fetches' \in Seq(Load)
            /\ \A j \in DOMAIN fetches : j # k => fetches'[j] = fetches[j]
        BY <1>0, <3>1, <3>3, OneChanged
      <3>5. BlockSaves \subseteq Performed
        BY DEF BlockSaves, Performed
      <3>6. fetches' # <<>>
        BY <1>0, <3>4
      <3>7. QED
        BY <2>0, <3>3, <3>4, <3>5, <3>6 DEF ShownOK
    <2>2. CASE FetchAnswer(k) \/ FetchFail(k)
      <3>1. fetches' = RemoveAt(fetches, k)
        BY <2>2 DEF FetchAnswer, FetchFail
      <3>2. /\ fetches' \in Seq(Load) /\ Len(fetches') = Len(fetches) - 1
            /\ \A j \in DOMAIN fetches' : \E i \in DOMAIN fetches : fetches'[j] = fetches[i]
        BY <1>0, <3>1, LoadRemoved
      <3>3. DOMAIN fetches' = 1 .. Len(fetches) - 1
        BY <3>2, LenProperties
      <3>4. \A j \in DOMAIN fetches' : ~fetches'[j].alone
        <4>1. ASSUME NEW j \in DOMAIN fetches', fetches'[j].alone PROVE FALSE
          <5>1. Len(fetches) = 1
            BY <3>2, <4>1 DEF ShownOK
          <5>2. QED
            BY <3>3, <5>1
        <4>2. QED
          BY <4>1
      <3>5. block'.sound => BlockSaves \subseteq block'.shows
        <4>1. CASE FetchAnswer(k)
          <5>1. block'.sound = fetches[k].alone /\ block'.shows = fetches[k].shows /\ fetches[k].served
            BY <4>1 DEF FetchAnswer
          <5>2. QED
            BY <5>1 DEF ShownOK
        <4>2. CASE FetchFail(k)
          BY <1>0, <4>2 DEF FetchFail, BlockTypes, Block
        <4>3. QED
          BY <2>2, <4>1, <4>2
      <3>6. QED
        BY <2>0, <3>4, <3>5 DEF ShownOK
    <2>3. QED
      BY <1>8, <2>1, <2>2 DEF Loading
  <1>9. CASE UNCHANGED vars
    BY <1>2, <1>3, <1>9 DEF vars, modalVars, blockVars
  <1>10. QED
    BY <1>4, <1>5, <1>6, <1>7, <1>8, <1>9, Steps

\* Whoever has saved from the block sees it there, once the load that follows
\* was the only one and has succeeded: the load is asked for at the success, so
\* that the server renders the block after it has saved.
THEOREM BlockIsUpToDate == Spec => []BlockShowsSaves
  <1>1. Types /\ ShownOK /\ [Next]_vars => Types' /\ ShownOK'
    BY TypesStep, ShownStep
  <1>2. Init => Types /\ ShownOK
    BY TypesInit DEF Init, BlocksInit, ShownOK
  <1>3. ShownOK => BlockShowsSaves
    BY DEF ShownOK, BlockSaves, BlockShowsSaves
  <1>4. QED
    BY <1>1, <1>2, <1>3, PTL DEF Spec
=============================================================================
