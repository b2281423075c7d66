-------------------------- MODULE SignInPageProofs --------------------------
(***************************************************************************)
(* What holds of SignInPage for every set of addresses and digits, every   *)
(* number of fields, keys and requests, and whatever is answered.          *)
(***************************************************************************)
EXTENDS SignInPage, SequenceTheorems, TLAPS

-----------------------------------------------------------------------------
(* Types *)

PageTypes ==
    /\ known \in BOOLEAN /\ email \in Emails /\ invalid \in BOOLEAN
    /\ asked \in BOOLEAN /\ error \in BOOLEAN /\ left \in BOOLEAN

\* A key is only ever pressed while a field has the focus, and no field loses
\* it to nothing.
CodeTypes ==
    /\ fields \in [Fields -> Digits \union {NoDigit}]
    /\ focus \in 0 .. CodeLength /\ selected \in BOOLEAN
    /\ down \in Seq(Keys) /\ (down # <<>> => focus # 0)
    /\ keys \in 0 .. MaxKeys /\ typed \in Seq(Digits) /\ only \in BOOLEAN /\ single \in BOOLEAN

RequestTypes == waiting \in [Kinds -> Nat] /\ sent \in 0 .. MaxRequests

Types == PageTypes /\ CodeTypes /\ RequestTypes

\* The invariant proved is at least the type invariant the run checks.
LEMMA TypesImply == Types => TypeOK
  BY DEF TypeOK, Types, PageTypes, CodeTypes, RequestTypes

-----------------------------------------------------------------------------
(* The steps *)

\* What the user does in the fields of the code, and before
Input ==
    \/ Fingerprint
    \/ \E e \in Emails : EditEmail(e)
    \/ \E k \in Keys : KeyDown(k)
    \/ \E i \in DOMAIN down : KeyUp(i)
    \/ \E f \in Fields : ClickField(f)
    \/ RequestInvalid

\* The clicks on the two buttons, and what comes back
Exchange ==
    \/ RequestCode \/ SignIn
    \/ CodeSent \/ SignedIn
    \/ \E k \in Kinds : Refused(k) \/ Failed(k)

\* These are all the steps.
LEMMA NextIs == Next <=> Input \/ Exchange
  BY DEF Next, Input, Exchange

\* There is a field.
LEMMA Bounds == CodeLength \in Nat /\ CodeLength > 0 /\ MaxKeys \in Nat /\ MaxRequests \in Nat
  BY SignInAssumption

\* A key that is released moves the focus to a field or leaves it.
LEMMA NextFieldIs ==
    ASSUME NEW f \in Fields, NEW k
    PROVE  NextField(f, k) \in 0 .. CodeLength
  BY Bounds DEF NextField, Fields

\* What is pressed when one of the keys is released
LEMMA Released ==
    ASSUME down \in Seq(Keys), NEW i \in DOMAIN down,
           down' = [j \in 1 .. Len(down) - 1 |-> IF j < i THEN down[j] ELSE down[j + 1]]
    PROVE  down' \in Seq(Keys) /\ down # <<>>
  <1>1. Len(down) \in Nat /\ DOMAIN down = 1 .. Len(down) /\ Len(down) > 0
    BY LenProperties
  <1>2. \A j \in 1 .. Len(down) : down[j] \in Keys
    BY ElementOfSeq
  <1>3. down' \in [1 .. Len(down) - 1 -> Keys]
    BY <1>1, <1>2
  <1>4. Len(down) - 1 \in Nat
    BY <1>1
  <1>5. QED
    BY <1>1, <1>3, <1>4, SeqDef

\* The steps of the user keep the types.
LEMMA InputTypes ==
    ASSUME Types, Input PROVE PageTypes' /\ CodeTypes'
  <1> USE Bounds
  <1>1. CASE Fingerprint
    BY <1>1 DEF Fingerprint, codeVars, histVars, pageVars, Types, PageTypes, CodeTypes
  <1>2. ASSUME NEW e \in Emails, EditEmail(e) PROVE PageTypes' /\ CodeTypes'
    BY <1>2 DEF EditEmail, codeVars, histVars, pageVars, Types, PageTypes, CodeTypes
  <1>3. ASSUME NEW k \in Keys, KeyDown(k) PROVE PageTypes' /\ CodeTypes'
    <2>1. PageTypes' /\ UNCHANGED focus /\ focus # 0
      BY <1>3 DEF KeyDown, deviceVars, pageVars, Types, PageTypes
    <2>2. focus \in Fields
      BY <2>1 DEF Types, CodeTypes, Fields
    <2>3. fields' \in [Fields -> Digits \union {NoDigit}]
      BY <1>3, <2>2 DEF KeyDown, Types, CodeTypes
    <2>4. down' \in Seq(Keys)
      BY <1>3 DEF KeyDown, Types, CodeTypes
    <2>5. selected' \in BOOLEAN /\ keys' \in 0 .. MaxKeys /\ only' \in BOOLEAN /\ single' \in BOOLEAN
      <3>1. selected' = FALSE /\ keys < MaxKeys /\ keys' = keys + 1 /\ keys \in 0 .. MaxKeys
        BY <1>3 DEF KeyDown, Types, CodeTypes
      <3>2. only' = (only /\ k \in Digits) /\ single' = (single /\ down = <<>>)
        BY <1>3 DEF KeyDown
      <3>3. only' \in BOOLEAN /\ single' \in BOOLEAN
        <4>1. (only /\ k \in Digits) \in BOOLEAN /\ (single /\ down = <<>>) \in BOOLEAN
          OBVIOUS
        <4>2. QED
          BY <3>2, <4>1, Zenon
      <3>4. keys' \in 0 .. MaxKeys
        BY <3>1
      <3>5. QED
        BY <3>1, <3>3, <3>4, Zenon
    <2>6. typed' \in Seq(Digits)
      <3>1. only' => k \in Digits
        BY <1>3 DEF KeyDown
      <3>2. typed \in Seq(Digits) /\ typed' = IF only' THEN Append(typed, k) ELSE <<>>
        BY <1>3 DEF KeyDown, Types, CodeTypes
      <3>3. k \in Digits => Append(typed, k) \in Seq(Digits)
        BY <3>2, AppendProperties
      <3>4. <<>> \in Seq(Digits)
        OBVIOUS
      <3>5. QED
        BY <3>1, <3>2, <3>3, <3>4
    <2>7. QED
      BY <2>1, <2>3, <2>4, <2>5, <2>6 DEF Types, CodeTypes
  <1>4. ASSUME NEW i \in DOMAIN down, KeyUp(i) PROVE PageTypes' /\ CodeTypes'
    <2>1. /\ PageTypes' /\ UNCHANGED <<fields, keys, typed, only, single>>
          /\ down' = [j \in 1 .. Len(down) - 1 |-> IF j < i THEN down[j] ELSE down[j + 1]]
          /\ LET next == NextField(focus, down[i])
             IN IF next = 0 THEN UNCHANGED <<focus, selected>> ELSE focus' = next /\ selected' = TRUE
      BY <1>4 DEF KeyUp, histVars, deviceVars, pageVars, Types, PageTypes
    <2>2. down' \in Seq(Keys) /\ down # <<>>
      BY <2>1, Released DEF Types, CodeTypes
    <2>3. focus \in Fields
      BY <2>2 DEF Types, CodeTypes, Fields
    <2>4. NextField(focus, down[i]) \in 0 .. CodeLength
      BY <2>3, NextFieldIs
    <2>5. focus' \in 0 .. CodeLength /\ focus' # 0 /\ selected' \in BOOLEAN
      <3>1. CASE NextField(focus, down[i]) = 0
        BY <2>1, <2>3, <3>1 DEF Types, CodeTypes, Fields
      <3>2. CASE NextField(focus, down[i]) # 0
        BY <2>1, <2>4, <3>2
      <3>3. QED
        BY <3>1, <3>2
    <2>6. QED
      BY <2>1, <2>2, <2>5 DEF Types, CodeTypes
  <1>5. ASSUME NEW f \in Fields, ClickField(f) PROVE PageTypes' /\ CodeTypes'
    <2>1. PageTypes' /\ UNCHANGED <<fields, down, single>>
      BY <1>5 DEF ClickField, deviceVars, pageVars, Types, PageTypes
    <2>2. focus' \in 0 .. CodeLength /\ focus' # 0 /\ selected' \in BOOLEAN /\ only' \in BOOLEAN
      <3>1. focus' = f /\ selected' = FALSE /\ only' = FALSE
        BY <1>5 DEF ClickField
      <3>2. f \in 1 .. CodeLength
        BY DEF Fields
      <3>3. f \in 0 .. CodeLength /\ f # 0
        BY <3>2
      <3>4. QED
        BY <3>1, <3>3, Zenon
    <2>3. keys' \in 0 .. MaxKeys
      BY <1>5 DEF ClickField, Types, CodeTypes
    <2>4. typed' \in Seq(Digits)
      BY <1>5 DEF ClickField
    <2>5. QED
      BY <2>1, <2>2, <2>3, <2>4 DEF Types, CodeTypes
  <1>6. CASE RequestInvalid
    BY <1>6 DEF RequestInvalid, codeVars, histVars, pageVars, Types, PageTypes, CodeTypes
  <1>7. QED
    BY <1>1, <1>2, <1>3, <1>4, <1>5, <1>6 DEF Input

\* The steps of the user leave the requests alone.
LEMMA InputOnly ==
    ASSUME Input PROVE UNCHANGED requestVars
  BY DEF Input, Fingerprint, EditEmail, KeyDown, KeyUp, ClickField, RequestInvalid

\* A request that is sent, or answered, is counted.
LEMMA Counted ==
    ASSUME RequestTypes, NEW k \in Kinds, Send(k) \/ Answer(k)
    PROVE  RequestTypes'
  <1>1. waiting[k] \in Nat
    BY DEF RequestTypes
  <1>2. CASE Send(k)
    BY <1>1, <1>2, Bounds DEF Send, RequestTypes
  <1>3. CASE Answer(k)
    BY <1>1, <1>3 DEF Answer, RequestTypes
  <1>4. QED
    BY <1>2, <1>3

\* The two buttons and the answers keep the types.
LEMMA ExchangeTypes ==
    ASSUME Types, Exchange PROVE Types'
  <1>1. ASSUME NEW k \in Kinds, Send(k) \/ Answer(k) PROVE RequestTypes'
    BY <1>1, Counted DEF Types
  <1>2. CASE RequestCode
    <2>1. RequestTypes'
      BY <1>1, <1>2 DEF RequestCode, Kinds
    <2>2. PageTypes' /\ CodeTypes'
      BY <1>2 DEF RequestCode, codeVars, histVars, pageVars, Types, PageTypes, CodeTypes
    <2>3. QED
      BY <2>1, <2>2 DEF Types
  <1>3. CASE SignIn
    <2>1. RequestTypes'
      BY <1>1, <1>3, Zenon DEF SignIn, Kinds
    <2>2. PageTypes' /\ CodeTypes'
      BY <1>3 DEF SignIn, deviceVars, codeVars, histVars, pageVars, Types, PageTypes, CodeTypes
    <2>3. QED
      BY <2>1, <2>2 DEF Types
  <1>4. CASE CodeSent
    <2>1. RequestTypes'
      BY <1>1, <1>4, Zenon DEF CodeSent, Kinds
    <2>2. /\ PageTypes' /\ UNCHANGED <<fields, down, keys, single>>
          /\ focus' = 1 /\ selected' = (selected /\ focus = 1)
          /\ only' = (only /\ typed = <<>>) /\ typed' = <<>>
      BY <1>4 DEF CodeSent, deviceVars, Types, PageTypes
    <2>3. selected' \in BOOLEAN /\ only' \in BOOLEAN
      <3>1. (selected /\ focus = 1) \in BOOLEAN /\ (only /\ typed = <<>>) \in BOOLEAN
        OBVIOUS
      <3>2. QED
        BY <2>2, <3>1, Zenon
    <2>4. focus' \in 0 .. CodeLength /\ focus' # 0
      BY <2>2, Bounds
    <2>5. typed' \in Seq(Digits)
      BY <2>2
    <2>6. QED
      BY <2>1, <2>2, <2>3, <2>4, <2>5 DEF Types, CodeTypes
  <1>5. CASE SignedIn
    <2>1. RequestTypes'
      BY <1>1, <1>5, Zenon DEF SignedIn, Kinds
    <2>2. PageTypes' /\ CodeTypes'
      BY <1>5 DEF SignedIn, deviceVars, codeVars, histVars, Types, PageTypes, CodeTypes
    <2>3. QED
      BY <2>1, <2>2 DEF Types
  <1>6. ASSUME NEW k \in Kinds, Refused(k) \/ Failed(k) PROVE Types'
    <2>1. RequestTypes'
      BY <1>1, <1>6 DEF Refused, Failed
    <2>2. PageTypes' /\ CodeTypes'
      BY <1>6 DEF Refused, Failed, deviceVars, codeVars, histVars, pageVars, Types, PageTypes, CodeTypes
    <2>3. QED
      BY <2>1, <2>2 DEF Types
  <1>7. QED
    BY <1>2, <1>3, <1>4, <1>5, <1>6 DEF Exchange

\* Every step keeps the types.
LEMMA TypesStep ==
    ASSUME Types, [Next]_vars PROVE Types'
  <1>1. CASE UNCHANGED vars
    BY <1>1 DEF vars, deviceVars, codeVars, histVars, pageVars, requestVars,
                Types, PageTypes, CodeTypes, RequestTypes
  <1>2. CASE Input
    BY <1>2, InputTypes, InputOnly DEF requestVars, Types, RequestTypes
  <1>3. CASE Exchange
    BY <1>3, ExchangeTypes
  <1>4. QED
    BY <1>1, <1>2, <1>3, NextIs

\* The page as it is served has the right types.
LEMMA TypesInit == Init => Types
  <1> SUFFICES ASSUME Init PROVE Types
    OBVIOUS
  <1>1. PageTypes
    BY SignInAssumption DEF Init, PageTypes
  <1>2. CodeTypes
    <2>1. <<>> \in Seq(Keys) /\ <<>> \in Seq(Digits)
      OBVIOUS
    <2>2. [f \in Fields |-> NoDigit] \in [Fields -> Digits \union {NoDigit}]
      OBVIOUS
    <2>3. /\ fields \in [Fields -> Digits \union {NoDigit}]
          /\ focus = 0 /\ selected = FALSE /\ down = <<>> /\ keys = 0 /\ typed = <<>>
          /\ only = TRUE /\ single = TRUE
      BY <2>2 DEF Init
    <2>4. 0 \in 0 .. CodeLength /\ 0 \in 0 .. MaxKeys
      BY Bounds
    <2>5. QED
      BY <2>1, <2>3, <2>4, Zenon DEF CodeTypes
  <1>3. RequestTypes
    BY Bounds DEF Init, RequestTypes
  <1>4. QED
    BY <1>1, <1>2, <1>3 DEF Types

\* Every variable of the page keeps its type: the focus is on a field of the code or nowhere, whatever keys overlap.
THEOREM TypeCorrect == Spec => []TypeOK
  <1>1. Types /\ [Next]_vars => Types'
    BY TypesStep
  <1>2. Spec => []Types
    BY <1>1, TypesInit, PTL DEF Spec
  <1>3. QED
    BY <1>2, TypesImply, PTL

-----------------------------------------------------------------------------
(* The fields of the code *)

\* As long as only digits were typed: the digits lie in the fields up to the
\* one that has the focus, in the order in which they were typed.
OrderOK ==
    only =>
        /\ focus = 0 => typed = <<>>
        /\ typed = <<>> => Filled = {} /\ down = <<>>
        /\ Filled \subseteq 1 .. focus
        /\ \A i \in DOMAIN down : down[i] \in Digits
        /\ \E at \in [Filled -> DOMAIN typed] :
              /\ \A f \in Filled : fields[f] = typed[at[f]]
              /\ \A f, g \in Filled : f < g => at[f] < at[g]

\* The field that the next digit goes to, or that holds the one whose key is
\* down; the last one if there are more digits than fields
Place == IF Len(typed) + 1 - Len(down) <= CodeLength
         THEN Len(typed) + 1 - Len(down) ELSE CodeLength

\* If no two keys were down together, no field is left out, and what is selected
\* is an empty field.
SingleOK ==
    only /\ single =>
        /\ Len(down) <= 1
        /\ Filled = {f \in Fields : f <= Len(typed)}
        /\ \A f \in Filled : fields[f] = typed[f]
        /\ focus # 0 => focus = Place
        /\ selected => focus \notin Filled

\* Together they say more than the property.
LEMMA TypedImplies == OrderOK /\ SingleOK => CodeAsTyped
  BY DEF OrderOK, SingleOK, CodeAsTyped

\* With nothing typed and no key down, both hold, wherever the focus is.
LEMMA NothingTyped ==
    ASSUME Types, fields = [f \in Fields |-> NoDigit], typed = <<>>, down = <<>>, focus \in {0, 1},
           selected = FALSE
    PROVE  OrderOK /\ SingleOK
  <1>1. Filled = {}
    BY DEF Filled
  <1>2. Len(down) = 0 /\ Len(typed) = 0 /\ DOMAIN down = {} /\ DOMAIN typed = {}
    OBVIOUS
  <1>3. {f \in Fields : f <= Len(typed)} = {}
    BY <1>2, Bounds DEF Fields
  <1>4. Place = 1
    BY <1>2, Bounds DEF Place
  <1>5. \E at \in [Filled -> DOMAIN typed] :
           /\ \A f \in Filled : fields[f] = typed[at[f]]
           /\ \A f, g \in Filled : f < g => at[f] < at[g]
    <2>1. PICK at : at = [f \in {} |-> 0]
      OBVIOUS
    <2>2. at \in [{} -> DOMAIN typed]
      BY <2>1
    <2>3. QED
      BY <1>1, <2>2
  <1>6. OrderOK
    BY <1>1, <1>2, <1>5 DEF OrderOK
  <1>7. SingleOK
    BY <1>1, <1>2, <1>3, <1>4 DEF SingleOK
  <1>8. QED
    BY <1>6, <1>7

\* What neither presses nor releases a key and leaves the focus where it is
LEMMA FieldsKept ==
    ASSUME OrderOK, SingleOK, UNCHANGED codeVars
    PROVE  OrderOK' /\ SingleOK'
  <1>1. UNCHANGED <<fields, focus, selected, down, typed, only, single>>
    BY DEF codeVars, histVars
  <1>2. Filled' = Filled
    BY <1>1 DEF Filled
  <1>3. Place' = Place
    BY <1>1 DEF Place
  <1>4. OrderOK'
    BY <1>1, <1>2 DEF OrderOK
  <1>5. SingleOK'
    BY <1>1, <1>2, <1>3 DEF SingleOK
  <1>6. QED
    BY <1>4, <1>5

\* A digit that is pressed goes into the field that has the focus, or is lost.
LEMMA DigitPressed ==
    ASSUME Types, NEW k \in Digits, KeyDown(k)
    PROVE  /\ focus \in Fields /\ k # NoDigit
           /\ \/ /\ selected \/ focus \notin Filled
                 /\ Filled' = Filled \union {focus} /\ fields'[focus] = k
                 /\ \A f \in Filled \ {focus} : fields'[f] = fields[f]
              \/ /\ ~selected /\ focus \in Filled
                 /\ Filled' = Filled /\ fields' = fields
  <1>1. focus \in Fields /\ k # NoDigit
    BY SignInAssumption DEF KeyDown, Types, CodeTypes, Fields
  <1>2. fields \in [Fields -> Digits \union {NoDigit}]
    BY DEF Types, CodeTypes
  <1>3. CASE selected \/ fields[focus] = NoDigit
    <2>1. fields' = [fields EXCEPT ![focus] = k]
      BY <1>3 DEF KeyDown
    <2>2. /\ \A f \in Fields : fields'[f] = IF f = focus THEN k ELSE fields[f]
          /\ focus \in Fields
      BY <1>1, <1>2, <2>1
    <2>3. Filled' = Filled \union {focus}
      BY <1>1, <2>2 DEF Filled
    <2>4. QED
      BY <1>1, <1>3, <2>2, <2>3 DEF Filled
  <1>4. CASE ~(selected \/ fields[focus] = NoDigit)
    <2>1. fields' = fields
      BY <1>4 DEF KeyDown
    <2>2. QED
      BY <1>1, <1>4, <2>1 DEF Filled
  <1>5. QED
    BY <1>3, <1>4

\* What is typed, and which keys are down, after a digit was pressed
LEMMA KeyAdded ==
    ASSUME Types, NEW k \in Digits, KeyDown(k), only
    PROVE  /\ Len(typed) \in Nat /\ typed' = Append(typed, k) /\ Len(typed') = Len(typed) + 1
           /\ DOMAIN typed = 1 .. Len(typed) /\ DOMAIN typed' = 1 .. Len(typed) + 1
           /\ typed'[Len(typed) + 1] = k /\ \A i \in 1 .. Len(typed) : typed'[i] = typed[i]
           /\ Len(down) \in Nat /\ Len(down') = Len(down) + 1
           /\ DOMAIN down = 1 .. Len(down) /\ DOMAIN down' = 1 .. Len(down) + 1
           /\ down'[Len(down) + 1] = k /\ \A i \in 1 .. Len(down) : down'[i] = down[i]
  <1>1. typed' = Append(typed, k) /\ down' = Append(down, k) /\ typed \in Seq(Digits) /\ down \in Seq(Keys)
        /\ k \in Keys
    BY DEF KeyDown, Types, CodeTypes, Keys
  <1>2. Len(typed) \in Nat /\ DOMAIN typed = 1 .. Len(typed) /\ Len(down) \in Nat /\ DOMAIN down = 1 .. Len(down)
    BY <1>1, LenProperties
  <1>3. PICK t : t = Append(typed, k)
    OBVIOUS
  <1>4. PICK d : d = Append(down, k)
    OBVIOUS
  <1>5. /\ t \in Seq(Digits) /\ Len(t) = Len(typed) + 1
        /\ \A i \in 1 .. Len(typed) : t[i] = typed[i]
        /\ t[Len(typed) + 1] = k
    BY <1>1, <1>2, <1>3, AppendProperties
  <1>6. /\ d \in Seq(Keys) /\ Len(d) = Len(down) + 1
        /\ \A i \in 1 .. Len(down) : d[i] = down[i]
        /\ d[Len(down) + 1] = k
    BY <1>1, <1>2, <1>4, AppendProperties
  <1>7. DOMAIN t = 1 .. Len(typed) + 1 /\ DOMAIN d = 1 .. Len(down) + 1
    BY <1>5, <1>6, LenProperties
  <1>8. QED
    BY <1>1, <1>2, <1>3, <1>4, <1>5, <1>6, <1>7

\* The last place, and those before it
LEMMA LastOne ==
    ASSUME NEW n \in Nat
    PROVE  \A j \in 1 .. n + 1 : j \in 1 .. n \/ j = n + 1
  OBVIOUS

\* A key that is pressed keeps the order: the new digit is the last that was
\* typed, and its field the last of those that are filled.
LEMMA PressedOrder ==
    ASSUME Types, OrderOK, NEW k \in Keys, KeyDown(k) PROVE OrderOK'
  <1> SUFFICES ASSUME only' PROVE OrderOK'
    BY DEF OrderOK
  <1>0. only /\ k \in Digits /\ focus' = focus /\ focus # 0
    BY DEF KeyDown
  <1>1. focus \in Fields /\ focus \in 1 .. CodeLength
    BY <1>0, DigitPressed DEF Fields
  <1>2. /\ Len(typed) \in Nat /\ DOMAIN typed = 1 .. Len(typed) /\ DOMAIN typed' = 1 .. Len(typed) + 1
        /\ typed'[Len(typed) + 1] = k /\ \A i \in 1 .. Len(typed) : typed'[i] = typed[i]
        /\ Len(down) \in Nat /\ DOMAIN down = 1 .. Len(down) /\ DOMAIN down' = 1 .. Len(down) + 1
        /\ down'[Len(down) + 1] = k /\ \A i \in 1 .. Len(down) : down'[i] = down[i]
        /\ Len(typed') = Len(typed) + 1
    BY <1>0, KeyAdded
  <1>3. typed' # <<>>
    BY <1>2
  <1>4. \A i \in DOMAIN down' : down'[i] \in Digits
    <2>1. \A i \in 1 .. Len(down) : down[i] \in Digits
      BY <1>0, <1>2 DEF OrderOK
    <2>2. QED
      BY <1>0, <1>2, <2>1, LastOne
  <1>5. Filled \subseteq 1 .. focus
    BY <1>0 DEF OrderOK
  <1>6. PICK at \in [Filled -> 1 .. Len(typed)] :
          /\ \A f \in Filled : fields[f] = typed[at[f]]
          /\ \A f, g \in Filled : f < g => at[f] < at[g]
    BY <1>0, <1>2 DEF OrderOK
  <1>7. CASE /\ Filled' = Filled \union {focus} /\ fields'[focus] = k
             /\ \A f \in Filled \ {focus} : fields'[f] = fields[f]
    <2> DEFINE new == [f \in Filled' |-> IF f = focus THEN Len(typed) + 1 ELSE at[f]]
    <2>1. new \in [Filled' -> 1 .. Len(typed) + 1]
      BY <1>2, <1>6, <1>7
    <2>2. \A f \in Filled' : fields'[f] = typed'[new[f]]
      <3> SUFFICES ASSUME NEW f \in Filled' PROVE fields'[f] = typed'[new[f]]
        OBVIOUS
      <3>1. CASE f = focus
        BY <1>2, <1>7, <3>1
      <3>2. CASE f # focus
        <4>1. f \in Filled /\ new[f] = at[f] /\ at[f] \in 1 .. Len(typed)
          BY <1>6, <1>7, <3>2
        <4>2. QED
          BY <1>2, <1>6, <1>7, <3>2, <4>1
      <3>3. QED
        BY <3>1, <3>2
    <2>3. \A f, g \in Filled' : f < g => new[f] < new[g]
      <3> SUFFICES ASSUME NEW f \in Filled', NEW g \in Filled', f < g PROVE new[f] < new[g]
        OBVIOUS
      <3>1. f \in 1 .. focus /\ g \in 1 .. focus
        BY <1>1, <1>5, <1>7
      <3>2. f # focus /\ f \in Filled /\ at[f] \in 1 .. Len(typed) /\ new[f] = at[f]
        BY <1>1, <1>6, <1>7, <3>1
      <3>3. CASE g = focus
        BY <1>2, <3>2, <3>3
      <3>4. CASE g # focus
        BY <1>6, <1>7, <3>2, <3>4
      <3>5. QED
        BY <3>3, <3>4
    <2>4. Filled' \subseteq 1 .. focus'
      <3>1. focus \in 1 .. focus
        BY <1>1, Bounds
      <3>2. QED
        BY <1>0, <1>5, <1>7, <3>1
    <2> HIDE DEF new
    <2>5. QED
      BY <1>0, <1>2, <1>3, <1>4, <2>1, <2>2, <2>3, <2>4 DEF OrderOK
  <1>8. CASE Filled' = Filled /\ fields' = fields
    <2>1. at \in [Filled' -> DOMAIN typed']
      BY <1>2, <1>6, <1>8
    <2>2. \A f \in Filled' : fields'[f] = typed'[at[f]]
      BY <1>2, <1>6, <1>8
    <2>3. \A f, g \in Filled' : f < g => at[f] < at[g]
      BY <1>6, <1>8
    <2>4. QED
      BY <1>0, <1>3, <1>4, <1>5, <1>8, <2>1, <2>2, <2>3 DEF OrderOK
  <1>9. QED
    BY <1>0, <1>7, <1>8, DigitPressed

\* With no other key down, the field that has the focus is the next.
LEMMA PressedSingle ==
    ASSUME Types, OrderOK, SingleOK, NEW k \in Keys, KeyDown(k) PROVE SingleOK'
  <1> SUFFICES ASSUME only', single' PROVE SingleOK'
    BY DEF SingleOK
  <1>0. only /\ single /\ down = <<>> /\ k \in Digits /\ focus' = focus /\ focus # 0 /\ selected' = FALSE
    BY DEF KeyDown
  <1>1. focus \in Fields /\ focus \in 1 .. CodeLength
    BY <1>0, DigitPressed DEF Fields
  <1>2. /\ Len(typed) \in Nat /\ Len(typed') = Len(typed) + 1
        /\ typed'[Len(typed) + 1] = k /\ \A i \in 1 .. Len(typed) : typed'[i] = typed[i]
        /\ Len(down) = 0 /\ Len(down') = 1
    BY <1>0, KeyAdded
  <1>3. /\ focus = Place /\ (selected => focus \notin Filled)
        /\ Filled = {f \in Fields : f <= Len(typed)} /\ \A f \in Filled : fields[f] = typed[f]
    BY <1>0 DEF SingleOK
  <1>4. /\ Len(typed) + 1 <= CodeLength => focus = Len(typed) + 1
        /\ Len(typed) + 1 > CodeLength => focus = CodeLength
    BY <1>2, <1>3, Bounds DEF Place
  <1>5. Place' = focus
    <2>1. Place' = IF Len(typed') + 1 - Len(down') <= CodeLength
                   THEN Len(typed') + 1 - Len(down') ELSE CodeLength
      BY DEF Place
    <2>2. QED
      BY <1>2, <1>4, <2>1, Bounds
  <1>6. CASE Len(typed) + 1 <= CodeLength
    <2>1. focus \notin Filled
      BY <1>2, <1>3, <1>4, <1>6
    <2>2. Filled' = Filled \union {focus} /\ fields'[focus] = k
          /\ \A f \in Filled \ {focus} : fields'[f] = fields[f]
      BY <1>0, <2>1, DigitPressed
    <2>3. Filled' = {f \in Fields : f <= Len(typed')}
      BY <1>1, <1>2, <1>3, <1>4, <1>6, <2>2, Bounds DEF Fields
    <2>4. \A f \in Filled' : fields'[f] = typed'[f]
      <3> SUFFICES ASSUME NEW f \in Filled' PROVE fields'[f] = typed'[f]
        OBVIOUS
      <3>1. CASE f = focus
        BY <1>2, <1>4, <1>6, <2>2, <3>1
      <3>2. CASE f # focus
        <4>1. f \in Filled /\ f \in 1 .. Len(typed)
          BY <1>2, <1>3, <2>2, <3>2 DEF Fields
        <4>2. QED
          BY <1>2, <1>3, <2>2, <3>2, <4>1
      <3>3. QED
        BY <3>1, <3>2
    <2>5. QED
      BY <1>0, <1>2, <1>5, <2>3, <2>4 DEF SingleOK
  <1>7. CASE Len(typed) + 1 > CodeLength
    <2>1. focus \in Filled
      BY <1>1, <1>2, <1>3, <1>4, <1>7, Bounds
    <2>2. Filled' = Filled /\ fields' = fields
      BY <1>0, <1>3, <2>1, DigitPressed
    <2>3. Filled' = {f \in Fields : f <= Len(typed')}
      BY <1>1, <1>2, <1>3, <1>7, <2>2, Bounds DEF Fields
    <2>4. \A f \in Filled' : fields'[f] = typed'[f]
      <3>1. \A f \in Filled : f \in 1 .. Len(typed)
        BY <1>2, <1>3 DEF Fields
      <3>2. QED
        BY <1>2, <1>3, <2>2, <3>1
    <2>5. QED
      BY <1>0, <1>2, <1>5, <2>3, <2>4 DEF SingleOK
  <1>8. QED
    BY <1>1, <1>2, <1>6, <1>7, Bounds

\* A digit that is released gives the focus to the next field, if there is one.
LEMMA DigitReleased ==
    ASSUME Types, NEW i \in DOMAIN down, KeyUp(i), down[i] \in Digits
    PROVE  /\ focus \in 1 .. CodeLength /\ UNCHANGED <<fields, typed, only, single>>
           /\ focus < CodeLength => focus' = focus + 1 /\ selected' = TRUE
           /\ focus = CodeLength => focus' = focus /\ selected' = selected
           /\ Len(down) \in Nat /\ Len(down) > 0 /\ Len(down') = Len(down) - 1
           /\ DOMAIN down = 1 .. Len(down) /\ DOMAIN down' = 1 .. Len(down) - 1
           /\ \A j \in DOMAIN down' : \E n \in DOMAIN down : down'[j] = down[n]
  <1>1. /\ UNCHANGED <<fields, typed, only, single>>
        /\ down' = [j \in 1 .. Len(down) - 1 |-> IF j < i THEN down[j] ELSE down[j + 1]]
        /\ LET next == NextField(focus, down[i])
           IN IF next = 0 THEN UNCHANGED <<focus, selected>> ELSE focus' = next /\ selected' = TRUE
    BY DEF KeyUp, histVars
  <1>2. down \in Seq(Keys) /\ (down # <<>> => focus # 0) /\ focus \in 0 .. CodeLength
    BY DEF Types, CodeTypes
  <1>3. Len(down) \in Nat /\ DOMAIN down = 1 .. Len(down) /\ Len(down) > 0
    BY <1>2, LenProperties
  <1>4. down # <<>>
    BY <1>3
  <1>5. focus \in 1 .. CodeLength
    BY <1>2, <1>4, Bounds
  <1>6. down[i] \notin {"backspace", "left"}
    BY SignInAssumption
  <1>7. NextField(focus, down[i]) = IF focus < CodeLength THEN focus + 1 ELSE 0
    BY <1>6 DEF NextField
  <1>8. /\ focus < CodeLength => focus' = focus + 1 /\ selected' = TRUE
        /\ focus = CodeLength => focus' = focus /\ selected' = selected
    BY <1>1, <1>5, <1>7, Bounds
  <1>9. DOMAIN down' = 1 .. Len(down) - 1
    BY <1>1
  <1>10. Len(down') = Len(down) - 1
    <2>1. down' \in Seq(Keys)
      BY <1>1, <1>2, Released
    <2>2. Len(down') \in Nat /\ DOMAIN down' = 1 .. Len(down')
      BY <2>1, LenProperties
    <2>3. \A m, n \in Nat : 1 .. m = 1 .. n => m = n
      <3> SUFFICES ASSUME NEW m \in Nat, NEW n \in Nat, 1 .. m = 1 .. n PROVE m = n
        OBVIOUS
      <3>1. m + 1 \notin 1 .. n /\ n + 1 \notin 1 .. m
        OBVIOUS
      <3>2. QED
        BY <3>1
    <2>4. Len(down) - 1 \in Nat
      BY <1>3
    <2>5. QED
      BY <1>9, <2>2, <2>3, <2>4
  <1>11. \A j \in DOMAIN down' : \E n \in DOMAIN down : down'[j] = down[n]
    <2> SUFFICES ASSUME NEW j \in 1 .. Len(down) - 1 PROVE \E n \in DOMAIN down : down'[j] = down[n]
      BY <1>9
    <2>1. j \in DOMAIN down /\ j + 1 \in DOMAIN down
      BY <1>3
    <2>2. down'[j] = down[j] \/ down'[j] = down[j + 1]
      BY <1>1
    <2>3. QED
      BY <2>1, <2>2
  <1>12. QED
    BY <1>1, <1>3, <1>5, <1>8, <1>9, <1>10, <1>11

\* A key that is released moves no digit.
LEMMA ReleasedOrder ==
    ASSUME Types, OrderOK, SingleOK, NEW i \in DOMAIN down, KeyUp(i)
    PROVE  OrderOK' /\ SingleOK'
  <1>0. UNCHANGED <<fields, typed, only, single>>
    BY DEF KeyUp, histVars
  <1>1. CASE ~only
    BY <1>0, <1>1 DEF OrderOK, SingleOK
  <1>2. CASE only
    <2>0. down[i] \in Digits
      BY <1>2 DEF OrderOK
    <2>1. Filled' = Filled
      BY <1>0 DEF Filled
    <2>2. /\ focus \in 1 .. CodeLength
          /\ focus < CodeLength => focus' = focus + 1 /\ selected' = TRUE
          /\ focus = CodeLength => focus' = focus /\ selected' = selected
          /\ Len(down) \in Nat /\ Len(down) > 0 /\ Len(down') = Len(down) - 1
          /\ \A j \in DOMAIN down' : \E n \in DOMAIN down : down'[j] = down[n]
      BY <2>0, DigitReleased
    <2>3. focus' \in 1 .. CodeLength /\ focus' # 0 /\ focus <= focus'
      BY <2>2, Bounds
    <2>4. \A j \in DOMAIN down' : down'[j] \in Digits
      BY <1>2, <2>2 DEF OrderOK
    <2>5. typed' # <<>>
      <3>1. down # <<>>
        BY <2>2
      <3>2. QED
        BY <1>0, <1>2, <3>1 DEF OrderOK
    <2>6. Filled' \subseteq 1 .. focus'
      BY <1>2, <2>1, <2>2, <2>3 DEF OrderOK
    <2>7. OrderOK'
      BY <1>0, <1>2, <2>1, <2>3, <2>4, <2>5, <2>6 DEF OrderOK
    <2>8. ASSUME single PROVE SingleOK'
      <3>1. /\ Len(down) <= 1 /\ focus = Place
            /\ Filled = {f \in Fields : f <= Len(typed)} /\ \A f \in Filled : fields[f] = typed[f]
            /\ selected => focus \notin Filled
        BY <1>2, <2>2, <2>8 DEF SingleOK
      <3>2. Len(down) = 1 /\ Len(down') = 0 /\ Len(typed) \in Nat
        <4>1. typed \in Seq(Digits)
          BY DEF Types, CodeTypes
        <4>2. QED
          BY <2>2, <3>1, <4>1, LenProperties
      <3>3. focus = IF Len(typed) <= CodeLength THEN Len(typed) ELSE CodeLength
        BY <3>1, <3>2, Bounds DEF Place
      <3>4. Place' = IF Len(typed) + 1 <= CodeLength THEN Len(typed) + 1 ELSE CodeLength
        <4>1. Place' = IF Len(typed') + 1 - Len(down') <= CodeLength
                       THEN Len(typed') + 1 - Len(down') ELSE CodeLength
          BY DEF Place
        <4>2. QED
          BY <1>0, <3>2, <4>1, Bounds
      <3>5. focus' = Place'
        BY <2>2, <3>2, <3>3, <3>4, Bounds
      <3>6. selected' => focus' \notin Filled'
        <4>1. CASE focus < CodeLength
          <5>1. focus' = Len(typed) + 1
            BY <2>2, <3>2, <3>3, <4>1, Bounds
          <5>2. QED
            BY <2>1, <3>1, <3>2, <5>1
        <4>2. CASE focus = CodeLength
          BY <2>1, <2>2, <3>1, <4>2
        <4>3. QED
          BY <2>2, <4>1, <4>2, Bounds
      <3>7. QED
        BY <1>0, <2>1, <3>1, <3>2, <3>5, <3>6 DEF SingleOK
    <2>9. ASSUME ~single PROVE SingleOK'
      BY <1>0, <2>9 DEF SingleOK
    <2>10. QED
      BY <2>7, <2>8, <2>9
  <1>3. QED
    BY <1>1, <1>2

\* The answer to a request for a code moves the focus to the first field: either
\* nothing is typed yet, or the digits may be mixed up from now on.
LEMMA CodeSentOrder ==
    ASSUME Types, OrderOK, SingleOK, CodeSent
    PROVE  OrderOK' /\ SingleOK'
  <1>0. /\ UNCHANGED <<fields, down, single>> /\ typed' = <<>> /\ only' = (only /\ typed = <<>>)
        /\ focus' = 1 /\ selected' = (selected /\ focus = 1)
    BY DEF CodeSent
  <1>1. CASE ~only'
    BY <1>1 DEF OrderOK, SingleOK
  <1>2. CASE only'
    <2>1. only /\ typed = <<>>
      BY <1>0, <1>2
    <2>2. Filled = {} /\ down = <<>>
      BY <2>1 DEF OrderOK
    <2>3. Filled' = {}
      BY <1>0, <2>2 DEF Filled
    <2>4. Len(down') = 0 /\ DOMAIN down' = {} /\ Len(typed') = 0 /\ DOMAIN typed' = {}
      BY <1>0, <2>2
    <2>5. \E at \in [Filled' -> DOMAIN typed'] :
             /\ \A f \in Filled' : fields'[f] = typed'[at[f]]
             /\ \A f, g \in Filled' : f < g => at[f] < at[g]
      <3>1. PICK at : at = [f \in {} |-> 0]
        OBVIOUS
      <3>2. at \in [{} -> DOMAIN typed']
        BY <3>1
      <3>3. QED
        BY <2>3, <3>2
    <2>6. OrderOK'
      BY <1>0, <2>2, <2>3, <2>4, <2>5 DEF OrderOK
    <2>7. Place' = 1
      <3>1. Place' = IF Len(typed') + 1 - Len(down') <= CodeLength
                     THEN Len(typed') + 1 - Len(down') ELSE CodeLength
        BY DEF Place
      <3>2. QED
        BY <2>4, <3>1, Bounds
    <2>8. {f \in Fields : f <= Len(typed')} = {}
      BY <2>4, Bounds DEF Fields
    <2>9. SingleOK'
      BY <1>0, <2>3, <2>4, <2>7, <2>8 DEF SingleOK
    <2>10. QED
      BY <2>6, <2>9
  <1>3. QED
    BY <1>1, <1>2

\* Every step keeps both.
LEMMA TypedStep ==
    ASSUME Types, OrderOK, SingleOK, [Next]_vars PROVE OrderOK' /\ SingleOK'
  <1>1. CASE UNCHANGED codeVars
    BY <1>1, FieldsKept
  <1>2. ASSUME NEW k \in Keys, KeyDown(k) PROVE OrderOK' /\ SingleOK'
    BY <1>2, PressedOrder, PressedSingle
  <1>3. ASSUME NEW i \in DOMAIN down, KeyUp(i) PROVE OrderOK' /\ SingleOK'
    BY <1>3, ReleasedOrder
  <1>4. ASSUME NEW f \in Fields, ClickField(f) PROVE OrderOK' /\ SingleOK'
    BY <1>4 DEF ClickField, OrderOK, SingleOK
  <1>5. CASE CodeSent
    BY <1>5, CodeSentOrder
  <1>6. CASE UNCHANGED vars
    BY <1>1, <1>6 DEF vars
  <1>7. CASE SignedIn \/ \E k \in Kinds : Refused(k) \/ Failed(k)
    <2>1. UNCHANGED codeVars
      BY <1>7, Zenon DEF SignedIn, Refused, Failed
    <2>2. QED
      BY <1>1, <2>1
  <1>8. CASE RequestCode \/ SignIn \/ RequestInvalid \/ Fingerprint \/ \E e \in Emails : EditEmail(e)
    <2>1. UNCHANGED codeVars
      BY <1>8, Zenon DEF RequestCode, SignIn, RequestInvalid, Fingerprint, EditEmail
    <2>2. QED
      BY <1>1, <2>1
  <1>9. QED
    BY <1>1, <1>2, <1>3, <1>4, <1>5, <1>6, <1>7, <1>8, Zenon DEF Next

\* What is typed (otp_field_keyup) lies in the fields in the order in which it
\* was typed, whatever keys overlap; and keys pressed one after another fill the
\* fields one after another, however fast the answer to the request comes.
THEOREM DigitsKeepTheirOrder == Spec => []CodeAsTyped
  <1>1. Init => Types /\ OrderOK /\ SingleOK
    <2>1. Init => fields = [f \in Fields |-> NoDigit] /\ typed = <<>> /\ down = <<>> /\ focus \in {0, 1}
                  /\ selected = FALSE
      BY DEF Init
    <2>2. QED
      BY <2>1, TypesInit, NothingTyped
  <1>2. Types /\ OrderOK /\ SingleOK /\ [Next]_vars => Types' /\ OrderOK' /\ SingleOK'
    BY TypesStep, TypedStep
  <1>3. OrderOK /\ SingleOK => CodeAsTyped
    BY TypedImplies
  <1>4. QED
    BY <1>1, <1>2, <1>3, PTL DEF Spec
=============================================================================
