---------------------------- MODULE BuilderProofs ----------------------------
(***************************************************************************)
(* Proofs about the builder: a schedule reads back as it was made, for     *)
(* every cron expression that is typed or stored, the panels agree with    *)
(* the node they edit, the wizard adds no node that the canvas or the      *)
(* inspector shows as unfinished, and the canvas keeps a graph whose edges *)
(* join its nodes and a selection that names its elements.                 *)
(***************************************************************************)
EXTENDS Inspector, Wizard, Canvas, FiniteSetTheorems, SequenceTheorems,
        WellFoundedInduction, TLAPS

(***************************************************************************)
(* Part one: the schedule form.                                            *)
(***************************************************************************)
LEMMA ClampStays ==
  ASSUME NEW v \in Int, NEW a \in Int, NEW b \in Int, a <= b
  PROVE  clampInt(v, a, b) \in a..b /\ (v \in a..b => clampInt(v, a, b) = v)
BY DEF clampInt

\* A set of one number is what The takes out of it.
LEMMA TheOfOne ==
  ASSUME NEW x
  PROVE  The({x}) = x
BY DEF The

\* A field that counts as a number holds exactly one.
LEMMA IntFieldHoldsOne ==
  ASSUME NEW e, IsCron(e), NEW i \in DOMAIN e, isInt(e[i])
  PROVE  The(e[i].n) \in Int
<1>1. e[i] \in Fields
  BY DEF IsCron
<1>2. IsFiniteSet(e[i].n) /\ Cardinality(e[i].n) = 1
  BY DEF IsCron, isInt
<1>3. PICK x : e[i].n = {x}
  BY <1>2, FS_Singleton, Zenon
<1>4. x \in Int
  BY <1>1, <1>3 DEF Fields
<1> QED
  BY <1>3, <1>4, TheOfOne

LEMMA ListIsInt ==
  ASSUME NEW v \in Int
  PROVE  /\ isInt(List({v})) /\ List({v}).n = {v} /\ The(List({v}).n) = v
         /\ List({v}) \in Fields /\ IsFiniteSet(List({v}).n) /\ List({v}).kind = "list"
<1>1. IsFiniteSet({v}) /\ Cardinality({v}) = 1
  BY FS_Singleton, Zenon
<1>2. List({v}).n = {v} /\ List({v}).kind = "list" /\ List({v}) \in Fields
  BY DEF List, Field, Fields
<1> QED
  BY <1>1, <1>2, TheOfOne DEF isInt

LEMMA ClampAllStays ==
  ASSUME NEW s \in SUBSET Int, NEW a \in Int, NEW b \in Int, a <= b
  PROVE  clampAll(s, a, b) \subseteq a..b /\ (s \subseteq a..b => clampAll(s, a, b) = s)
<1>1. \A v \in s : clampInt(v, a, b) \in a..b /\ (v \in a..b => clampInt(v, a, b) = v)
  BY ClampStays
<1>2. clampAll(s, a, b) \subseteq a..b
  <2>1. SUFFICES ASSUME NEW v \in s PROVE clampInt(v, a, b) \in a..b
    BY DEF clampAll
  <2> QED
    BY <1>1
<1>3. ASSUME s \subseteq a..b PROVE clampAll(s, a, b) = s
  <2>1. \A v \in s : clampInt(v, a, b) = v
    BY <1>1, <1>3
  <2> QED
    BY <2>1, Zenon DEF clampAll
<1> QED
  BY <1>2, <1>3

\* The form that is parsed from an expression is one the inputs can show.
LEMMA ParsedFits ==
  ASSUME NEW raw, IsCron(raw)
  PROVE  Fits(parseScheduleExpression(raw))
<1> DEFINE p == IF Len(raw) = 6 THEN Tail(raw) ELSE raw
           base == [Hourly EXCEPT !.mode = "cron", !.cron = raw]
           minute == clampInt(The(p[1].n), 0, 59)
           hour == clampInt(The(p[2].n), 0, 23)
           at == [base EXCEPT !.minute = minute, !.hour = hour]
<1>1. raw \in Seq(Fields)
  BY DEF IsCron
<1>2. ASSUME NEW j \in DOMAIN raw
      PROVE  /\ raw[j] \in Fields /\ raw[j].n \in SUBSET Int
             /\ isInt(raw[j]) => The(raw[j].n) \in Int
             /\ raw[j].kind = "every" => The(raw[j].n) \in Int
  <2>1. raw[j] \in Fields
    BY <1>1
  <2>2. raw[j].n \in SUBSET Int
    BY <2>1 DEF Fields
  <2>3. ASSUME raw[j].kind = "every" PROVE The(raw[j].n) \in Int
    <3>1. PICK k \in raw[j].n : raw[j].n = {k}
      BY <2>3 DEF IsCron
    <3>2. The(raw[j].n) = k
      BY <3>1, TheOfOne
    <3> QED
      BY <2>2, <3>2
  <2> QED
    BY <2>1, <2>2, <2>3, IntFieldHoldsOne
<1>3. Fits(Hourly)
  <2>1. IsCron(<<>>) /\ <<>> \in Seq(Fields)
    BY DEF IsCron
  <2> QED
    BY <2>1 DEF Fits, Hourly
<1>4. Fits(base)
  BY <1>1, <1>3 DEF Fits, Hourly
<1> DEFINE all == Len(p) = 5
<1>5. all => \A i \in 1..5 : \E j \in DOMAIN raw : p[i] = raw[j]
  BY <1>1
<1> HIDE DEF p, all
<1>6. ASSUME all, NEW i \in 1..5
      PROVE  /\ p[i] \in Fields /\ p[i].n \in SUBSET Int
             /\ isInt(p[i]) => The(p[i].n) \in Int
             /\ p[i].kind = "every" => The(p[i].n) \in Int
  BY <1>2, <1>5, <1>6, Zenon
<1>7. ASSUME all, isInt(p[1]) PROVE minute \in 0..59
  <2>1. The(p[1].n) \in Int
    BY <1>6, <1>7
  <2> QED
    BY <2>1 DEF clampInt
<1>8. ASSUME all, isInt(p[2]) PROVE hour \in 0..23
  <2>1. The(p[2].n) \in Int
    BY <1>6, <1>8
  <2> QED
    BY <2>1 DEF clampInt
<1>9. ASSUME all, isInt(p[3]) PROVE clampInt(The(p[3].n), 1, 31) \in 1..31
  <2>1. The(p[3].n) \in Int
    BY <1>6, <1>9
  <2> QED
    BY <2>1 DEF clampInt
<1>10. ASSUME all, p[1].kind = "every" PROVE clampInt(The(p[1].n), 1, 59) \in 1..59
  <2>1. The(p[1].n) \in Int
    BY <1>6, <1>10
  <2> QED
    BY <2>1 DEF clampInt
<1> DEFINE weekdays == IF parseDowList(p[5]) = {} THEN {1} ELSE parseDowList(p[5])
           every == clampInt(The(p[1].n), 1, 59)
           dayOfMonth == clampInt(The(p[3].n), 1, 31)
<1>11. ASSUME all PROVE weekdays \in SUBSET (0..6) /\ weekdays # {}
  <2>1. parseDowList(p[5]) \subseteq 0..6
    BY <1>6, <1>11, ClampAllStays DEF parseDowList
  <2> QED
    BY <2>1
<1> DEFINE timeless == CASE p[1] = Star -> [base EXCEPT !.mode = "every", !.everyMinutes = 1]
                            [] p[1].kind = "every" ->
                                 [base EXCEPT !.mode = "every", !.everyMinutes = every]
                            [] isInt(p[1]) -> [base EXCEPT !.mode = "hourly", !.minute = minute]
                            [] OTHER -> base
           timed == CASE p[3] = Star /\ p[5] = Star -> [at EXCEPT !.mode = "daily"]
                      [] p[3] = Star /\ p[5] # Star ->
                           [at EXCEPT !.mode = "weekly", !.days = weekdays]
                      [] isInt(p[3]) /\ p[5] = Star ->
                           [at EXCEPT !.mode = "monthly", !.dayOfMonth = dayOfMonth]
                      [] OTHER -> base
<1>12. parseScheduleExpression(raw) =
         IF raw = <<>> THEN Hourly
         ELSE IF Len(p) # 5 \/ (Len(p) = 5 /\ p[4] # Star) THEN base
         ELSE IF <<p[2], p[3], p[5]>> = <<Star, Star, Star>> THEN timeless
         ELSE IF ~isInt(p[1]) \/ ~isInt(p[2]) THEN base ELSE timed
  BY Zenon DEF parseScheduleExpression, p
<1> HIDE DEF minute, hour, weekdays, every, dayOfMonth, timeless, timed
<1> HIDE DEF base
<1>13. ASSUME NEW s, Fits(s),
              NEW m \in {"every", "hourly", "daily", "weekly", "monthly", "cron"}
       PROVE  /\ Fits([s EXCEPT !.mode = m])
              /\ \A v \in 1..59 : Fits([s EXCEPT !.mode = m, !.everyMinutes = v])
              /\ \A v \in 0..59 : Fits([s EXCEPT !.mode = m, !.minute = v])
              /\ \A v \in 0..59, h \in 0..23 : Fits([s EXCEPT !.minute = v, !.hour = h])
              /\ \A D \in SUBSET (0..6) : D # {} => Fits([s EXCEPT !.mode = m, !.days = D])
              /\ \A d \in 1..31 : Fits([s EXCEPT !.mode = m, !.dayOfMonth = d])
  <2>1. Fits([s EXCEPT !.mode = m])
    BY <1>13 DEF Fits
  <2>2. ASSUME NEW v \in 1..59 PROVE Fits([s EXCEPT !.mode = m, !.everyMinutes = v])
    BY <1>13 DEF Fits
  <2>3. ASSUME NEW v \in 0..59 PROVE Fits([s EXCEPT !.mode = m, !.minute = v])
    BY <1>13 DEF Fits
  <2>4. ASSUME NEW v \in 0..59, NEW h \in 0..23 PROVE Fits([s EXCEPT !.minute = v, !.hour = h])
    BY <1>13 DEF Fits
  <2>5. ASSUME NEW D \in SUBSET (0..6), D # {} PROVE Fits([s EXCEPT !.mode = m, !.days = D])
    BY <1>13, <2>5 DEF Fits
  <2>6. ASSUME NEW d \in 1..31 PROVE Fits([s EXCEPT !.mode = m, !.dayOfMonth = d])
    BY <1>13 DEF Fits
  <2> QED
    BY <2>1, <2>2, <2>3, <2>4, <2>5, <2>6
<1>14. ASSUME all, isInt(p[1]), isInt(p[2]) PROVE Fits(at)
  BY <1>4, <1>7, <1>8, <1>13, <1>14
<1> HIDE DEF at
<1>15. (p[1] = Star => p[1].kind = "star") /\ (isInt(p[1]) => p[1].kind = "list")
       /\ (isInt(p[3]) => p[3].kind = "list") /\ Star.kind = "star"
  BY DEF Star, Field, isInt
<1>16. ASSUME all PROVE Fits(timeless)
  <2>1. p[1].kind = "every" => Fits([base EXCEPT !.mode = "every", !.everyMinutes = every])
    BY <1>4, <1>10, <1>13, <1>16 DEF every
  <2>2. isInt(p[1]) => Fits([base EXCEPT !.mode = "hourly", !.minute = minute])
    BY <1>4, <1>7, <1>13, <1>16
  <2>3. Fits([base EXCEPT !.mode = "every", !.everyMinutes = 1])
    <3>1. \A v \in 1..59 : Fits([base EXCEPT !.mode = "every", !.everyMinutes = v])
      BY <1>4, <1>13
    <3> QED
      BY <3>1
  <2> QED
    BY <1>4, <1>15, <2>1, <2>2, <2>3 DEF timeless
<1>17. ASSUME all, isInt(p[1]), isInt(p[2]) PROVE Fits(timed)
  <2>1. Fits([at EXCEPT !.mode = "daily"])
    BY <1>13, <1>14, <1>17
  <2>2. Fits([at EXCEPT !.mode = "weekly", !.days = weekdays])
    BY <1>11, <1>13, <1>14, <1>17
  <2>3. isInt(p[3]) => Fits([at EXCEPT !.mode = "monthly", !.dayOfMonth = dayOfMonth])
    BY <1>9, <1>13, <1>14, <1>17 DEF dayOfMonth
  <2> QED
    BY <1>4, <1>15, <2>1, <2>2, <2>3 DEF timed
<1> QED
  BY <1>3, <1>4, <1>12, <1>16, <1>17 DEF all
\* What the form writes is an expression.
LEMMA ExpressionIsCron ==
  ASSUME NEW s, Fits(s)
  PROVE  IsCron(scheduleStateToExpression(s))
<1> DEFINE Good(f) == f \in Fields /\ IsFiniteSet(f.n)
                      /\ (f.kind = "every" => \E k \in f.n : f.n = {k})
<1>1. \A a, b, c, d, e : Good(a) /\ Good(b) /\ Good(c) /\ Good(d) /\ Good(e)
                         => IsCron(<<a, b, c, d, e>>)
  BY DEF IsCron
<1>2. Good(Star)
  BY FS_EmptySet DEF Star, Field, Fields
<1>3. \A v \in Int : Good(Every(v)) /\ Good(List({v}))
  <2>1. \A v : IsFiniteSet({v})
    BY FS_Singleton, Zenon
  <2> QED
    BY <2>1 DEF Every, List, Field, Fields
<1>4. \A D \in SUBSET (0..6) : Good(List(D))
  <2>1. ASSUME NEW D \in SUBSET (0..6) PROVE IsFiniteSet(D)
    <3>1. 0 \in Int /\ 6 \in Int
      OBVIOUS
    <3>2. IsFiniteSet(0..6)
      BY <3>1, FS_Interval, Zenon
    <3> QED
      BY <3>2, FS_Subset, Zenon
  <2> QED
    BY <2>1 DEF List, Field, Fields
<1> HIDE DEF Good
<1> DEFINE One(v, min, max) == List({clampInt(v, min, max)})
           minute == One(s.minute, 0, 59)
           hour == One(s.hour, 0, 23)
           n == clampInt(s.everyMinutes, 1, 59)
           day == One(s.dayOfMonth, 1, 31)
           days == IF s.days = {} THEN {1} ELSE clampAll(s.days, 0, 6)
<1>5. /\ clampInt(s.minute, 0, 59) \in Int /\ clampInt(s.hour, 0, 23) \in Int
      /\ n \in Int /\ clampInt(s.dayOfMonth, 1, 31) \in Int
  <2>1. s.minute \in Int /\ s.hour \in Int /\ s.everyMinutes \in Int /\ s.dayOfMonth \in Int
    <3>1. s.minute \in 0..59 /\ s.hour \in 0..23 /\ s.everyMinutes \in 1..59
          /\ s.dayOfMonth \in 1..31
      BY DEF Fits
    <3> QED
      BY <3>1
  <2> QED
    BY <2>1 DEF clampInt
<1>6. Good(minute) /\ Good(hour) /\ n \in Int /\ Good(day)
  BY <1>3, <1>5, Zenon
<1>7. Good(List(days))
  <2>1. s.days \in SUBSET (0..6) /\ s.days # {}
    BY DEF Fits
  <2>2. clampAll(s.days, 0, 6) = s.days
    BY <2>1, ClampAllStays
  <2>3. days \in SUBSET (0..6)
    BY <2>1, <2>2
  <2> QED
    BY <1>4, <2>3
<1>8. Good(Every(n))
  BY <1>3, <1>6
<1> DEFINE e == scheduleStateToExpression(s)
<1> DEFINE every == <<IF n = 1 THEN Star ELSE Every(n), Star, Star, Star, Star>>
           hourly == <<minute, Star, Star, Star, Star>>
           daily == <<minute, hour, Star, Star, Star>>
           weekly == <<minute, hour, Star, Star, List(days)>>
           monthly == <<minute, hour, day, Star, Star>>
<1>9. e = CASE s.mode = "every" -> every
            [] s.mode = "hourly" -> hourly
            [] s.mode = "daily" -> daily
            [] s.mode = "weekly" -> weekly
            [] s.mode = "monthly" -> monthly
            [] OTHER -> s.cron
  BY DEF scheduleStateToExpression
<1> HIDE DEF minute, hour, n, day, days, e
<1>10. s.mode \in {"every", "hourly", "daily", "weekly", "monthly", "cron"} /\ IsCron(s.cron)
  BY DEF Fits
<1>11. IsCron(every) /\ IsCron(hourly) /\ IsCron(daily) /\ IsCron(weekly) /\ IsCron(monthly)
  BY <1>1, <1>2, <1>6, <1>7, <1>8
<1> HIDE DEF every, hourly, daily, weekly, monthly
<1> QED
  BY <1>9, <1>10, <1>11 DEF e

\* How an expression of five fields is read, whose month is any.
LEMMA FiveFields ==
  ASSUME NEW raw, Len(raw) = 5, raw # <<>>, raw[4] = Star
  PROVE  LET r == parseScheduleExpression(raw)
             minute == clampInt(The(raw[1].n), 0, 59)
             hour == clampInt(The(raw[2].n), 0, 23)
             free == raw[2] = Star /\ raw[3] = Star /\ raw[5] = Star
             one == isInt(raw[1]) /\ isInt(raw[2])
         IN /\ free /\ raw[1] = Star => r.mode = "every" /\ r.everyMinutes = 1
            /\ free /\ raw[1].kind = "every" =>
                 r.mode = "every" /\ r.everyMinutes = clampInt(The(raw[1].n), 1, 59)
            /\ free /\ isInt(raw[1]) => r.mode = "hourly" /\ r.minute = minute
            /\ one => raw[3] # Star \/ raw[5] # Star \/ r.mode = "daily"
            /\ one /\ raw[3] = Star /\ raw[5] # Star =>
                 /\ r.mode = "weekly"
                 /\ r.days = IF parseDowList(raw[5]) = {} THEN {1} ELSE parseDowList(raw[5])
            /\ one /\ isInt(raw[3]) /\ raw[5] = Star =>
                 r.mode = "monthly" /\ r.dayOfMonth = clampInt(The(raw[3].n), 1, 31)
            /\ one /\ (raw[3] = Star \/ (isInt(raw[3]) /\ raw[5] = Star)) =>
                 r.minute = minute /\ r.hour = hour
<1> DEFINE p == IF Len(raw) = 6 THEN Tail(raw) ELSE raw
           base == [Hourly EXCEPT !.mode = "cron", !.cron = raw]
           minute == clampInt(The(p[1].n), 0, 59)
           at == [base EXCEPT !.minute = minute, !.hour = clampInt(The(p[2].n), 0, 23)]
           timeless == CASE p[1] = Star -> [base EXCEPT !.mode = "every", !.everyMinutes = 1]
                         [] p[1].kind = "every" ->
                              [base EXCEPT !.mode = "every",
                                           !.everyMinutes = clampInt(The(p[1].n), 1, 59)]
                         [] isInt(p[1]) -> [base EXCEPT !.mode = "hourly", !.minute = minute]
                         [] OTHER -> base
           timed == CASE p[3] = Star /\ p[5] = Star -> [at EXCEPT !.mode = "daily"]
                      [] p[3] = Star /\ p[5] # Star ->
                           [at EXCEPT !.mode = "weekly",
                                      !.days = IF parseDowList(p[5]) = {} THEN {1}
                                               ELSE parseDowList(p[5])]
                      [] isInt(p[3]) /\ p[5] = Star ->
                           [at EXCEPT !.mode = "monthly",
                                      !.dayOfMonth = clampInt(The(p[3].n), 1, 31)]
                      [] OTHER -> base
<1>1. p = raw
  OBVIOUS
<1>2. parseScheduleExpression(raw) =
        IF raw = <<>> THEN Hourly
        ELSE IF Len(p) # 5 \/ (Len(p) = 5 /\ p[4] # Star) THEN base
        ELSE IF <<p[2], p[3], p[5]>> = <<Star, Star, Star>> THEN timeless
        ELSE IF ~isInt(p[1]) \/ ~isInt(p[2]) THEN base ELSE timed
  BY Zenon DEF parseScheduleExpression
<1> HIDE DEF p
<1>3. /\ p[1] = Star => p[1].kind = "star"
      /\ isInt(p[1]) => p[1].kind = "list"
      /\ ~isInt(Star) /\ (isInt(p[3]) => p[3] # Star)
  BY DEF Star, Field, isInt
<1>4. at.minute = minute /\ at.hour = clampInt(The(p[2].n), 0, 23)
      /\ DOMAIN at = {"mode", "everyMinutes", "minute", "hour", "days", "dayOfMonth", "cron"}
  BY DEF Hourly
<1>5. DOMAIN base = {"mode", "everyMinutes", "minute", "hour", "days", "dayOfMonth", "cron"}
  BY DEF Hourly
<1> HIDE DEF base, at, minute
<1>6. /\ p[1] = Star => timeless.mode = "every" /\ timeless.everyMinutes = 1
      /\ p[1].kind = "every" =>
           timeless.mode = "every" /\ timeless.everyMinutes = clampInt(The(p[1].n), 1, 59)
      /\ isInt(p[1]) => timeless.mode = "hourly" /\ timeless.minute = minute
  BY <1>3, <1>5
<1>7. /\ p[3] = Star /\ p[5] = Star => timed.mode = "daily"
      /\ p[3] = Star /\ p[5] # Star =>
           /\ timed.mode = "weekly"
           /\ timed.days = IF parseDowList(p[5]) = {} THEN {1} ELSE parseDowList(p[5])
      /\ isInt(p[3]) /\ p[5] = Star =>
           timed.mode = "monthly" /\ timed.dayOfMonth = clampInt(The(p[3].n), 1, 31)
      /\ p[3] = Star \/ (isInt(p[3]) /\ p[5] = Star) =>
           timed.minute = minute /\ timed.hour = clampInt(The(p[2].n), 0, 23)
  BY <1>3, <1>4
<1> HIDE DEF timeless, timed
<1>8. parseScheduleExpression(raw) =
        IF p[2] = Star /\ p[3] = Star /\ p[5] = Star THEN timeless
        ELSE IF ~isInt(p[1]) \/ ~isInt(p[2]) THEN base ELSE timed
  BY <1>1, <1>2
<1> QED
  BY <1>1, <1>3, <1>6, <1>7, <1>8 DEF minute

\* Each of the simple forms reads back as it was written.
LEMMA ReadsBack ==
  ASSUME NEW s, Fits(s), s.mode # "cron"
  PROVE  LET r == parseScheduleExpression(scheduleStateToExpression(s))
         IN r.mode = s.mode /\ Used(r) = Used(s)
<1> DEFINE e == scheduleStateToExpression(s)
           r == parseScheduleExpression(e)
           minute == List({s.minute})
           hour == List({s.hour})
           day == List({s.dayOfMonth})
<1>1. /\ s.everyMinutes \in 1..59 /\ s.minute \in 0..59 /\ s.hour \in 0..23
      /\ s.dayOfMonth \in 1..31 /\ s.days \in SUBSET (0..6) /\ s.days # {}
      /\ s.mode \in {"every", "hourly", "daily", "weekly", "monthly"}
  BY DEF Fits
<1>2. /\ clampInt(s.everyMinutes, 1, 59) = s.everyMinutes
      /\ clampInt(s.minute, 0, 59) = s.minute /\ clampInt(s.hour, 0, 23) = s.hour
      /\ clampInt(s.dayOfMonth, 1, 31) = s.dayOfMonth
  BY <1>1 DEF clampInt
<1>3. clampAll(s.days, 0, 6) = s.days
  BY <1>1, ClampAllStays
<1>4. /\ isInt(minute) /\ The(minute.n) = s.minute /\ isInt(hour) /\ The(hour.n) = s.hour
      /\ isInt(day) /\ The(day.n) = s.dayOfMonth
      /\ minute.kind = "list" /\ hour.kind = "list" /\ day.kind = "list"
  BY <1>1, ListIsInt
<1>5. Star.kind = "star" /\ ~isInt(Star)
  BY DEF Star, Field, isInt
<1>6. /\ s.mode = "every" => e = <<IF s.everyMinutes = 1 THEN Star ELSE Every(s.everyMinutes),
                                  Star, Star, Star, Star>>
      /\ s.mode = "hourly" => e = <<minute, Star, Star, Star, Star>>
      /\ s.mode = "daily" => e = <<minute, hour, Star, Star, Star>>
      /\ s.mode = "weekly" => e = <<minute, hour, Star, Star, List(s.days)>>
      /\ s.mode = "monthly" => e = <<minute, hour, day, Star, Star>>
  BY <1>1, <1>2, <1>3 DEF scheduleStateToExpression
<1> HIDE DEF minute, hour, day, r
<1>7. ASSUME s.mode = "every" PROVE r.mode = s.mode /\ r.everyMinutes = s.everyMinutes
  <2>1. CASE s.everyMinutes = 1
    <3>1. e = <<Star, Star, Star, Star, Star>>
      BY <1>6, <1>7, <2>1
    <3> HIDE DEF e
    <3>2. Len(e) = 5 /\ e # <<>> /\ e[1] = Star /\ e[2] = Star /\ e[3] = Star
          /\ e[4] = Star /\ e[5] = Star
      BY <3>1
    <3> QED
      BY <1>7, <2>1, <3>2, FiveFields DEF r
  <2>2. CASE s.everyMinutes # 1
    <3>1. e = <<Every(s.everyMinutes), Star, Star, Star, Star>>
      BY <1>6, <1>7, <2>2
    <3>2. /\ Every(s.everyMinutes).kind = "every"
          /\ The(Every(s.everyMinutes).n) = s.everyMinutes
      BY TheOfOne DEF Every, Field
    <3> HIDE DEF e
    <3>3. Len(e) = 5 /\ e # <<>> /\ e[1] = Every(s.everyMinutes) /\ e[2] = Star
          /\ e[3] = Star /\ e[4] = Star /\ e[5] = Star
      BY <3>1
    <3> QED
      BY <1>2, <1>7, <3>2, <3>3, FiveFields DEF r
  <2> QED
    BY <2>1, <2>2
<1>8. ASSUME s.mode = "hourly" PROVE r.mode = s.mode /\ r.minute = s.minute
  <2>1. Len(e) = 5 /\ e # <<>> /\ e[1] = minute /\ e[2] = Star
        /\ e[3] = Star /\ e[4] = Star /\ e[5] = Star
    BY <1>6, <1>8
  <2> HIDE DEF e
  <2> QED
    BY <1>8, <1>2, <1>4, <2>1, FiveFields DEF r
<1>9. ASSUME s.mode = "daily"
      PROVE  r.mode = s.mode /\ r.minute = s.minute /\ r.hour = s.hour
  <2>1. Len(e) = 5 /\ e # <<>> /\ e[1] = minute /\ e[2] = hour
        /\ e[3] = Star /\ e[4] = Star /\ e[5] = Star
    BY <1>6, <1>9
  <2> HIDE DEF e
  <2> QED
    BY <1>9, <1>2, <1>4, <2>1, FiveFields DEF r
<1>10. ASSUME s.mode = "weekly"
       PROVE  r.mode = s.mode /\ r.minute = s.minute /\ r.hour = s.hour /\ r.days = s.days
  <2>1. Len(e) = 5 /\ e # <<>> /\ e[1] = minute /\ e[2] = hour
        /\ e[3] = Star /\ e[4] = Star /\ e[5] = List(s.days)
    BY <1>6, <1>10
  <2>2. List(s.days).kind = "list" /\ parseDowList(List(s.days)) = s.days
    BY <1>3 DEF List, Field, parseDowList
  <2>3. List(s.days) # Star
    BY <1>5, <2>2
  <2> HIDE DEF e
  <2> QED
    BY <1>10, <1>1, <1>2, <1>4, <2>1, <2>2, <2>3, FiveFields DEF r
<1>11. ASSUME s.mode = "monthly"
       PROVE  r.mode = s.mode /\ r.minute = s.minute /\ r.hour = s.hour
              /\ r.dayOfMonth = s.dayOfMonth
  <2>1. Len(e) = 5 /\ e # <<>> /\ e[1] = minute /\ e[2] = hour
        /\ e[3] = day /\ e[4] = Star /\ e[5] = Star
    BY <1>6, <1>11
  <2> HIDE DEF e
  <2> QED
    BY <1>11, <1>2, <1>4, <2>1, FiveFields DEF r
<1>12. r.mode = s.mode /\ Used(r) = Used(s)
  BY <1>1, <1>7, <1>8, <1>9, <1>10, <1>11 DEF Used
<1> QED
  BY <1>12 DEF r
\* The first form is parsed from the stored expression; nothing was made yet.
LEMMA FormInit ==
  ASSUME InspectorInit
  PROVE  FormFits /\ ScheduleIsKept
<1>1. form = chosen
  BY DEF InspectorInit
<1>2. PICK n \in Stored(nodeType) : form = parseScheduleExpression(n.expression)
  BY DEF InspectorInit
<1>3. IsCron(n.expression)
  <2>1. IsCron(<<>>)
    BY DEF IsCron
  <2>2. \A e \in CronTexts : IsCron(e)
    BY InspectorAssumption
  <2>3. n.expression \in CronTexts \cup {<<>>}
    <3>1. CASE nodeType = "cron"
      BY <1>2, <3>1 DEF Stored, NewNode
    <3>2. CASE nodeType = "app"
      <4>1. PICK app, action : n = [NewNode EXCEPT !.app = app, !.action = action]
        BY <1>2, <3>2 DEF Stored
      <4> QED
        BY <4>1 DEF NewNode
    <3>3. CASE nodeType = "chatModel"
      BY <1>2, <3>3 DEF Stored, NewNode
    <3>4. CASE nodeType = "aiAgent"
      <4>1. PICK m, tools : n = [NewNode EXCEPT !.model = m, !.tools = tools]
        BY <1>2, <3>4 DEF Stored
      <4> QED
        BY <4>1 DEF NewNode
    <3>5. CASE nodeType \notin {"cron", "app", "chatModel", "aiAgent"}
      BY <1>2, <3>5 DEF Stored, NewNode
    <3> QED
      BY <3>1, <3>2, <3>3, <3>4, <3>5
  <2> QED
    BY <2>1, <2>2, <2>3
<1>4. Fits(form)
  BY <1>2, <1>3, ParsedFits
<1> QED
  BY <1>1, <1>4 DEF FormFits, ScheduleIsKept

\* An edit of a form shows what it made.
LEMMA AppliedFits ==
  ASSUME NEW edited, Fits(edited), apply(edited)
  PROVE  FormFits' /\ ScheduleIsKept'
<1>1. /\ chosen' = edited
      /\ form' \in {edited, parseScheduleExpression(scheduleStateToExpression(edited))}
  BY DEF apply
<1>2. Fits(form')
  BY <1>1, ExpressionIsCron, ParsedFits
<1>3. chosen'.mode # "cron" => form'.mode = chosen'.mode /\ Used(form') = Used(chosen')
  BY <1>1, ReadsBack
<1> QED
  BY <1>2, <1>3 DEF FormFits, ScheduleIsKept

\* What the inputs of the form make of it.
LEMMA FormEditsFit ==
  ASSUME NEW s, Fits(s)
  PROVE  /\ \A m \in {"every", "hourly", "daily", "weekly", "monthly", "cron"} :
              Fits([s EXCEPT !.mode = m])
         /\ \A v \in Int : /\ Fits([s EXCEPT !.everyMinutes = clampInt(v, 1, 59)])
                           /\ Fits([s EXCEPT !.minute = clampInt(v, 0, 59)])
                           /\ Fits([s EXCEPT !.dayOfMonth = clampInt(v, 1, 31)])
         /\ \A h \in 0..23, m \in 0..59 : Fits([s EXCEPT !.hour = h, !.minute = m])
         /\ \A D \in SUBSET (0..6) : D # {} => Fits([s EXCEPT !.days = D])
         /\ \A e \in CronTexts : Fits([s EXCEPT !.cron = e])
<1>1. ASSUME NEW v \in Int
      PROVE  /\ clampInt(v, 1, 59) \in 1..59 /\ clampInt(v, 0, 59) \in 0..59
             /\ clampInt(v, 1, 31) \in 1..31
  BY DEF clampInt
<1>2. \A e \in CronTexts : IsCron(e) /\ e \in Seq(Fields)
  BY InspectorAssumption DEF IsCron
<1>3. ASSUME NEW v \in Int
      PROVE  /\ Fits([s EXCEPT !.everyMinutes = clampInt(v, 1, 59)])
             /\ Fits([s EXCEPT !.minute = clampInt(v, 0, 59)])
             /\ Fits([s EXCEPT !.dayOfMonth = clampInt(v, 1, 31)])
  BY <1>1 DEF Fits
<1>4. \A m \in {"every", "hourly", "daily", "weekly", "monthly", "cron"} :
        Fits([s EXCEPT !.mode = m])
  BY DEF Fits
<1>5. \A h \in 0..23, m \in 0..59 : Fits([s EXCEPT !.hour = h, !.minute = m])
  BY DEF Fits
<1>6. \A D \in SUBSET (0..6) : D # {} => Fits([s EXCEPT !.days = D])
  BY DEF Fits
<1>7. \A e \in CronTexts : Fits([s EXCEPT !.cron = e])
  BY <1>2 DEF Fits
<1> QED
  BY <1>3, <1>4, <1>5, <1>6, <1>7

LEMMA TimePickerFits ==
  ASSUME NEW m0, FormFits, TimePicker(m0)
  PROVE  FormFits' /\ ScheduleIsKept'
<1>1. PICK h \in {0, 23}, m \in {0, 55} : apply([form EXCEPT !.hour = h, !.minute = m])
  BY DEF TimePicker
<1>2. h \in 0..23 /\ m \in 0..59
  OBVIOUS
<1>3. Fits([form EXCEPT !.hour = h, !.minute = m])
  BY <1>2, FormEditsFit DEF FormFits
<1> QED
  BY <1>1, <1>3, AppliedFits

\* Every edit of the schedule form.
LEMMA ScheduleConfigFits ==
  ASSUME FormFits, ScheduleConfig
  PROVE  FormFits' /\ ScheduleIsKept'
<1>1. Fits(form)
  BY DEF FormFits
<1>2. CASE ScheduleModeSelect
  BY <1>1, <1>2, FormEditsFit, AppliedFits DEF ScheduleModeSelect
<1>3. CASE ScheduleEveryConfig
  <2>1. PICK v \in {0, 7, 60} : apply([form EXCEPT !.everyMinutes = clampInt(v, 1, 59)])
    BY <1>3 DEF ScheduleEveryConfig
  <2>2. v \in Int
    OBVIOUS
  <2>3. Fits([form EXCEPT !.everyMinutes = clampInt(v, 1, 59)])
    BY <1>1, <2>2, FormEditsFit
  <2> QED
    BY <2>1, <2>3, AppliedFits
<1>4. CASE ScheduleHourlyConfig
  <2>1. PICK v \in {-1, 7, 60} : apply([form EXCEPT !.minute = clampInt(v, 0, 59)])
    BY <1>4 DEF ScheduleHourlyConfig
  <2>2. v \in Int
    OBVIOUS
  <2>3. Fits([form EXCEPT !.minute = clampInt(v, 0, 59)])
    BY <1>1, <2>2, FormEditsFit
  <2> QED
    BY <2>1, <2>3, AppliedFits
<1>5. CASE ScheduleDailyConfig
  BY <1>5, TimePickerFits DEF ScheduleDailyConfig
<1>6. CASE ScheduleWeeklyConfig
  <2>1. CASE TimePicker("weekly")
    BY <2>1, TimePickerFits
  <2>2. ASSUME NEW day \in {0, 1, 6},
               LET days == IF day \in form.days THEN form.days \ {day} ELSE form.days \cup {day}
               IN apply([form EXCEPT !.days = IF days = {} THEN {1} ELSE days])
        PROVE  FormFits' /\ ScheduleIsKept'
    <3> DEFINE days == IF day \in form.days THEN form.days \ {day} ELSE form.days \cup {day}
               D == IF days = {} THEN {1} ELSE days
    <3>1. D \in SUBSET (0..6) /\ D # {}
      <4>1. form.days \in SUBSET (0..6) /\ day \in 0..6 /\ 1 \in 0..6
        BY <1>1 DEF Fits
      <4> QED
        BY <4>1
    <3>2. apply([form EXCEPT !.days = D])
      BY <2>2
    <3> HIDE DEF D
    <3>3. Fits([form EXCEPT !.days = D])
      BY <1>1, <3>1, FormEditsFit
    <3> QED
      BY <3>2, <3>3, AppliedFits
  <2> QED
    BY <1>6, <2>1, <2>2 DEF ScheduleWeeklyConfig
<1>7. CASE ScheduleMonthlyConfig
  <2>1. CASE TimePicker("monthly")
    BY <2>1, TimePickerFits
  <2>2. ASSUME NEW v \in {0, 15, 32}, apply([form EXCEPT !.dayOfMonth = clampInt(v, 1, 31)])
        PROVE  FormFits' /\ ScheduleIsKept'
    <3>1. v \in Int
      OBVIOUS
    <3>2. Fits([form EXCEPT !.dayOfMonth = clampInt(v, 1, 31)])
      BY <1>1, <3>1, FormEditsFit
    <3> QED
      BY <2>2, <3>2, AppliedFits
  <2> QED
    BY <1>7, <2>1, <2>2 DEF ScheduleMonthlyConfig
<1>8. CASE ScheduleCronConfig
  BY <1>1, <1>8, FormEditsFit, AppliedFits DEF ScheduleCronConfig
<1> QED
  BY <1>2, <1>3, <1>4, <1>5, <1>6, <1>7, <1>8 DEF ScheduleConfig

\* No other panel touches the schedule form.
LEMMA OthersKeepForm ==
  ASSUME InspectorNext
  PROVE  ScheduleConfig \/ UNCHANGED <<form, chosen>>
<1>1. ASSUME NEW t, NEW n, updateNode(t, n) PROVE UNCHANGED <<form, chosen>>
  BY <1>1 DEF updateNode
<1>2. CASE IfConfig
  BY <1>1, <1>2 DEF IfConfig, updateConditions
<1>3. CASE InspectorAppConfig
  BY <1>1, <1>3 DEF InspectorAppConfig
<1>4. CASE InspectorChatModelConfig
  BY <1>1, <1>4 DEF InspectorChatModelConfig
<1>5. CASE AgentModelTab \/ AgentMemoryTab
  BY <1>1, <1>5 DEF AgentModelTab, AgentMemoryTab, patchModel
<1>6. CASE AgentToolsTab
  BY <1>1, <1>6 DEF AgentToolsTab, AgentToolItem
<1>7. CASE FieldRow
  BY <1>1, <1>7 DEF FieldRow
<1>8. CASE FailureHandling \/ InspectorConfigPanel
  BY <1>1, <1>8 DEF FailureHandling, InspectorConfigPanel
<1> QED
  BY <1>2, <1>3, <1>4, <1>5, <1>6, <1>7, <1>8 DEF InspectorNext, ConfigForm, SlackConfig

\* The schedule form always holds what its inputs can show, and a schedule made
\* with the simple forms reads back as it was made (cron-config.tsx), whatever
\* expressions are stored or typed.
THEOREM ScheduleIsKeptAlways == InspectorSpec => []ScheduleIsKept
<1>1. InspectorInit => FormFits /\ ScheduleIsKept
  BY FormInit
<1>2. FormFits /\ ScheduleIsKept /\ [InspectorNext]_inspectorVars => FormFits' /\ ScheduleIsKept'
  <2>1. SUFFICES ASSUME FormFits, ScheduleIsKept, [InspectorNext]_inspectorVars
                 PROVE  FormFits' /\ ScheduleIsKept'
    OBVIOUS
  <2>2. CASE ScheduleConfig
    BY <2>1, <2>2, ScheduleConfigFits
  <2>3. CASE UNCHANGED <<form, chosen>>
    BY <2>1, <2>3 DEF FormFits, ScheduleIsKept
  <2> QED
    BY <2>1, <2>2, <2>3, OthersKeepForm DEF inspectorVars
<1> QED
  BY <1>1, <1>2, PTL DEF InspectorSpec
(***************************************************************************)
(* Part two: the panels.  Lists first.                                     *)
(***************************************************************************)
Nonempty(s) == s # <<>> /\ \E S : s \in Seq(S)

LEMMA NonemptyHasFirst ==
  ASSUME NEW s, Nonempty(s)
  PROVE  1 \in DOMAIN s /\ s[1] \in ToSet(s) /\ DOMAIN s \subseteq Nat
<1>1. PICK S : s \in Seq(S)
  BY DEF Nonempty
<1>2. Len(s) \in Nat \ {0} /\ DOMAIN s = 1..Len(s)
  BY <1>1 DEF Nonempty
<1> QED
  BY <1>2 DEF ToSet

LEMMA ConcatNonempty ==
  ASSUME NEW s, NEW t, Nonempty(s), Nonempty(t)
  PROVE  Nonempty(s \o t) /\ ToSet(s \o t) = ToSet(s) \cup ToSet(t)
<1>1. PICK S, T : s \in Seq(S) /\ t \in Seq(T)
  BY DEF Nonempty
<1> DEFINE U == S \cup T
<1>2. s \in Seq(U) /\ t \in Seq(U)
  BY <1>1
<1>3. s # <<>> /\ t # <<>>
  BY DEF Nonempty
<1> HIDE DEF U
<1>4. /\ s \o t \in Seq(U) /\ Len(s \o t) = Len(s) + Len(t)
      /\ \A i \in 1..(Len(s) + Len(t)) : (s \o t)[i] = IF i <= Len(s) THEN s[i] ELSE t[i - Len(s)]
  BY <1>2
<1>5. /\ Len(s) \in Nat /\ Len(s) # 0 /\ DOMAIN s = 1..Len(s)
      /\ Len(t) \in Nat /\ DOMAIN t = 1..Len(t)
      /\ DOMAIN (s \o t) = 1..(Len(s) + Len(t))
  BY <1>2, <1>3, <1>4
<1>6. s \o t # <<>>
  BY <1>4, <1>5
<1> HIDE DEF Nonempty
<1>7. ASSUME NEW i \in 1..Len(s) PROVE s[i] \in ToSet(s \o t)
  <2>1. i \in DOMAIN (s \o t) /\ (s \o t)[i] = s[i]
    BY <1>4, <1>5
  <2> QED
    BY <2>1 DEF ToSet
<1>8. ASSUME NEW i \in 1..Len(t) PROVE t[i] \in ToSet(s \o t)
  <2>1. Len(s) + i \in DOMAIN (s \o t) /\ ~(Len(s) + i <= Len(s)) /\ Len(s) + i - Len(s) = i
    BY <1>5
  <2>2. (s \o t)[Len(s) + i] = t[i]
    BY <1>4, <1>5, <2>1
  <2> QED
    BY <2>1, <2>2, Zenon DEF ToSet
<1>9. ASSUME NEW i \in DOMAIN (s \o t) PROVE (s \o t)[i] \in ToSet(s) \cup ToSet(t)
  <2>1. CASE i <= Len(s)
    BY <1>4, <1>5, <2>1 DEF ToSet
  <2>2. CASE ~(i <= Len(s))
    <3>1. i - Len(s) \in DOMAIN t /\ (s \o t)[i] = t[i - Len(s)]
      BY <1>4, <1>5, <2>2
    <3> QED
      BY <3>1 DEF ToSet
  <2> QED
    BY <2>1, <2>2
<1>10. ToSet(s \o t) = ToSet(s) \cup ToSet(t)
  BY <1>5, <1>7, <1>8, <1>9 DEF ToSet
<1> QED
  BY <1>4, <1>6, <1>10 DEF Nonempty

LEMMA RemovedIsSeq ==
  ASSUME NEW S, NEW s \in Seq(S), NEW i \in DOMAIN s
  PROVE  RemoveAt(s, i) \in Seq(S) /\ Len(RemoveAt(s, i)) = Len(s) - 1
<1>1. i \in 1..Len(s) /\ Len(s) \in Nat
  OBVIOUS
<1>2. SubSeq(s, 1, i - 1) \in Seq(S) /\ Len(SubSeq(s, 1, i - 1)) = i - 1
  BY <1>1
<1>3. SubSeq(s, i + 1, Len(s)) \in Seq(S) /\ Len(SubSeq(s, i + 1, Len(s))) = Len(s) - i
  <2>1. i + 1 \in Int /\ Len(s) \in Int /\ \A j \in (i + 1)..Len(s) : s[j] \in S
    BY <1>1
  <2>2. /\ SubSeq(s, i + 1, Len(s)) \in Seq(S)
        /\ Len(SubSeq(s, i + 1, Len(s))) =
             IF i + 1 <= Len(s) THEN Len(s) - (i + 1) + 1 ELSE 0
    BY <2>1, SubSeqProperties
  <2> QED
    BY <1>1, <2>2
<1> DEFINE a == SubSeq(s, 1, i - 1)
           b == SubSeq(s, i + 1, Len(s))
<1> HIDE DEF a, b
<1>4. a \o b \in Seq(S) /\ Len(a \o b) = Len(a) + Len(b)
  BY <1>2, <1>3, ConcatProperties, Zenon DEF a, b
<1>5. (i - 1) + (Len(s) - i) = Len(s) - 1
  BY <1>1
<1> QED
  BY <1>2, <1>3, <1>4, <1>5, Zenon DEF RemoveAt, a, b

LEMMA InsertedIsSeq ==
  ASSUME NEW S, NEW s \in Seq(S), NEW i \in 1..(Len(s) + 1), NEW e \in S
  PROVE  InsertAt(s, i, e) \in Seq(S)
<1>1. SubSeq(s, 1, i - 1) \in Seq(S) /\ SubSeq(s, i, Len(s)) \in Seq(S)
  OBVIOUS
<1> QED
  BY <1>1 DEF InsertAt

\* A nonempty set of indices has a least one, and Min is it.
LEMMA MinIsIn ==
  ASSUME NEW S, S \subseteq Nat, S # {}
  PROVE  Min(S) \in S
<1> DEFINE Less == OpToRel(<, Nat)
<1>1. \A x, y \in S : y < x => <<y, x>> \in Less
  BY DEF OpToRel
<1>2. IsWellFoundedOn(Less, Nat)
  BY NatLessThanWellFounded
<1> HIDE DEF Less
<1>3. PICK x \in S : \A y \in S : ~(<<y, x>> \in Less)
  BY <1>2, WFMin, Zenon
<1>4. ASSUME NEW y \in S PROVE x <= y
  <2>1. ~(y < x)
    BY <1>1, <1>3, Zenon
  <2> QED
    BY <2>1
<1> QED
  BY <1>4 DEF Min

(***************************************************************************)
(* The app panel.                                                          *)
(***************************************************************************)
LEMMA TuplesNonempty ==
  /\ \A a : Nonempty(<<a>>)
  /\ \A a, b : Nonempty(<<a, b>>)
  /\ \A a, b, c : Nonempty(<<a, b, c>>)
  /\ \A a, b, c, d : Nonempty(<<a, b, c, d>>)
  /\ \A a, b, c, d, e : Nonempty(<<a, b, c, d, e>>)
  /\ \A a, b, c, d, e, f, g : Nonempty(<<a, b, c, d, e, f, g>>)
  /\ \A a, b, c, d, e, f, g, h : Nonempty(<<a, b, c, d, e, f, g, h>>)
<1>1. \A a : Nonempty(<<a>>)
  <2>1. ASSUME NEW a PROVE <<a>> \in Seq({a}) /\ <<a>> # <<>>
    OBVIOUS
  <2> QED
    BY <2>1, Zenon DEF Nonempty
<1>2. \A a, b : Nonempty(<<a, b>>)
  <2>1. ASSUME NEW a, NEW b PROVE <<a, b>> \in Seq({a, b}) /\ <<a, b>> # <<>>
    OBVIOUS
  <2> QED
    BY <2>1, Zenon DEF Nonempty
<1>3. \A a, b, c : Nonempty(<<a, b, c>>)
  <2>1. ASSUME NEW a, NEW b, NEW c PROVE <<a, b, c>> \in Seq({a, b, c}) /\ <<a, b, c>> # <<>>
    OBVIOUS
  <2> QED
    BY <2>1, Zenon DEF Nonempty
<1>4. \A a, b, c, d : Nonempty(<<a, b, c, d>>)
  <2>1. ASSUME NEW a, NEW b, NEW c, NEW d
        PROVE  <<a, b, c, d>> \in Seq({a, b, c, d}) /\ <<a, b, c, d>> # <<>>
    OBVIOUS
  <2> QED
    BY <2>1, Zenon DEF Nonempty
<1>5. \A a, b, c, d, e : Nonempty(<<a, b, c, d, e>>)
  <2>1. ASSUME NEW a, NEW b, NEW c, NEW d, NEW e
        PROVE  <<a, b, c, d, e>> \in Seq({a, b, c, d, e}) /\ <<a, b, c, d, e>> # <<>>
    OBVIOUS
  <2> QED
    BY <2>1, Zenon DEF Nonempty
<1>6. \A a, b, c, d, e, f, g : Nonempty(<<a, b, c, d, e, f, g>>)
  <2>1. ASSUME NEW a, NEW b, NEW c, NEW d, NEW e, NEW f, NEW g
        PROVE  /\ <<a, b, c, d, e, f, g>> \in Seq({a, b, c, d, e, f, g})
               /\ <<a, b, c, d, e, f, g>> # <<>>
    OBVIOUS
  <2> QED
    BY <2>1, Zenon DEF Nonempty
<1>7. \A a, b, c, d, e, f, g, h : Nonempty(<<a, b, c, d, e, f, g, h>>)
  <2>1. ASSUME NEW a, NEW b, NEW c, NEW d, NEW e, NEW f, NEW g, NEW h
        PROVE  /\ <<a, b, c, d, e, f, g, h>> \in Seq({a, b, c, d, e, f, g, h})
               /\ <<a, b, c, d, e, f, g, h>> # <<>>
    OBVIOUS
  <2> QED
    BY <2>1, Zenon DEF Nonempty
<1> QED
  BY <1>1, <1>2, <1>3, <1>4, <1>5, <1>6, <1>7, Zenon

LEMMA AppKeysAre ==
  AppKeys = {"googleSheets", "gmail", "github", "bannerbear", "slack", "notion"}
BY DEF AppKeys, APP_CATALOG

\* Every app has actions.
LEMMA AppsHaveActions ==
  ASSUME NEW app \in AppKeys
  PROVE  Nonempty(listAppActions(app))
<1>1. Nonempty(APP_CATALOG["googleSheets"].actions)
  <2>1. /\ Nonempty(googleSheetsDocumentsCategory) /\ Nonempty(googleSheetsSheetsCategory)
        /\ Nonempty(googleSheetsRowsCategory) /\ Nonempty(googleSheetsTriggersCategory)
    BY TuplesNonempty, Zenon DEF googleSheetsDocumentsCategory, googleSheetsSheetsCategory,
                                 googleSheetsRowsCategory, googleSheetsTriggersCategory
  <2>2. Nonempty(googleSheetsDocumentsCategory \o googleSheetsSheetsCategory \o
                 googleSheetsRowsCategory \o googleSheetsTriggersCategory)
    BY <2>1, ConcatNonempty, Zenon
  <2> QED
    BY <2>2 DEF APP_CATALOG, googleSheetsApp, App
<1>2. Nonempty(APP_CATALOG["gmail"].actions)
  <2>1. Nonempty(gmailMessagesCategory) /\ Nonempty(gmailLabelsCategory)
        /\ Nonempty(gmailDraftsCategory)
    BY TuplesNonempty, Zenon DEF gmailMessagesCategory, gmailLabelsCategory, gmailDraftsCategory
  <2>2. Nonempty(gmailMessagesCategory \o gmailLabelsCategory \o gmailDraftsCategory)
    BY <2>1, ConcatNonempty, Zenon
  <2> QED
    BY <2>2 DEF APP_CATALOG, gmailApp, App
<1>3. Nonempty(APP_CATALOG["github"].actions)
  <2>1. Nonempty(githubIssuesCategory) /\ Nonempty(githubReposCategory)
        /\ Nonempty(githubReleasesCategory)
    BY TuplesNonempty, Zenon DEF githubIssuesCategory, githubReposCategory, githubReleasesCategory
  <2>2. Nonempty(githubIssuesCategory \o githubReposCategory \o githubReleasesCategory)
    BY <2>1, ConcatNonempty, Zenon
  <2> QED
    BY <2>2 DEF APP_CATALOG, githubApp, App
<1>4. Nonempty(APP_CATALOG["bannerbear"].actions)
  <2>1. Nonempty(imagesCategory) /\ Nonempty(templatesCategory) /\ Nonempty(videoCategory)
    BY TuplesNonempty, Zenon DEF imagesCategory, templatesCategory, videoCategory
  <2>2. Nonempty(imagesCategory \o templatesCategory \o videoCategory)
    BY <2>1, ConcatNonempty, Zenon
  <2> QED
    BY <2>2 DEF APP_CATALOG, bannerbearApp, App
<1>5. Nonempty(APP_CATALOG["slack"].actions)
  <2>1. Nonempty(messagingCategory)
    BY TuplesNonempty, Zenon DEF messagingCategory
  <2> QED
    BY <2>1 DEF APP_CATALOG, slackApp, App
<1>6. Nonempty(APP_CATALOG["notion"].actions)
  <2>1. Nonempty(pagesCategory)
    BY TuplesNonempty, Zenon DEF pagesCategory
  <2> QED
    BY <2>1 DEF APP_CATALOG, notionApp, App
<1> QED
  BY <1>1, <1>2, <1>3, <1>4, <1>5, <1>6, AppKeysAre DEF listAppActions

\* The action a panel falls back to is one of the app.
LEMMA DefaultIsFound ==
  ASSUME NEW app \in AppKeys
  PROVE  findAppAction(app, defaultActionKeyForApp(app)) # {}
<1> DEFINE items == listAppActions(app)
           preferred == {i \in DOMAIN items : ~items[i].disabled /\ items[i].kind = "action"}
           key == defaultActionKeyForApp(app)
<1>1. Nonempty(items)
  BY AppsHaveActions
<1>2. 1 \in DOMAIN items /\ DOMAIN items \subseteq Nat /\ items # <<>>
  BY <1>1, NonemptyHasFirst DEF Nonempty
<1>3. \E i \in DOMAIN items : key = items[i].key
  <2>1. CASE preferred # {}
    <3>1. Min(preferred) \in preferred
      <4>1. preferred \subseteq Nat
        BY <1>2
      <4> QED
        BY <2>1, <4>1, MinIsIn
    <3>2. key = items[Min(preferred)].key
      BY <2>1, Zenon DEF defaultActionKeyForApp
    <3> QED
      BY <3>1, <3>2
  <2>2. CASE preferred = {}
    <3>1. key = Head(items).key
      BY <1>2, <2>2, Zenon DEF defaultActionKeyForApp
    <3>2. Head(items) = items[1]
      BY <1>1 DEF Nonempty
    <3> QED
      BY <1>2, <3>1, <3>2
  <2> QED
    BY <2>1, <2>2
<1> QED
  BY <1>3, Zenon DEF findAppAction, ToSet

LEMMA NormalizedKey ==
  /\ \A v : normalizeAppKey(v) \in AppKeys \/ normalizeAppKey(v) = NoApp
  /\ \A v \in AppKeys : normalizeAppKey(v) = v
  /\ NoApp \notin AppKeys
BY AppKeysAre, CatalogAssumption DEF normalizeAppKey

\* The panel's effect leaves an action of the app that is shown.
LEMMA MountedShowsAction ==
  ASSUME NEW n, DOMAIN n = DOMAIN NewNode,
         normalizeAppKey(n.app) \in AppKeys \/ n.action = NoAction,
         NEW r, r = useInspectorAppConfig(n)
  PROVE  /\ normalizeAppKey(r.app) \in AppKeys
         /\ findAppAction(normalizeAppKey(r.app), r.action) # {}
         /\ DOMAIN r = DOMAIN NewNode /\ r.conditions = n.conditions
         /\ r.model = n.model /\ r.tools = n.tools /\ r.expression = n.expression
<1> DEFINE app == IF normalizeAppKey(n.app) = NoApp THEN "googleSheets" ELSE normalizeAppKey(n.app)
           default == defaultActionKeyForApp(app)
<1>1. DOMAIN n = {"label", "expression", "conditions", "flags", "app", "action", "config",
                  "model", "memory", "tools", "maxAttempts", "initialInterval"}
  BY DEF NewNode
<1>2. app \in AppKeys /\ (normalizeAppKey(n.app) \in AppKeys => app = normalizeAppKey(n.app))
  BY NormalizedKey, AppKeysAre
<1>3. r = CASE n.action = NoAction -> [n EXCEPT !.app = app, !.action = default]
            [] n.action # NoAction /\ findAppAction(app, n.action) = {} ->
                 [n EXCEPT !.action = default]
            [] OTHER -> n
  BY Zenon DEF useInspectorAppConfig
<1> HIDE DEF app
<1>4. findAppAction(app, default) # {} /\ normalizeAppKey(app) = app
  BY <1>2, DefaultIsFound, NormalizedKey
<1> HIDE DEF default
<1>5. CASE n.action = NoAction
  <2>1. r = [n EXCEPT !.app = app, !.action = default]
    BY <1>3, <1>5
  <2> QED
    BY <1>1, <1>2, <1>4, <2>1
<1>6. CASE n.action # NoAction /\ findAppAction(app, n.action) = {}
  <2>1. r = [n EXCEPT !.action = default]
    BY <1>3, <1>6
  <2> QED
    BY <1>1, <1>2, <1>4, <1>6, <2>1
<1>7. CASE n.action # NoAction /\ findAppAction(app, n.action) # {}
  <2>1. r = n
    BY <1>3, <1>7
  <2> QED
    BY <1>1, <1>2, <1>7, <2>1
<1> QED
  BY <1>5, <1>6, <1>7
(***************************************************************************)
(* Conditions, models and tools.                                           *)
(***************************************************************************)
Labels(t) == {o.label : o \in ToSet(OPERATORS[t])}

LEMMA ConditionIs ==
  ASSUME NEW t \in DOMAIN OPERATORS, NEW o \in Labels(t), NEW left \in BOOLEAN, NEW right \in BOOLEAN
  PROVE  [type |-> t, operator |-> o, left |-> left, right |-> right] \in Conditions
BY DEF Conditions, Labels

\* Every type of condition has operators, and a new condition has one of them.
LEMMA TypesHaveOperators ==
  /\ \A t \in DOMAIN OPERATORS : OPERATORS[t][1].label \in Labels(t)
  /\ NewCondition \in Conditions
<1> DEFINE exist == Plain(<<"exists", "does not exist">>)
           empty == Plain(<<"is empty", "is not empty">>)
           equal == Comparing(<<"is equal to", "is not equal to">>)
           texts == Comparing(
             <<"contains", "does not contain", "starts with", "does not start with", "ends with",
               "does not end with", "matches regex", "does not match regex">>)
           numbers == Comparing(
             <<"is greater than", "is less than", "is greater than or equal to",
               "is less than or equal to">>)
           dates == Comparing(
             <<"is after", "is before", "is after or equal to", "is before or equal to">>)
           truth == Plain(<<"is true", "is false">>)
           lengths == Comparing(
             <<"contains", "does not contain", "length equal to", "length not equal to",
               "length greater than", "length less than", "length greater than or equal to",
               "length less than or equal to">>)
<1>1. ASSUME NEW s, Nonempty(s) PROVE Nonempty(Plain(s)) /\ Nonempty(Comparing(s))
  <2>1. PICK S : s \in Seq(S)
    BY <1>1 DEF Nonempty
  <2>2. /\ Len(s) \in Nat \ {0} /\ DOMAIN s = 1..Len(s)
    BY <1>1, <2>1 DEF Nonempty
  <2> DEFINE T == [label : S, needsValue : BOOLEAN]
  <2>3. \A x \in S : Operator(x, TRUE) \in T /\ Operator(x, FALSE) \in T
    BY DEF Operator
  <2> HIDE DEF T
  <2> DEFINE n == Len(s)
  <2> HIDE DEF n
  <2>4. n \in Nat \ {0} /\ DOMAIN s = 1..n /\ 1 \in 1..n /\ \A i \in 1..n : s[i] \in S
    BY <2>1, <2>2 DEF n
  <2>5. Plain(s) \in [1..n -> T] /\ Comparing(s) \in [1..n -> T]
    BY <2>3, <2>4, Zenon DEF Plain, Comparing
  <2>6. ASSUME NEW f \in [1..n -> T] PROVE f \in Seq(T) /\ f # <<>>
    <3>1. f \in Seq(T)
      BY <2>4, SeqDef
    <3>2. DOMAIN f = 1..n /\ DOMAIN <<>> = {}
      OBVIOUS
    <3> QED
      BY <2>4, <3>1, <3>2, Zenon
  <2>7. /\ Plain(s) \in Seq(T) /\ Plain(s) # <<>>
        /\ Comparing(s) \in Seq(T) /\ Comparing(s) # <<>>
    BY <2>5, <2>6, Zenon
  <2> QED
    BY <2>7, Zenon DEF Nonempty
<1>2. /\ Nonempty(exist) /\ Nonempty(empty) /\ Nonempty(equal) /\ Nonempty(texts)
      /\ Nonempty(numbers) /\ Nonempty(dates) /\ Nonempty(truth) /\ Nonempty(lengths)
  BY <1>1, TuplesNonempty, Zenon
<1>3. OPERATORS = [string |-> exist \o empty \o equal \o texts, number |-> exist \o equal \o numbers,
                   datetime |-> exist \o equal \o dates, boolean |-> exist \o truth,
                   array |-> exist \o empty \o lengths, object |-> exist \o empty]
  BY Zenon DEF OPERATORS
<1>4. equal[1].label = "is equal to" /\ equal[1] \in ToSet(equal)
  <2>1. equal[1].label = "is equal to"
    <3> DEFINE labels == <<"is equal to", "is not equal to">>
    <3>1. 1 \in DOMAIN labels /\ labels[1] = "is equal to"
      OBVIOUS
    <3> HIDE DEF labels
    <3>2. Comparing(labels)[1] = Operator("is equal to", TRUE)
      BY <3>1 DEF Comparing
    <3>3. \A l, b : Operator(l, b).label = l
      BY DEF Operator
    <3>4. Comparing(labels)[1].label = "is equal to"
      BY <3>2, <3>3, Zenon
    <3> QED
      BY <3>4, Zenon DEF labels
  <2> QED
    BY <1>2, <2>1, NonemptyHasFirst
<1> HIDE DEF exist, empty, equal, texts, numbers, dates, truth, lengths
<1>5. DOMAIN OPERATORS = {"string", "number", "datetime", "boolean", "array", "object"}
  BY <1>3
<1>6. /\ OPERATORS["string"] = exist \o empty \o equal \o texts
      /\ OPERATORS["number"] = exist \o equal \o numbers
      /\ OPERATORS["datetime"] = exist \o equal \o dates
      /\ OPERATORS["boolean"] = exist \o truth
      /\ OPERATORS["array"] = exist \o empty \o lengths
      /\ OPERATORS["object"] = exist \o empty
  BY <1>3
<1>7. ASSUME NEW t \in DOMAIN OPERATORS PROVE Nonempty(OPERATORS[t])
  <2>1. /\ Nonempty(OPERATORS["string"]) /\ Nonempty(OPERATORS["number"])
        /\ Nonempty(OPERATORS["datetime"]) /\ Nonempty(OPERATORS["boolean"])
        /\ Nonempty(OPERATORS["array"]) /\ Nonempty(OPERATORS["object"])
    BY <1>2, <1>6, ConcatNonempty, Zenon
  <2> QED
    BY <1>5, <2>1
<1>8. ASSUME NEW t \in DOMAIN OPERATORS PROVE OPERATORS[t][1].label \in Labels(t)
  <2>1. OPERATORS[t][1] \in ToSet(OPERATORS[t])
    BY <1>7, NonemptyHasFirst
  <2> QED
    BY <2>1, Zenon DEF Labels
<1>9. NewCondition \in Conditions
  <2>1. ToSet(equal) \subseteq ToSet(OPERATORS["string"])
    <3>1. Nonempty(exist \o empty)
      BY <1>2, ConcatNonempty
    <3>2. ToSet(equal) \subseteq ToSet(exist \o empty \o equal) /\ Nonempty(exist \o empty \o equal)
      BY <1>2, <3>1, ConcatNonempty
    <3>3. ToSet(equal) \subseteq ToSet(exist \o empty \o equal \o texts)
      BY <1>2, <3>2, ConcatNonempty
    <3> QED
      BY <1>6, <3>3
  <2>2. "is equal to" \in Labels("string")
    BY <1>4, <2>1, Zenon DEF Labels
  <2>3. "string" \in DOMAIN OPERATORS
    BY <1>5
  <2>4. FALSE \in BOOLEAN
    OBVIOUS
  <2> QED
    BY <2>2, <2>3, <2>4, ConditionIs, Zenon DEF NewCondition
<1> QED
  BY <1>8, <1>9

\* The panel shows at least one condition.
LEMMA CoercedConditions ==
  ASSUME NEW raw \in Seq(Conditions)
  PROVE  coerceConditions(raw) \in Seq(Conditions)
BY TypesHaveOperators DEF coerceConditions

LEMMA NewModelFits == NewModel \in Models /\ DOMAIN MODEL_PROVIDERS = {"openai", "gemini", "grok", "custom"}
BY DEF NewModel, Models, Providers, MODEL_PROVIDERS

LEMMA ModelHas ==
  ASSUME NEW m
  PROVE  m \in Models <=>
           /\ m = [provider |-> m.provider, credential |-> m.credential, filled |-> m.filled]
           /\ m.provider \in Providers /\ m.credential \in {"none", m.provider}
           /\ m.filled \subseteq {"model", "baseUrl", "apiKey", "apiKeyOverride"}
BY DEF Models, Providers

\* Typing into the fields of a model keeps its provider and its credential.
LEMMA TypedFits ==
  ASSUME NEW m \in Models, NEW key \in {"apiKey", "apiKeyOverride"}, NEW r \in Typed(m, key)
  PROVE  /\ r \in Models /\ r.provider = m.provider
         /\ r.filled \subseteq m.filled \cup {"model", "baseUrl", key}
<1>1. PICK f : /\ r = [m EXCEPT !.filled = f]
               /\ f \in UNION {{m.filled \cup {k}, m.filled \ {k}} : k \in {"model", "baseUrl", key}}
  BY DEF Typed
<1>2. f \subseteq m.filled \cup {"model", "baseUrl", key}
  BY <1>1
<1>3. DOMAIN m = {"provider", "credential", "filled"}
  BY DEF Models
<1>4. r.provider = m.provider /\ r.credential = m.credential /\ r.filled = f
      /\ r = [provider |-> m.provider, credential |-> m.credential, filled |-> f]
  BY <1>1, <1>3 DEF Models
<1>5. m.filled \subseteq {"model", "baseUrl", "apiKey", "apiKeyOverride"}
      /\ m.provider \in Providers /\ m.credential \in {"none", m.provider}
  BY ModelHas
<1>6. r \in Models
  BY <1>2, <1>4, <1>5, ModelHas
<1> QED
  BY <1>2, <1>4, <1>6

\* The credential that is chosen is of the provider that is shown.
LEMMA CredentialFieldFits ==
  ASSUME NEW m \in Models
  PROVE  LET r == CredentialField(m)
         IN /\ r.provider = m.provider /\ r.credential = providerOf(m) /\ r.filled = m.filled
            /\ m.provider # "none" => r \in Models
<1>1. m.provider # "none" => providerOf(m) = m.provider
  BY DEF providerOf
<1>2. CredentialField(m) = [provider |-> m.provider, credential |-> providerOf(m), filled |-> m.filled]
  BY ModelHas DEF CredentialField
<1> HIDE DEF providerOf
<1> QED
  BY <1>1, <1>2, ModelHas

\* A patch of an agent's model names its provider.
LEMMA PatchedModelFits ==
  ASSUME NEW m, NEW add \in SUBSET {"baseUrl"},
         DOMAIN m = {"provider", "credential", "filled"}, m.provider \in Providers,
         m.credential \in {"none", m.provider, providerOf(m)},
         m.filled \subseteq {"model", "baseUrl", "apiKey", "apiKeyOverride"},
         NEW r, r = [m EXCEPT !.provider = providerOf(m), !.filled = m.filled \cup add],
         m = [provider |-> m.provider, credential |-> m.credential, filled |-> m.filled]
  PROVE  r \in Models
<1>1. providerOf(m) \in Providers /\ (m.provider # "none" => providerOf(m) = m.provider)
  BY NewModelFits DEF providerOf, Providers
<1>2. r = [provider |-> providerOf(m), credential |-> m.credential, filled |-> m.filled \cup add]
  OBVIOUS
<1> QED
  BY <1>1, <1>2, ModelHas
LEMMA ToolHas ==
  ASSUME NEW t
  PROVE  t \in ShownTools <=>
           /\ t = [origin |-> t.origin, toolKey |-> t.toolKey, enabled |-> t.enabled,
                   credentialId |-> t.credentialId, config |-> t.config]
           /\ t.origin \in {"agent wizard", "tool wizard"} /\ t.toolKey = "slack.sendMessage"
           /\ t.enabled \in BOOLEAN /\ t.credentialId \in {"blank", "c1", "c2"}
           /\ t.config \in ToolConfigs
           /\ ConfigFits(t.origin, t.config)
BY DEF ShownTools

\* A patch of a tool's configuration.
LEMMA PatchedConfigFits ==
  ASSUME NEW c \in ToolConfigs, NEW patch \in ToolConfigs
  PROVE  /\ Patched(c, patch) \in ToolConfigs
         /\ DOMAIN Patched(c, patch) = DOMAIN c \cup DOMAIN patch
         /\ \A origin : ConfigFits(origin, c) /\ "credentialId" \notin DOMAIN patch
                         => ConfigFits(origin, Patched(c, patch))
<1> DEFINE Keys == {"credentialId", "channel", "message"}
           V == {"text", "blank", "c1"}
<1>1. PICK D \in SUBSET Keys : c \in [D -> V]
  BY Zenon DEF ToolConfigs
<1>2. PICK E \in SUBSET Keys : patch \in [E -> V]
  BY Zenon DEF ToolConfigs
<1>3. D \cup E \in SUBSET Keys
  BY <1>1, <1>2
<1> HIDE DEF V
<1>4. Patched(c, patch) \in [D \cup E -> V]
  BY <1>1, <1>2 DEF Patched
<1>5. Patched(c, patch) \in ToolConfigs
  BY <1>3, <1>4, Zenon DEF ToolConfigs, V
<1>6. /\ DOMAIN Patched(c, patch) = DOMAIN c \cup DOMAIN patch
      /\ "credentialId" \in DOMAIN c /\ "credentialId" \notin DOMAIN patch
           => Patched(c, patch)["credentialId"] = c["credentialId"]
  BY DEF Patched
<1> DEFINE p == Patched(c, patch)
<1> HIDE DEF p
<1>7. \A origin : ConfigFits(origin, c) /\ "credentialId" \notin DOMAIN patch
                   => ConfigFits(origin, p)
  BY <1>6 DEF ConfigFits, p
<1> QED
  BY <1>5, <1>6, <1>7 DEF p

LEMMA PatchedToolFits ==
  ASSUME NEW t \in ShownTools
  PROVE  /\ \A c \in {"c1", "c2"} : patchTool(t, [credentialId |-> c]) \in ShownTools
         /\ \A k \in {"channel", "message"}, v \in {"text", "blank"} :
              patchTool(t, [key \in {k} |-> v]) \in ShownTools
<1>1. /\ t = [origin |-> t.origin, toolKey |-> t.toolKey, enabled |-> t.enabled,
              credentialId |-> t.credentialId, config |-> t.config]
      /\ t.origin \in {"agent wizard", "tool wizard"} /\ t.toolKey = "slack.sendMessage"
      /\ t.enabled \in BOOLEAN /\ t.credentialId \in {"blank", "c1", "c2"}
      /\ t.config \in ToolConfigs
      /\ ConfigFits(t.origin, t.config)
  BY ToolHas, Zenon
<1>2. ASSUME NEW D \in SUBSET {"credentialId", "channel", "message"},
             NEW f \in [D -> {"text", "blank", "c1"}]
      PROVE  f \in ToolConfigs
  BY <1>2, Zenon DEF ToolConfigs
<1>3. ASSUME NEW id \in {"blank", "c1", "c2"}, NEW config \in ToolConfigs,
             ConfigFits(t.origin, config)
      PROVE  [t EXCEPT !.credentialId = id, !.config = config] \in ShownTools
  <2> DEFINE B == BOOLEAN
             CredentialIds == {"blank", "c1", "c2"}
             Raw == [origin : {"agent wizard", "tool wizard"}, toolKey : {"slack.sendMessage"},
                     enabled : B, credentialId : CredentialIds, config : ToolConfigs]
             r == [t EXCEPT !.credentialId = id, !.config = config]
  <2>1. t \in Raw
    BY Zenon DEF ShownTools
  <2>2. id \in CredentialIds
    OBVIOUS
  <2> HIDE DEF B, CredentialIds
  <2>3. r \in Raw /\ r.origin = t.origin /\ r.config = config
    BY <2>1, <2>2
  <2> HIDE DEF r
  <2>4. r \in ShownTools
    BY <1>3, <2>3, Zenon DEF ShownTools, B, CredentialIds
  <2> QED
    BY <2>4 DEF r
<1>4. ASSUME NEW c \in {"c1", "c2"}
      PROVE  patchTool(t, [credentialId |-> c]) \in ShownTools
  <2> DEFINE patch == [credentialId |-> c]
             rest == [k \in DOMAIN patch \ {"credentialId"} |-> patch[k]]
             config == Patched(t.config, rest)
  <2>1. DOMAIN patch = {"credentialId"} /\ patch["credentialId"] = c
    OBVIOUS
  <2>2. rest \in [{} -> {"text", "blank", "c1"}] /\ DOMAIN rest = {}
    BY <2>1
  <2>3. rest \in ToolConfigs
    BY <1>2, <2>2
  <2>4. config \in ToolConfigs /\ ConfigFits(t.origin, config)
    <3>1. "credentialId" \notin DOMAIN rest
      BY <2>2
    <3> HIDE DEF rest
    <3> QED
      BY <1>1, <2>3, <3>1, PatchedConfigFits, Zenon
  <2>5. patchTool(t, patch) = [t EXCEPT !.credentialId = c, !.config = config]
    BY <2>1 DEF patchTool
  <2> HIDE DEF config, rest, patch
  <2>6. patchTool(t, patch) \in ShownTools
    BY <1>1, <1>3, <2>4, <2>5
  <2> QED
    BY <2>6 DEF patch
<1>5. ASSUME NEW j \in {"channel", "message"}, NEW v \in {"text", "blank"}
      PROVE  patchTool(t, [key \in {j} |-> v]) \in ShownTools
  <2> DEFINE patch == [key \in {j} |-> v]
             rest == [k \in DOMAIN patch \ {"credentialId"} |-> patch[k]]
             config == Patched(t.config, rest)
  <2>1. DOMAIN patch = {j} /\ j # "credentialId" /\ patch[j] = v
    OBVIOUS
  <2>2. rest \in [{j} -> {"text", "blank", "c1"}] /\ DOMAIN rest = {j}
    BY <2>1
  <2>3. rest \in ToolConfigs
    BY <1>2, <2>2
  <2>4. config \in ToolConfigs /\ ConfigFits(t.origin, config)
    <3>1. "credentialId" \notin DOMAIN rest
      BY <2>1, <2>2
    <3> HIDE DEF rest
    <3> QED
      BY <1>1, <2>3, <3>1, PatchedConfigFits, Zenon
  <2>5. patchTool(t, patch) = [t EXCEPT !.credentialId = t.credentialId, !.config = config]
    BY <2>1 DEF patchTool
  <2> HIDE DEF config, rest, patch
  <2>6. ConfigFits(t.origin, config)
    BY <2>4
  <2>7. patchTool(t, patch) \in ShownTools
    <3> DEFINE CredentialIds == {"blank", "c1", "c2"}
               id == t.credentialId
    <3>1. id \in CredentialIds /\ config \in ToolConfigs
      BY <1>1, <2>4
    <3>2. \A i \in CredentialIds, c \in ToolConfigs :
            ConfigFits(t.origin, c)
              => [t EXCEPT !.credentialId = i, !.config = c] \in ShownTools
      BY <1>3, Zenon
    <3> HIDE DEF CredentialIds, id
    <3>3. [t EXCEPT !.credentialId = id, !.config = config] \in ShownTools
      BY <2>6, <3>1, <3>2, Zenon
    <3> QED
      BY <2>5, <3>3 DEF id
  <2> QED
    BY <2>7 DEF patch
<1> QED
  BY <1>4, <1>5

\* What a node must keep for the panels to agree with it.
LEMMA SameFits ==
  ASSUME NEW t, NEW m, NEW n, NodeFits(t, m), DOMAIN n = DOMAIN m,
         n.conditions = m.conditions, n.model = m.model, n.tools = m.tools,
         t = "app" => n.app = m.app /\ n.action = m.action
  PROVE  NodeFits(t, n)
BY DEF NodeFits

\* An edit whose result fits keeps the panels and the node in agreement.
LEMMA UpdatedFits ==
  ASSUME NEW t, NEW n, updateNode(t, n), t = nodeType => NodeFits(t, n)
  PROVE  PanelInv'
BY DEF updateNode, Patch, PanelInv

LEMMA NodeDomain ==
  ASSUME PanelInv
  PROVE  DOMAIN node = {"label", "expression", "conditions", "flags", "app", "action", "config",
                        "model", "memory", "tools", "maxAttempts", "initialInterval"}
BY DEF PanelInv, NodeFits, NewNode
(***************************************************************************)
(* Each panel keeps what it shows in agreement with the node.              *)
(***************************************************************************)
LEMMA IfConfigFits ==
  ASSUME PanelInv, IfConfig
  PROVE  PanelInv'
<1> DEFINE S == Conditions
           conds == shownConditions
<1>1. NodeFits(nodeType, node) /\ node.conditions \in Seq(S)
  BY DEF PanelInv, NodeFits
<1>2. conds \in Seq(S) /\ NewCondition \in S
  BY <1>1, CoercedConditions, TypesHaveOperators DEF shownConditions
<1>3. ASSUME NEW edited \in Seq(S), updateConditions(edited) PROVE PanelInv'
  <2> DEFINE n == [node EXCEPT !.conditions = edited]
  <2>1. /\ DOMAIN n = DOMAIN node /\ n.conditions = edited /\ n.model = node.model
        /\ n.tools = node.tools /\ n.app = node.app /\ n.action = node.action
    BY NodeDomain
  <2> HIDE DEF n
  <2>2. NodeFits(nodeType, n)
    BY <1>1, <1>3, <2>1 DEF NodeFits
  <2>3. updateNode("if", n)
    BY <1>3 DEF updateConditions, n
  <2> QED
    BY <2>2, <2>3, UpdatedFits
<1> HIDE DEF S, conds
<1>4. ASSUME NEW f \in {"OR", "convertTypes", "ignoreCase"},
             updateNode("if", [node EXCEPT !.flags = (@ \cup {f}) \ (@ \cap {f})])
      PROVE  PanelInv'
  <2> DEFINE n == [node EXCEPT !.flags = (@ \cup {f}) \ (@ \cap {f})]
  <2>1. /\ DOMAIN n = DOMAIN node /\ n.conditions = node.conditions /\ n.model = node.model
        /\ n.tools = node.tools /\ n.app = node.app /\ n.action = node.action
    BY NodeDomain
  <2> HIDE DEF n
  <2>2. NodeFits(nodeType, n)
    BY <1>1, <2>1, SameFits
  <2>3. updateNode("if", n)
    BY <1>4 DEF n
  <2> QED
    BY <2>2, <2>3, UpdatedFits
<1>5. CASE updateConditions(Append(conds, NewCondition))
  <2>1. Append(conds, NewCondition) \in Seq(S)
    BY <1>2
  <2> QED
    BY <1>3, <1>5, <2>1
<1>6. ASSUME NEW i \in DOMAIN conds, updateConditions(coerceConditions(RemoveAt(conds, i)))
      PROVE  PanelInv'
  <2>1. RemoveAt(conds, i) \in Seq(S)
    BY <1>2, RemovedIsSeq
  <2>2. coerceConditions(RemoveAt(conds, i)) \in Seq(S)
    BY <2>1, CoercedConditions DEF S
  <2> QED
    BY <1>3, <1>6, <2>2
<1>7. ASSUME NEW i \in DOMAIN conds, NEW c \in S, updateConditions([conds EXCEPT ![i] = c])
      PROVE  PanelInv'
  <2>1. i \in 1..Len(conds)
    BY <1>2
  <2>2. [conds EXCEPT ![i] = c] \in Seq(S)
    BY <1>2, <2>1, ExceptSeq
  <2> QED
    BY <1>3, <1>7, <2>2
<1>8. ASSUME NEW i \in DOMAIN conds
      PROVE  LET cond == conds[i]
             IN /\ \A t \in DOMAIN OPERATORS :
                     [cond EXCEPT !.type = t, !.operator = OPERATORS[t][1].label] \in S
                /\ \A o \in ToSet(OPERATORS[cond.type]) : [cond EXCEPT !.operator = o.label] \in S
                /\ [cond EXCEPT !.left = ~@] \in S /\ [cond EXCEPT !.right = ~@] \in S
  <2> DEFINE cond == conds[i]
             B == BOOLEAN
             l == ~cond.left
             r == ~cond.right
             Row(t, L) == [type : {t}, operator : L, left : B, right : B]
  <2>1. cond \in S
    BY <1>2
  <2>2. \A t \in DOMAIN OPERATORS : Row(t, Labels(t)) \subseteq S
    BY DEF S, Conditions, Labels
  <2> HIDE DEF cond
  <2>3. cond.type \in DOMAIN OPERATORS /\ cond \in Row(cond.type, Labels(cond.type))
    BY <2>1 DEF S, Conditions, Labels
  <2>4. l \in B /\ r \in B
    BY Zenon
  <2>5. [cond EXCEPT !.left = ~@] = [cond EXCEPT !.left = l]
        /\ [cond EXCEPT !.right = ~@] = [cond EXCEPT !.right = r]
    BY Zenon
  <2> HIDE DEF B, l, r
  <2>6. ASSUME NEW L, NEW K, NEW t, NEW o \in K, cond \in Row(cond.type, L)
        PROVE  [cond EXCEPT !.type = t, !.operator = o] \in Row(t, K)
    BY <2>6
  <2>7. ASSUME NEW L, NEW o \in L, cond \in Row(cond.type, L)
        PROVE  [cond EXCEPT !.operator = o] \in Row(cond.type, L)
    BY <2>7
  <2>8. ASSUME NEW L, cond \in Row(cond.type, L)
        PROVE  /\ [cond EXCEPT !.left = l] \in Row(cond.type, L)
               /\ [cond EXCEPT !.right = r] \in Row(cond.type, L)
    BY <2>4, <2>8
  <2>9. \A o \in ToSet(OPERATORS[cond.type]) : o.label \in Labels(cond.type)
    BY Zenon DEF Labels
  <2> HIDE DEF Row
  <2>10. \A t \in DOMAIN OPERATORS :
           [cond EXCEPT !.type = t, !.operator = OPERATORS[t][1].label] \in S
    <3>1. SUFFICES ASSUME NEW t \in DOMAIN OPERATORS
                   PROVE  [cond EXCEPT !.type = t, !.operator = OPERATORS[t][1].label] \in S
      OBVIOUS
    <3>2. OPERATORS[t][1].label \in Labels(t)
      BY TypesHaveOperators
    <3>3. [cond EXCEPT !.type = t, !.operator = OPERATORS[t][1].label] \in Row(t, Labels(t))
      BY <2>3, <2>6, <3>2
    <3> QED
      BY <2>2, <3>3
  <2>11. \A o \in ToSet(OPERATORS[cond.type]) : [cond EXCEPT !.operator = o.label] \in S
    <3>1. SUFFICES ASSUME NEW o \in ToSet(OPERATORS[cond.type])
                   PROVE  [cond EXCEPT !.operator = o.label] \in S
      OBVIOUS
    <3>2. o.label \in Labels(cond.type)
      BY <2>9
    <3>3. [cond EXCEPT !.operator = o.label] \in Row(cond.type, Labels(cond.type))
      BY <2>3, <2>7, <3>2
    <3> QED
      BY <2>2, <2>3, <3>3
  <2>12. [cond EXCEPT !.left = l] \in S /\ [cond EXCEPT !.right = r] \in S
    BY <2>2, <2>3, <2>8
  <2>13. [cond EXCEPT !.left = ~@] \in S /\ [cond EXCEPT !.right = ~@] \in S
    BY <2>5, <2>12, Zenon
  <2> QED
    BY <2>10, <2>11, <2>13, Zenon DEF cond
<1>9. \/ \E i \in DOMAIN conds :
           \/ \E c \in S : updateConditions([conds EXCEPT ![i] = c])
           \/ updateConditions(coerceConditions(RemoveAt(conds, i)))
      \/ updateConditions(Append(conds, NewCondition))
      \/ \E f \in {"OR", "convertTypes", "ignoreCase"} :
           updateNode("if", [node EXCEPT !.flags = (@ \cup {f}) \ (@ \cap {f})])
  BY <1>8, Zenon DEF IfConfig, conds
<1> QED
  BY <1>4, <1>5, <1>6, <1>7, <1>9, Zenon

LEMMA AppConfigFits ==
  ASSUME PanelInv, nodeType = "app", InspectorAppConfig
  PROVE  PanelInv'
<1> DEFINE app == normalizeAppKey(node.app)
<1>1. /\ NodeFits("app", node) /\ app \in AppKeys
      /\ node.conditions \in Seq(Conditions) /\ node.model \in Models
      /\ node.tools \in Seq(ShownTools)
  BY DEF PanelInv, NodeFits
<1>2. ASSUME NEW n, updateNode("app", useInspectorAppConfig(n)), DOMAIN n = DOMAIN node,
             n.conditions = node.conditions, n.model = node.model, n.tools = node.tools,
             normalizeAppKey(n.app) \in AppKeys
      PROVE  PanelInv'
  <2>1. DOMAIN n = DOMAIN NewNode
    BY <1>2 DEF PanelInv, NodeFits
  <2> DEFINE r == useInspectorAppConfig(n)
  <2>2. /\ normalizeAppKey(r.app) \in AppKeys
        /\ findAppAction(normalizeAppKey(r.app), r.action) # {}
        /\ DOMAIN r = DOMAIN NewNode /\ r.conditions = n.conditions
        /\ r.model = n.model /\ r.tools = n.tools
    BY <1>2, <2>1, MountedShowsAction
  <2> HIDE DEF r
  <2>3. NodeFits("app", r)
    BY <1>1, <1>2, <2>2 DEF NodeFits
  <2> QED
    BY <1>2, <2>3, UpdatedFits DEF r
<1>3. ASSUME NEW a \in AppKeys, NEW key,
             updateNode("app", useInspectorAppConfig([node EXCEPT !.app = a, !.action = key]))
      PROVE  PanelInv'
  <2> DEFINE n == [node EXCEPT !.app = a, !.action = key]
  <2>1. /\ DOMAIN n = DOMAIN node /\ n.conditions = node.conditions /\ n.model = node.model
        /\ n.tools = node.tools /\ n.app = a
    BY NodeDomain
  <2> HIDE DEF n
  <2> QED
    BY <1>2, <1>3, <2>1, NormalizedKey DEF n
<1>4. ASSUME NEW key, updateNode("app", useInspectorAppConfig([node EXCEPT !.action = key]))
      PROVE  PanelInv'
  <2> DEFINE n == [node EXCEPT !.action = key]
  <2>1. /\ DOMAIN n = DOMAIN node /\ n.conditions = node.conditions /\ n.model = node.model
        /\ n.tools = node.tools /\ n.app = node.app
    BY NodeDomain
  <2> HIDE DEF n
  <2> QED
    BY <1>1, <1>2, <1>4, <2>1 DEF n
<1>5. ASSUME NEW c, updateNode("app", useInspectorAppConfig([node EXCEPT !.config = c]))
      PROVE  PanelInv'
  <2> DEFINE n == [node EXCEPT !.config = c]
  <2>1. /\ DOMAIN n = DOMAIN node /\ n.conditions = node.conditions /\ n.model = node.model
        /\ n.tools = node.tools /\ n.app = node.app
    BY NodeDomain
  <2> HIDE DEF n
  <2> QED
    BY <1>1, <1>2, <1>5, <2>1 DEF n
<1>6. \/ \E a \in AppKeys : \E key :
           updateNode("app", useInspectorAppConfig([node EXCEPT !.app = a, !.action = key]))
      \/ \E key : updateNode("app", useInspectorAppConfig([node EXCEPT !.action = key]))
      \/ \E c : updateNode("app", useInspectorAppConfig([node EXCEPT !.config = c]))
  BY Zenon DEF InspectorAppConfig
<1> QED
  BY <1>3, <1>4, <1>5, <1>6, Zenon

\* An edit of the model, and of the label with it.
LEMMA ModelUpdatedFits ==
  ASSUME PanelInv, NEW t, NEW n, updateNode(t, n), DOMAIN n = DOMAIN node,
         n.conditions = node.conditions, n.tools = node.tools,
         n.app = node.app, n.action = node.action, n.model \in Models,
         t = "chatModel" => /\ n.model.provider # "none"
                            /\ n.model.filled \subseteq {"model", "baseUrl", "apiKey"}
  PROVE  PanelInv'
<1>1. t = nodeType => NodeFits(t, n)
  BY DEF PanelInv, NodeFits
<1> QED
  BY <1>1, UpdatedFits

LEMMA ChatModelFits ==
  ASSUME PanelInv, InspectorChatModelConfig
  PROVE  PanelInv'
<1> DEFINE m == node.model
<1>1. m \in Models /\ nodeType = "chatModel"
  BY DEF PanelInv, NodeFits, InspectorChatModelConfig, updateNode, Patch
<1>2. m.provider # "none" /\ m.filled \subseteq {"model", "baseUrl", "apiKey"}
  BY <1>1 DEF PanelInv, NodeFits
<1>3. ASSUME NEW r \in Models, r.provider # "none",
             r.filled \subseteq {"model", "baseUrl", "apiKey"},
             NEW label, updateNode("chatModel", [node EXCEPT !.model = r, !.label = label])
      PROVE  PanelInv'
  <2> DEFINE n == [node EXCEPT !.model = r, !.label = label]
  <2>1. /\ DOMAIN n = DOMAIN node /\ n.conditions = node.conditions /\ n.model = r
        /\ n.tools = node.tools /\ n.app = node.app /\ n.action = node.action
    BY NodeDomain
  <2> HIDE DEF n
  <2> QED
    BY <1>3, <2>1, ModelUpdatedFits DEF n
<1>4. ASSUME NEW r \in Models, r.provider # "none",
             r.filled \subseteq {"model", "baseUrl", "apiKey"},
             updateNode("chatModel", [node EXCEPT !.model = r])
      PROVE  PanelInv'
  <2> DEFINE n == [node EXCEPT !.model = r]
  <2>1. /\ DOMAIN n = DOMAIN node /\ n.conditions = node.conditions /\ n.model = r
        /\ n.tools = node.tools /\ n.app = node.app /\ n.action = node.action
    BY NodeDomain
  <2> HIDE DEF n
  <2> QED
    BY <1>4, <2>1, ModelUpdatedFits DEF n
<1>5. ASSUME NEW p \in {"openai", "gemini", "grok"}
      PROVE  LET r == getProviderDefaults(p)
             IN /\ r \in Models /\ r.provider # "none"
                /\ r.filled \subseteq {"model", "baseUrl", "apiKey"}
  <2> DEFINE r == getProviderDefaults(p)
  <2>1. r = [provider |-> p, credential |-> "none", filled |-> {"model", "baseUrl"}]
    BY DEF getProviderDefaults, NewModel
  <2>2. p \in Providers
    BY NewModelFits DEF Providers
  <2> QED
    BY <2>1, <2>2, ModelHas
<1>6. ASSUME NEW r \in Typed(m, "apiKey") \cup {CredentialField(m)}
      PROVE  /\ r \in Models /\ r.provider # "none"
             /\ r.filled \subseteq {"model", "baseUrl", "apiKey"}
  <2>1. CASE r \in Typed(m, "apiKey")
    BY <1>1, <1>2, <2>1, TypedFits
  <2>2. CASE r = CredentialField(m)
    BY <1>1, <1>2, <2>2, CredentialFieldFits
  <2> QED
    BY <2>1, <2>2
<1> HIDE DEF m
<1>7. \/ \E p \in {"openai", "gemini", "grok"} : \E label :
           updateNode("chatModel",
                      [node EXCEPT !.model = getProviderDefaults(p), !.label = label])
      \/ \E r \in Typed(m, "apiKey") \cup {CredentialField(m)} :
           updateNode("chatModel", [node EXCEPT !.model = r])
  BY Zenon DEF InspectorChatModelConfig, m
<1> QED
  BY <1>3, <1>4, <1>5, <1>6, <1>7, Zenon
LEMMA AgentModelFits ==
  ASSUME PanelInv, AgentModelTab
  PROVE  PanelInv'
<1> DEFINE m == node.model
           extra == IF m.provider = "none" THEN {"baseUrl"} ELSE {}
<1>1. /\ m \in Models /\ m = [provider |-> m.provider, credential |-> m.credential, filled |-> m.filled]
      /\ m.provider \in Providers /\ m.credential \in {"none", m.provider}
      /\ m.filled \subseteq {"model", "baseUrl", "apiKey", "apiKeyOverride"}
  <2>1. m \in Models
    BY DEF PanelInv, NodeFits
  <2> HIDE DEF m
  <2> QED
    BY <2>1, ModelHas
<1>2. ASSUME NEW r, patchModel(r),
             r = [provider |-> r.provider, credential |-> r.credential, filled |-> r.filled],
             r.provider \in Providers, r.credential \in {"none", r.provider, providerOf(r)},
             r.filled \subseteq {"model", "baseUrl", "apiKey", "apiKeyOverride"}
      PROVE  PanelInv'
  <2> DEFINE s == [r EXCEPT !.provider = providerOf(r), !.filled = r.filled \cup extra]
             n == [node EXCEPT !.model = s]
  <2>1. extra \in SUBSET {"baseUrl"} /\ DOMAIN r = {"provider", "credential", "filled"}
    BY <1>2
  <2>2. s \in Models
    <3> HIDE DEF extra
    <3> QED
      BY <1>2, <2>1, PatchedModelFits
  <2>3. updateNode("aiAgent", n)
    <3>1. [r EXCEPT !.provider = providerOf(r),
                    !.filled = IF m.provider = "none" THEN @ \cup {"baseUrl"} ELSE @] = s
      BY <2>1
    <3> QED
      BY <1>2, <3>1 DEF patchModel
  <2> HIDE DEF s
  <2>4. /\ DOMAIN n = DOMAIN node /\ n.conditions = node.conditions /\ n.model = s
        /\ n.tools = node.tools /\ n.app = node.app /\ n.action = node.action
    BY NodeDomain
  <2> HIDE DEF n
  <2> QED
    BY <2>2, <2>3, <2>4, ModelUpdatedFits
<1>3. ASSUME NEW p \in DOMAIN MODEL_PROVIDERS,
             patchModel([provider |-> p, credential |-> "none", filled |-> MODEL_PROVIDERS[p]])
      PROVE  PanelInv'
  <2> DEFINE r == [provider |-> p, credential |-> "none", filled |-> MODEL_PROVIDERS[p]]
  <2>1. /\ r.provider = p /\ r.credential = "none" /\ r.filled = MODEL_PROVIDERS[p]
        /\ r = [provider |-> r.provider, credential |-> r.credential, filled |-> r.filled]
    OBVIOUS
  <2>2. MODEL_PROVIDERS[p] \subseteq {"model", "baseUrl"} /\ p \in Providers
    BY DEF MODEL_PROVIDERS, Providers
  <2>3. patchModel(r)
    BY <1>3
  <2> HIDE DEF r
  <2> QED
    BY <1>2, <2>1, <2>2, <2>3
<1>4. ASSUME NEW r \in Typed(m, "apiKeyOverride"), patchModel(r) PROVE PanelInv'
  <2>1. r \in Models
    BY <1>1, TypedFits
  <2> QED
    BY <1>2, <1>4, <2>1, ModelHas
<1>5. CASE patchModel(CredentialField(m))
  <2> DEFINE r == CredentialField(m)
  <2>1. r = [provider |-> m.provider, credential |-> providerOf(m), filled |-> m.filled]
    BY <1>1 DEF CredentialField
  <2>2. /\ r.provider = m.provider /\ r.credential = providerOf(m) /\ r.filled = m.filled
        /\ r = [provider |-> r.provider, credential |-> r.credential, filled |-> r.filled]
    BY <2>1
  <2>3. providerOf(r) = providerOf(m)
    BY <2>2 DEF providerOf
  <2> HIDE DEF r, m
  <2> QED
    BY <1>1, <1>2, <1>5, <2>2, <2>3 DEF r
<1> HIDE DEF m
<1> QED
  BY <1>3, <1>4, <1>5 DEF AgentModelTab, m

\* Tools that are moved, removed, switched or edited.
LEMMA ToolsUpdatedFits ==
  ASSUME PanelInv, NEW tools \in Seq(ShownTools),
         updateNode("aiAgent", [node EXCEPT !.tools = tools])
  PROVE  PanelInv'
<1> DEFINE n == [node EXCEPT !.tools = tools]
<1>1. /\ DOMAIN n = DOMAIN node /\ n.conditions = node.conditions /\ n.model = node.model
      /\ n.tools = tools /\ n.app = node.app /\ n.action = node.action
  BY NodeDomain
<1> HIDE DEF n
<1>2. NodeFits(nodeType, n)
  BY <1>1 DEF PanelInv, NodeFits
<1> QED
  BY <1>2, UpdatedFits DEF n

LEMMA SwitchedToolFits ==
  ASSUME NEW t \in ShownTools
  PROVE  [t EXCEPT !.enabled = ~@] \in ShownTools
<1> DEFINE B == BOOLEAN
           e == ~t.enabled
           Raw == [origin : {"agent wizard", "tool wizard"}, toolKey : {"slack.sendMessage"},
                   enabled : B, credentialId : {"blank", "c1", "c2"}, config : ToolConfigs]
           r == [t EXCEPT !.enabled = e]
<1>1. t \in Raw /\ ConfigFits(t.origin, t.config)
  BY Zenon DEF ShownTools
<1>2. e \in B
  BY Zenon
<1>3. [t EXCEPT !.enabled = ~@] = r
  BY Zenon
<1> HIDE DEF B, e
<1>4. r \in Raw /\ r.origin = t.origin /\ r.config = t.config
  BY <1>1, <1>2
<1> HIDE DEF r
<1>5. r \in ShownTools
  BY <1>1, <1>4, Zenon DEF ShownTools, B
<1> QED
  BY <1>3, <1>5, Zenon

LEMMA AgentToolFits ==
  ASSUME PanelInv, NEW i \in DOMAIN node.tools, AgentToolItem(i)
  PROVE  PanelInv'
<1> DEFINE S == ShownTools
           tools == node.tools
<1>1. tools \in Seq(S)
  BY DEF PanelInv, NodeFits
<1>2. ASSUME NEW edited \in Seq(S), updateNode("aiAgent", [node EXCEPT !.tools = edited])
      PROVE  PanelInv'
  BY <1>2, ToolsUpdatedFits
<1> HIDE DEF S, tools
<1>3. i \in 1..Len(tools) /\ Len(tools) \in Nat /\ tools[i] \in S /\ i \in DOMAIN tools
  BY <1>1 DEF tools
<1>4. RemoveAt(tools, i) \in Seq(S) /\ Len(RemoveAt(tools, i)) = Len(tools) - 1
  BY <1>1, <1>3, RemovedIsSeq
<1>5. ASSUME i > 1 PROVE InsertAt(RemoveAt(tools, i), i - 1, tools[i]) \in Seq(S)
  <2>1. i - 1 \in 1..(Len(RemoveAt(tools, i)) + 1)
    BY <1>3, <1>4, <1>5
  <2> QED
    BY <1>3, <1>4, <2>1, InsertedIsSeq
<1>6. ASSUME i < Len(tools) PROVE InsertAt(RemoveAt(tools, i), i + 1, tools[i]) \in Seq(S)
  <2>1. i + 1 \in 1..(Len(RemoveAt(tools, i)) + 1)
    BY <1>3, <1>4, <1>6
  <2> QED
    BY <1>3, <1>4, <2>1, InsertedIsSeq
<1>7. ASSUME NEW t \in S PROVE [tools EXCEPT ![i] = t] \in Seq(S)
  BY <1>1, <1>3, ExceptSeq
<1>8. [tools EXCEPT ![i].enabled = ~@] \in Seq(S)
  <2> DEFINE t == [tools[i] EXCEPT !.enabled = ~@]
  <2>1. t \in S
    BY <1>3, SwitchedToolFits DEF S
  <2>2. [tools EXCEPT ![i].enabled = ~@] = [tools EXCEPT ![i] = t]
    BY Zenon
  <2> HIDE DEF t
  <2> QED
    BY <1>7, <2>1, <2>2
<1>9. /\ \A c \in {"c1", "c2"} :
           [tools EXCEPT ![i] = patchTool(@, [credentialId |-> c])] \in Seq(S)
      /\ \A k \in {"channel", "message"}, v \in {"text", "blank"} :
           [tools EXCEPT ![i] = patchTool(@, [key \in {k} |-> v])] \in Seq(S)
  <2>1. /\ \A c \in {"c1", "c2"} : patchTool(tools[i], [credentialId |-> c]) \in S
        /\ \A k \in {"channel", "message"}, v \in {"text", "blank"} :
             patchTool(tools[i], [key \in {k} |-> v]) \in S
    BY <1>3, PatchedToolFits DEF S
  <2> QED
    BY <1>7, <2>1, Zenon
<1>10. \/ i > 1 /\ updateNode("aiAgent",
             [node EXCEPT !.tools = InsertAt(RemoveAt(tools, i), i - 1, tools[i])])
       \/ i < Len(tools) /\ updateNode("aiAgent",
             [node EXCEPT !.tools = InsertAt(RemoveAt(tools, i), i + 1, tools[i])])
       \/ updateNode("aiAgent", [node EXCEPT !.tools = RemoveAt(tools, i)])
       \/ updateNode("aiAgent", [node EXCEPT !.tools = [tools EXCEPT ![i].enabled = ~@]])
       \/ \E c \in {"c1", "c2"} :
            updateNode("aiAgent",
              [node EXCEPT !.tools = [tools EXCEPT ![i] = patchTool(@, [credentialId |-> c])]])
       \/ \E k \in {"channel", "message"}, v \in {"text", "blank"} :
            updateNode("aiAgent",
              [node EXCEPT !.tools = [tools EXCEPT ![i] = patchTool(@, [key \in {k} |-> v])]])
  BY Zenon DEF AgentToolItem, tools
<1> QED
  BY <1>2, <1>4, <1>5, <1>6, <1>8, <1>9, <1>10, Zenon

\* The fields that no panel's agreement depends on.
LEMMA OtherFieldsFit ==
  ASSUME PanelInv, NEW t, NEW n, updateNode(t, n), DOMAIN n = DOMAIN node,
         n.conditions = node.conditions, n.model = node.model, n.tools = node.tools,
         n.app = node.app, n.action = node.action
  PROVE  PanelInv'
<1>1. NodeFits(nodeType, n)
  BY SameFits DEF PanelInv
<1> QED
  BY <1>1, UpdatedFits

LEMMA OtherPanelsFit ==
  ASSUME PanelInv, AgentMemoryTab \/ FieldRow \/ FailureHandling \/ InspectorConfigPanel
  PROVE  PanelInv'
<1> DEFINE Same(n) == /\ DOMAIN n = DOMAIN node /\ n.conditions = node.conditions
                      /\ n.model = node.model /\ n.tools = node.tools
                      /\ n.app = node.app /\ n.action = node.action
<1>1. ASSUME NEW t, NEW n, updateNode(t, n), Same(n) PROVE PanelInv'
  BY <1>1, OtherFieldsFit
<1>2. ASSUME NEW v
      PROVE  /\ Same([node EXCEPT !.memory = v]) /\ Same([node EXCEPT !.config = v])
             /\ Same([node EXCEPT !.maxAttempts = v]) /\ Same([node EXCEPT !.initialInterval = v])
             /\ Same([node EXCEPT !.label = v])
  BY NodeDomain
<1> HIDE DEF Same
<1>3. CASE AgentMemoryTab
  BY <1>1, <1>2, <1>3 DEF AgentMemoryTab
<1>4. CASE FieldRow
  BY <1>1, <1>2, <1>4 DEF FieldRow
<1>5. CASE FailureHandling
  <2> DEFINE Attempts(v) == updateNode(nodeType, [node EXCEPT !.maxAttempts = IF v > 1 THEN v ELSE 1])
             Interval(v) ==
               updateNode(nodeType, [node EXCEPT !.initialInterval = IF v > 100 THEN v ELSE 100])
  <2>1. (\E v \in {0, 3} : Attempts(v)) \/ (\E v \in {0, 500} : Interval(v))
    BY <1>5, Zenon DEF FailureHandling
  <2>2. ASSUME NEW v, Attempts(v)
        PROVE  PanelInv'
    <3> DEFINE w == IF v > 1 THEN v ELSE 1
    <3>1. updateNode(nodeType, [node EXCEPT !.maxAttempts = w])
      BY <2>2, Zenon
    <3> HIDE DEF w
    <3> QED
      BY <1>1, <1>2, <3>1
  <2>3. ASSUME NEW v, Interval(v)
        PROVE  PanelInv'
    <3> DEFINE w == IF v > 100 THEN v ELSE 100
    <3>1. updateNode(nodeType, [node EXCEPT !.initialInterval = w])
      BY <2>3, Zenon
    <3> HIDE DEF w
    <3> QED
      BY <1>1, <1>2, <3>1
  <2> HIDE DEF Attempts, Interval
  <2> QED
    BY <2>1, <2>2, <2>3
<1>6. CASE InspectorConfigPanel
  BY <1>1, <1>2, <1>6 DEF InspectorConfigPanel
<1> QED
  BY <1>3, <1>4, <1>5, <1>6

\* The tools and the model of the agents that are stored.
LEMMA BareTool == <<>> \in ToolConfigs /\ DOMAIN <<>> = {}
<1>1. DOMAIN <<>> = {} /\ <<>> \in [{} -> {"text", "blank", "c1"}]
  OBVIOUS
<1> QED
  BY <1>1, Zenon DEF ToolConfigs

LEMMA OwnCredential ==
  ASSUME NEW c, c = [credentialId |-> WizardCredential]
  PROVE  c \in ToolConfigs /\ c # <<>> /\ c["credentialId"] = "c1" /\ ConfigFits("tool wizard", c)
<1>1. DOMAIN c = {"credentialId"} /\ c["credentialId"] = "c1"
  BY DEF WizardCredential
<1>2. c \in [{"credentialId"} -> {"text", "blank", "c1"}]
  BY DEF WizardCredential
<1>3. ConfigFits("tool wizard", c)
  BY <1>1 DEF ConfigFits, WizardCredential
<1> QED
  BY <1>1, <1>2, <1>3, BareTool, Zenon DEF ToolConfigs

LEMMA StoredToolsFit ==
  <<ToolOf("agent wizard", <<>>), ToolOf("tool wizard", [credentialId |-> WizardCredential])>> \in Seq(ShownTools)
<1> DEFINE c == [credentialId |-> WizardCredential]
           B == BOOLEAN
           yes == TRUE
           Raw == [origin : {"agent wizard", "tool wizard"}, toolKey : {"slack.sendMessage"},
                   enabled : B, credentialId : {"blank", "c1", "c2"}, config : ToolConfigs]
<1>1. c \in ToolConfigs /\ c # <<>> /\ c["credentialId"] = "c1" /\ ConfigFits("tool wizard", c)
  BY OwnCredential
<1> HIDE DEF c
<1>2. yes \in B
  BY Zenon
<1>3. ToolOf("agent wizard", <<>>) =
        [origin |-> "agent wizard", toolKey |-> "slack.sendMessage", enabled |-> yes,
         credentialId |-> "blank", config |-> <<>>]
  BY Zenon DEF ToolOf
<1>4. ToolOf("tool wizard", c) =
        [origin |-> "tool wizard", toolKey |-> "slack.sendMessage", enabled |-> yes,
         credentialId |-> "c1", config |-> c]
  BY <1>1, Zenon DEF ToolOf
<1> DEFINE t == ToolOf("agent wizard", <<>>)
           u == ToolOf("tool wizard", c)
<1> HIDE DEF B, yes
<1>6. t \in Raw /\ t.config = <<>> /\ t.origin = "agent wizard"
  <2> DEFINE bare == <<>>
             Configs == ToolConfigs
  <2>1. bare \in Configs
    BY BareTool
  <2>2. t = [origin |-> "agent wizard", toolKey |-> "slack.sendMessage", enabled |-> yes,
             credentialId |-> "blank", config |-> bare]
    BY <1>3, Zenon DEF t
  <2> HIDE DEF bare, Configs, t
  <2>3. t \in [origin : {"agent wizard", "tool wizard"}, toolKey : {"slack.sendMessage"},
               enabled : B, credentialId : {"blank", "c1", "c2"}, config : Configs]
        /\ t.config = bare /\ t.origin = "agent wizard"
    BY <1>2, <2>1, <2>2
  <2> QED
    BY <2>3, Zenon DEF bare, Configs
<1>7. u \in Raw /\ u.origin = "tool wizard" /\ u.config = c
  <2> DEFINE Configs == ToolConfigs
  <2>1. c \in Configs
    BY <1>1
  <2>2. u = [origin |-> "tool wizard", toolKey |-> "slack.sendMessage", enabled |-> yes,
             credentialId |-> "c1", config |-> c]
    BY <1>4, Zenon DEF u
  <2> HIDE DEF Configs, u
  <2>3. u \in [origin : {"agent wizard", "tool wizard"}, toolKey : {"slack.sendMessage"},
               enabled : B, credentialId : {"blank", "c1", "c2"}, config : Configs]
        /\ u.origin = "tool wizard" /\ u.config = c
    BY <1>2, <2>1, <2>2
  <2> QED
    BY <2>3, Zenon DEF Configs
<1> HIDE DEF t, u
<1>8. t \in ShownTools
  <2>1. ConfigFits(t.origin, t.config)
    BY <1>6, BareTool DEF ConfigFits
  <2> QED
    BY <1>6, <2>1, Zenon DEF ShownTools, B
<1>9. u \in ShownTools
  <2>1. ConfigFits(u.origin, u.config)
    BY <1>1, <1>7
  <2> QED
    BY <1>7, <2>1, Zenon DEF ShownTools, B
<1>10. <<t, u>> \in Seq(ShownTools)
  BY <1>8, <1>9
<1> QED
  BY <1>10, Zenon DEF t, u, c

LEMMA MissingModelFits == [NewModel EXCEPT !.provider = "none", !.filled = {}] \in Models
<1>1. ASSUME NEW none, none \subseteq {"model", "baseUrl", "apiKey", "apiKeyOverride"}, NEW m,
             m.credential = "none", DOMAIN m = {"provider", "credential", "filled"}
      PROVE  /\ [m EXCEPT !.provider = "none", !.filled = none].provider = "none"
             /\ [m EXCEPT !.provider = "none", !.filled = none].credential = "none"
             /\ [m EXCEPT !.provider = "none", !.filled = none].filled = none
             /\ [m EXCEPT !.provider = "none", !.filled = none]
                  \in [provider : Providers, credential : Providers,
                      filled : SUBSET {"model", "baseUrl", "apiKey", "apiKeyOverride"}]
  BY <1>1 DEF Providers
<1>2. NewModel.credential = "none" /\ DOMAIN NewModel = {"provider", "credential", "filled"}
  BY DEF NewModel
<1>3. {} \subseteq {"model", "baseUrl", "apiKey", "apiKeyOverride"}
  OBVIOUS
<1> QED
  BY <1>1, <1>2, <1>3, Zenon DEF Models

\* A node that is opened fits: the app panel's effect repairs what is stored.
LEMMA StoredFits ==
  ASSUME InspectorInit
  PROVE  PanelInv
<1>1. PICK n \in Stored(nodeType) :
        node = IF nodeType = "app" THEN useInspectorAppConfig(n) ELSE n
  BY DEF InspectorInit
<1>2. /\ NewNode.conditions = <<>> /\ NewNode.model = NewModel /\ NewNode.tools = <<>>
      /\ DOMAIN NewNode = {"label", "expression", "conditions", "flags", "app", "action", "config",
                           "model", "memory", "tools", "maxAttempts", "initialInterval"}
  BY DEF NewNode
<1>3. <<>> \in Seq(Conditions) /\ <<>> \in Seq(ShownTools)
  OBVIOUS
<1>4. NewModel.provider = "openai" /\ NewModel.credential = "none"
      /\ NewModel.filled = {"model", "baseUrl"}
  BY DEF NewModel
<1>5. CASE nodeType = "app"
  <2>1. PICK a \in {<<"gsheets", "gsheets.appendRow">>, <<"slack", NoAction>>, <<"", NoAction>>,
                    <<"bananabear", "bannerbear.removed">>} :
          n = [NewNode EXCEPT !.app = a[1], !.action = a[2]]
    BY <1>1, <1>5 DEF Stored
  <2>2. /\ DOMAIN n = DOMAIN NewNode /\ n.app = a[1] /\ n.action = a[2]
        /\ n.conditions = <<>> /\ n.model = NewModel /\ n.tools = <<>>
    BY <1>2, <2>1
  <2>3. normalizeAppKey(n.app) \in AppKeys \/ n.action = NoAction
    <3>1. a[1] \in {"gsheets", "bananabear"} \/ a[2] = NoAction
      <4>1. CASE a = <<"gsheets", "gsheets.appendRow">>
        BY <4>1
      <4>2. CASE a = <<"slack", NoAction>>
        BY <4>2
      <4>3. CASE a = <<"", NoAction>>
        BY <4>3
      <4>4. CASE a = <<"bananabear", "bannerbear.removed">>
        BY <4>4
      <4> QED
        BY <2>1, <4>1, <4>2, <4>3, <4>4, Zenon
    <3>2. normalizeAppKey("gsheets") \in AppKeys /\ normalizeAppKey("bananabear") \in AppKeys
      BY AppKeysAre DEF normalizeAppKey
    <3> QED
      BY <2>2, <3>1, <3>2
  <2>4. node = useInspectorAppConfig(n)
    BY <1>1, <1>5
  <2>5. /\ normalizeAppKey(node.app) \in AppKeys
        /\ findAppAction(normalizeAppKey(node.app), node.action) # {}
        /\ DOMAIN node = DOMAIN NewNode /\ node.conditions = n.conditions
        /\ node.model = n.model /\ node.tools = n.tools
    BY <2>2, <2>3, <2>4, MountedShowsAction
  <2> QED
    BY <1>3, <1>5, <2>2, <2>5, NewModelFits DEF PanelInv, NodeFits
<1>6. CASE nodeType = "aiAgent"
  <2>1. PICK m \in {NewModel, [NewModel EXCEPT !.provider = "none", !.filled = {}]},
             tools \in {<<ToolOf("agent wizard", <<>>),
                          ToolOf("tool wizard", [credentialId |-> WizardCredential])>>} :
          n = [NewNode EXCEPT !.model = m, !.tools = tools]
    BY <1>1, <1>6 DEF Stored
  <2>2. DOMAIN n = DOMAIN NewNode /\ n.conditions = <<>> /\ n.model = m /\ n.tools = tools
    BY <1>2, <2>1
  <2>3. m \in Models
    BY <2>1, NewModelFits, MissingModelFits
  <2>4. tools \in Seq(ShownTools)
    BY <2>1, StoredToolsFit, Zenon
  <2> QED
    BY <1>1, <1>3, <1>6, <2>2, <2>3, <2>4 DEF PanelInv, NodeFits
<1>7. CASE nodeType = "chatModel"
  <2>1. PICK l : n = [NewNode EXCEPT !.label = l]
    BY <1>1, <1>7 DEF Stored
  <2>2. DOMAIN n = DOMAIN NewNode /\ n.conditions = <<>> /\ n.model = NewModel /\ n.tools = <<>>
    BY <1>2, <2>1
  <2> QED
    BY <1>1, <1>3, <1>4, <1>7, <2>2, NewModelFits DEF PanelInv, NodeFits
<1>8. CASE nodeType = "cron"
  <2>1. PICK e : n = [NewNode EXCEPT !.expression = e]
    BY <1>1, <1>8 DEF Stored
  <2>2. DOMAIN n = DOMAIN NewNode /\ n.conditions = <<>> /\ n.model = NewModel /\ n.tools = <<>>
    BY <1>2, <2>1
  <2> QED
    BY <1>1, <1>3, <1>8, <2>2, NewModelFits DEF PanelInv, NodeFits
<1>9. CASE nodeType \notin {"cron", "app", "chatModel", "aiAgent"}
  <2>1. n = NewNode
    BY <1>1, <1>9 DEF Stored
  <2> QED
    BY <1>1, <1>2, <1>3, <1>9, <2>1, NewModelFits DEF PanelInv, NodeFits
<1> QED
  BY <1>5, <1>6, <1>7, <1>8, <1>9

\* Every step of the inspector keeps the panels and the node in agreement.
LEMMA PanelStep ==
  ASSUME PanelInv, [InspectorNext]_inspectorVars
  PROVE  PanelInv'
<1>1. CASE ScheduleConfig
  <2>1. ASSUME NEW edited, apply(edited)
        PROVE  PanelInv'
    <3>1. PICK e : node' = [node EXCEPT !.expression = e] /\ nodeType' = nodeType
                   /\ nodeType = "cron"
      BY <2>1 DEF apply
    <3>2. /\ DOMAIN node' = DOMAIN node /\ node'.conditions = node.conditions
          /\ node'.model = node.model /\ node'.tools = node.tools
      BY <3>1, NodeDomain
    <3>3. NodeFits(nodeType, node')
      BY <3>1, <3>2, SameFits DEF PanelInv
    <3> QED
      BY <3>1, <3>3 DEF PanelInv
  <2>2. ASSUME NEW m0, TimePicker(m0)
        PROVE  PanelInv'
    BY <2>1, <2>2 DEF TimePicker
  <2>3. CASE ScheduleWeeklyConfig
    <3>1. CASE TimePicker("weekly")
      BY <2>2, <3>1
    <3>2. CASE \E D : apply([form EXCEPT !.days = D])
      BY <2>1, <3>2
    <3> QED
      BY <2>3, <3>1, <3>2 DEF ScheduleWeeklyConfig
  <2> QED
    BY <1>1, <2>1, <2>2, <2>3 DEF ScheduleConfig, ScheduleModeSelect, ScheduleEveryConfig,
       ScheduleHourlyConfig, ScheduleDailyConfig, ScheduleMonthlyConfig, ScheduleCronConfig
<1>2. CASE IfConfig
  BY <1>2, IfConfigFits
<1>3. CASE nodeType = "app" /\ InspectorAppConfig
  BY <1>3, AppConfigFits
<1>4. CASE InspectorChatModelConfig
  BY <1>4, ChatModelFits
<1>5. CASE AgentModelTab
  BY <1>5, AgentModelFits
<1>6. CASE AgentToolsTab
  BY <1>6, AgentToolFits DEF AgentToolsTab
<1>7. CASE AgentMemoryTab \/ FieldRow \/ FailureHandling \/ InspectorConfigPanel
  BY <1>7, OtherPanelsFit
<1>8. CASE UNCHANGED inspectorVars
  BY <1>8 DEF inspectorVars, PanelInv
<1> QED
  BY <1>1, <1>2, <1>3, <1>4, <1>5, <1>6, <1>7, <1>8 DEF InspectorNext, ConfigForm, SlackConfig

\* A node type is looked up in the one table that has it.
Tables == <<triggers, actions, logic, models, legacy>>

LEMMA CatalogEntry ==
  ASSUME NEW t, NEW i \in 1..5, t \in DOMAIN Tables[i],
         \A j \in 1..5 : j # i => t \notin DOMAIN Tables[j]
  PROVE  NODE_CATALOG[t] = Tables[i][t]
<1> DEFINE at(x) == CHOOSE j \in DOMAIN Tables : x \in DOMAIN Tables[j]
<1>1. DOMAIN Tables = 1..5
  BY DEF Tables
<1>2. NODE_CATALOG = [x \in UNION {DOMAIN Tables[j] : j \in DOMAIN Tables} |-> Tables[at(x)][x]]
  BY Zenon DEF NODE_CATALOG, Tables
<1>3. at(t) = i
  BY <1>1
<1>4. t \in UNION {DOMAIN Tables[j] : j \in DOMAIN Tables}
  BY <1>1
<1> HIDE DEF at
<1> QED
  BY <1>2, <1>3, <1>4, Zenon

\* What the catalog requires of app nodes, agents and chat models.
LEMMA CatalogRequires ==
  /\ NODE_CATALOG["app"].needs = {"app", "action"}
  /\ NODE_CATALOG["app"].oneOf = {"credentialId"}
  /\ NODE_CATALOG["aiAgent"].needs = {} /\ NODE_CATALOG["aiAgent"].oneOf = {}
  /\ NODE_CATALOG["chatModel"].needs = {"model", "provider"}
  /\ NODE_CATALOG["chatModel"].oneOf = {"credentialId", "apiKey"}
<1>1. /\ Tables[1] = triggers /\ Tables[2] = actions /\ Tables[3] = logic
      /\ Tables[4] = models /\ Tables[5] = legacy
  BY DEF Tables
<1>2. {"app", "aiAgent", "chatModel"} \cap DOMAIN triggers = {}
  BY DEF triggers
<1>3. "app" \in DOMAIN actions /\ "aiAgent" \in DOMAIN actions /\ "chatModel" \notin DOMAIN actions
  BY DEF actions
<1>4. {"app", "aiAgent", "chatModel"} \cap DOMAIN logic = {}
  BY DEF logic
<1>5. "chatModel" \in DOMAIN models /\ "app" \notin DOMAIN models /\ "aiAgent" \notin DOMAIN models
  BY DEF models
<1>6. {"app", "aiAgent", "chatModel"} \cap DOMAIN legacy = {}
  BY DEF legacy
<1>7. \A j \in 1..5 : j = 1 \/ j = 2 \/ j = 3 \/ j = 4 \/ j = 5
  OBVIOUS
<1>8. NODE_CATALOG["app"] = Tables[2]["app"]
  <2>1. \A j \in 1..5 : j # 2 => "app" \notin DOMAIN Tables[j]
    BY <1>1, <1>2, <1>4, <1>5, <1>6, <1>7
  <2> QED
    BY <1>1, <1>3, <2>1, CatalogEntry
<1>9. NODE_CATALOG["aiAgent"] = Tables[2]["aiAgent"]
  <2>1. \A j \in 1..5 : j # 2 => "aiAgent" \notin DOMAIN Tables[j]
    BY <1>1, <1>2, <1>4, <1>5, <1>6, <1>7
  <2> QED
    BY <1>1, <1>3, <2>1, CatalogEntry
<1>10. NODE_CATALOG["chatModel"] = Tables[4]["chatModel"]
  <2>1. \A j \in 1..5 : j # 4 => "chatModel" \notin DOMAIN Tables[j]
    BY <1>1, <1>2, <1>3, <1>4, <1>6, <1>7
  <2> QED
    BY <1>1, <1>5, <2>1, CatalogEntry
<1>11. actions["app"] = NodeItem("Actions", {"app", "action", "sheetName"}, {"app", "action"},
                                 {"credentialId"})
  BY DEF actions
<1>12. actions["aiAgent"] = NodeItem("Actions", {"prompt", "temperature", "maxTokens"}, {}, {})
  BY DEF actions
<1>13. models["chatModel"] = ChatModelItem({"provider"})
  BY DEF models
<1> QED
  BY <1>1, <1>8, <1>9, <1>10, <1>11, <1>12, <1>13 DEF ChatModelItem, NodeItem

\* The panel of a chat model misses something when the canvas does.
LEMMA InvalidModelShown ==
  ASSUME PanelInv, nodeType = "chatModel"
  PROVE  chatModelInvalid <=> ~validate("chatModel", NoApp, configOf(node.model), NoModel)
<1> DEFINE m == node.model
           has == HoldsText(configOf(m))
           own == IF m.credential = "none" THEN {} ELSE {"credentialId"}
<1>1. m.filled \subseteq {"model", "baseUrl", "apiKey"}
  BY DEF PanelInv, NodeFits
<1>2. has = {"provider"} \cup m.filled \cup own
  <2> DEFINE D == {"provider"} \cup m.filled \cup own
  <2>1. configOf(m) = [k \in D |-> "text"]
    BY Zenon DEF configOf
  <2> HIDE DEF D
  <2>2. HoldsText([k \in D |-> "text"]) = D
    BY DEF HoldsText
  <2> QED
    BY <2>1, <2>2 DEF D
<1>3. validate("chatModel", NoApp, configOf(m), NoModel) <=>
        {"model", "provider"} \subseteq has /\ {"credentialId", "apiKey"} \cap has # {}
  <2> HIDE DEF has
  <2>1. validate("chatModel", NoApp, configOf(m), NoModel) <=>
          /\ {"model", "provider"} \subseteq has
          /\ {"credentialId", "apiKey"} \cup {} # {} =>
               ({"credentialId", "apiKey"} \cup {}) \cap has # {}
    BY CatalogRequires DEF validate, has
  <2> QED
    BY <2>1
<1>4. chatModelInvalid <=> "model" \notin m.filled \/ (m.credential = "none" /\ "apiKey" \notin m.filled)
  BY DEF chatModelInvalid
<1> HIDE DEF has
<1> QED
  BY <1>1, <1>2, <1>3, <1>4

\* When a node fits its type, its panel shows what it holds.
LEMMA FittingIsShown ==
  ASSUME PanelInv
  PROVE  PanelShowsNode
<1>1. AppShown
  BY DEF PanelInv, NodeFits, AppShown
<1>2. OperatorFitsType
  <2>1. shownConditions \in Seq(Conditions)
    BY CoercedConditions DEF PanelInv, NodeFits, shownConditions
  <2>2. ASSUME NEW c \in Conditions
        PROVE  \E o \in ToSet(OPERATORS[c.type]) : o.label = c.operator
    <3>1. PICK t \in DOMAIN OPERATORS :
            c \in [type : {t}, operator : Labels(t), left : BOOLEAN, right : BOOLEAN]
      BY Zenon DEF Conditions, Labels
    <3>2. c.type = t /\ c.operator \in Labels(t)
      BY <3>1
    <3> QED
      BY <3>2 DEF Labels
  <2>3. \A i \in DOMAIN shownConditions : shownConditions[i] \in Conditions
    BY <2>1
  <2> QED
    BY <2>2, <2>3 DEF OperatorFitsType
<1>3. CredentialFits
  BY DEF PanelInv, NodeFits, CredentialFits, Models
<1>4. ToolCredentialShown
  <2>1. ASSUME NEW t \in ShownTools
        PROVE  toolValue(t)["credentialId"] = t.credentialId \/ HidesChange(t)
    <3>1. /\ ConfigFits(t.origin, t.config)
          /\ t.origin = "agent wizard" \/ t.origin = "tool wizard"
      BY ToolHas, Zenon
    <3> DEFINE config == t.config
               id == t.credentialId
               own == [credentialId |-> id]
    <3>2. toolValue(t) =
            [k \in DOMAIN own \cup DOMAIN config |-> IF k \in DOMAIN config THEN config[k] ELSE own[k]]
      BY Zenon DEF toolValue, Patched
    <3>3. "credentialId" \in DOMAIN own /\ own["credentialId"] = id
      OBVIOUS
    <3> HIDE DEF own, config, id
    <3>4. toolValue(t)["credentialId"] =
            IF "credentialId" \in DOMAIN config THEN config["credentialId"] ELSE id
      BY <3>2, <3>3
    <3>5. CASE t.origin = "agent wizard"
      BY <3>1, <3>4, <3>5 DEF ConfigFits, config, id
    <3>6. CASE t.origin = "tool wizard"
      BY <3>1, <3>4, <3>6 DEF ConfigFits, HidesChange, config, id
    <3> QED
      BY <3>1, <3>5, <3>6
  <2>2. \A i \in DOMAIN node.tools : node.tools[i] \in ShownTools
    BY DEF PanelInv, NodeFits
  <2> QED
    BY <2>1, <2>2 DEF ToolCredentialShown
<1> QED
  BY <1>1, <1>2, <1>3, <1>4, InvalidModelShown DEF PanelShowsNode

\* What a panel of the inspector shows is what its node holds and runs with,
\* after any number of edits; only the credential of a tool of the tool wizard is
\* not shown once it was changed (use-inspector-app-config.ts, IfConfig.tsx,
\* AgentModelTab.tsx, agent-config.tsx, AgentToolItem.tsx, chat-model-config.tsx,
\* models.ts).
THEOREM PanelShowsNodeAlways == InspectorSpec => []PanelShowsNode
<1>1. InspectorInit => PanelInv
  BY StoredFits
<1>2. PanelInv /\ [InspectorNext]_inspectorVars => PanelInv'
  BY PanelStep
<1>3. PanelInv => PanelShowsNode
  BY FittingIsShown
<1> QED
  BY <1>1, <1>2, <1>3, PTL DEF InspectorSpec

(***************************************************************************)
(* Part three: the wizard.  The keys of the catalog's actions name their   *)
(* app, and no action asks for a credential among its own fields.          *)
(***************************************************************************)
Proper(a, K) == a.key \in K /\ {"credentialId", "apiKey"} \cap (a.text \cup a.numbers) = {}
AllProper(s, K) == Nonempty(s) /\ \A a \in ToSet(s) : Proper(a, K)

KeysOf ==
  [googleSheets |->
     {"gsheets.createSpreadsheet", "gsheets.deleteSpreadsheet", "gsheets.getSpreadsheet",
      "gsheets.createSheet", "gsheets.deleteSheet", "gsheets.clearRange", "gsheets.copySheet",
      "gsheets.appendRow", "gsheets.updateRow", "gsheets.getRows", "gsheets.deleteRowsOrColumns",
      "gsheets.findRow", "gsheets.onRowAdded", "gsheets.onRowUpdated"},
   gmail |->
     {"gmail.sendEmail", "gmail.replyMessage", "gmail.getMessage", "gmail.listMessages",
      "gmail.addLabel", "gmail.removeLabel", "gmail.markRead", "gmail.markUnread",
      "gmail.createLabel", "gmail.deleteLabel", "gmail.getLabel", "gmail.listLabels",
      "gmail.createDraft", "gmail.getDraft", "gmail.deleteDraft"},
   github |->
     {"github.createIssue", "github.editIssue", "github.getIssue", "github.listIssues",
      "github.createIssueComment", "github.lockIssue", "github.unlockIssue",
      "github.listOrgRepos", "github.listUserRepos", "github.getFile", "github.listFiles",
      "github.createFile", "github.editFile", "github.deleteFile",
      "github.createRelease", "github.getRelease", "github.listReleases"},
   bannerbear |->
     {"bannerbear.createImage", "bannerbear.getImage", "bannerbear.getTemplate",
      "bannerbear.listTemplates", "bannerbear.createVideo", "bannerbear.getVideo"},
   slack |-> {"slack.sendMessage"},
   notion |-> {"notion.createPage"}]

LEMMA ActProper ==
  ASSUME NEW K, NEW key \in K, NEW text, NEW numbers,
         "credentialId" \notin text, "apiKey" \notin text,
         "credentialId" \notin numbers, "apiKey" \notin numbers
  PROVE  /\ Proper(Act(key, text, numbers), K) /\ Proper(Off(Act(key, text, numbers)), K)
         /\ Proper(Off(Trigger(Act(key, text, numbers))), K)
BY DEF Act, Off, Trigger, Proper

LEMMA TupleMembers ==
  /\ \A a : ToSet(<<a>>) = {a}
  /\ \A a, b : ToSet(<<a, b>>) = {a, b}
  /\ \A a, b, c : ToSet(<<a, b, c>>) = {a, b, c}
  /\ \A a, b, c, d : ToSet(<<a, b, c, d>>) = {a, b, c, d}
  /\ \A a, b, c, d, e : ToSet(<<a, b, c, d, e>>) = {a, b, c, d, e}
  /\ \A a, b, c, d, e, f, g : ToSet(<<a, b, c, d, e, f, g>>) = {a, b, c, d, e, f, g}
  /\ \A a, b, c, d, e, f, g, h : ToSet(<<a, b, c, d, e, f, g, h>>) = {a, b, c, d, e, f, g, h}
<1>1. \A a : ToSet(<<a>>) = {a}
  BY DEF ToSet
<1>2. \A a, b : ToSet(<<a, b>>) = {a, b}
  BY DEF ToSet
<1>3. \A a, b, c : ToSet(<<a, b, c>>) = {a, b, c}
  BY DEF ToSet
<1>4. \A a, b, c, d : ToSet(<<a, b, c, d>>) = {a, b, c, d}
  BY DEF ToSet
<1>5. \A a, b, c, d, e : ToSet(<<a, b, c, d, e>>) = {a, b, c, d, e}
  BY DEF ToSet
<1>6. \A a, b, c, d, e, f, g : ToSet(<<a, b, c, d, e, f, g>>) = {a, b, c, d, e, f, g}
  BY DEF ToSet
<1>7. \A a, b, c, d, e, f, g, h : ToSet(<<a, b, c, d, e, f, g, h>>) = {a, b, c, d, e, f, g, h}
  BY DEF ToSet
<1> QED
  BY <1>1, <1>2, <1>3, <1>4, <1>5, <1>6, <1>7, Zenon

LEMMA ConcatProper ==
  ASSUME NEW K, NEW s, NEW t, AllProper(s, K), AllProper(t, K)
  PROVE  AllProper(s \o t, K)
BY ConcatNonempty DEF AllProper

LEMMA SheetsProper == AllProper(listAppActions("googleSheets"), KeysOf["googleSheets"])
<1> DEFINE K == KeysOf["googleSheets"]
<1>1. {"gsheets.createSpreadsheet", "gsheets.deleteSpreadsheet", "gsheets.getSpreadsheet",
       "gsheets.createSheet", "gsheets.deleteSheet", "gsheets.clearRange", "gsheets.copySheet",
       "gsheets.appendRow", "gsheets.updateRow", "gsheets.getRows", "gsheets.deleteRowsOrColumns",
       "gsheets.findRow", "gsheets.onRowAdded", "gsheets.onRowUpdated"} \subseteq K
  BY DEF KeysOf
<1> HIDE DEF K
<1>2. AllProper(googleSheetsDocumentsCategory, K)
  BY <1>1, ActProper, TupleMembers, TuplesNonempty DEF googleSheetsDocumentsCategory, AllProper
<1>3. AllProper(googleSheetsSheetsCategory, K)
  BY <1>1, ActProper, TupleMembers, TuplesNonempty DEF googleSheetsSheetsCategory, AllProper
<1>4. AllProper(googleSheetsRowsCategory, K)
  BY <1>1, ActProper, TupleMembers, TuplesNonempty DEF googleSheetsRowsCategory, AllProper
<1>5. AllProper(googleSheetsTriggersCategory, K)
  BY <1>1, ActProper, TupleMembers, TuplesNonempty DEF googleSheetsTriggersCategory, AllProper
<1>6. AllProper(googleSheetsDocumentsCategory \o googleSheetsSheetsCategory \o
                googleSheetsRowsCategory \o googleSheetsTriggersCategory, K)
  BY <1>2, <1>3, <1>4, <1>5, ConcatProper, Zenon
<1> QED
  BY <1>6 DEF listAppActions, APP_CATALOG, googleSheetsApp, App, K

LEMMA GmailProper == AllProper(listAppActions("gmail"), KeysOf["gmail"])
<1> DEFINE K == KeysOf["gmail"]
<1>1. {"gmail.sendEmail", "gmail.replyMessage", "gmail.getMessage", "gmail.listMessages",
       "gmail.addLabel", "gmail.removeLabel", "gmail.markRead", "gmail.markUnread",
       "gmail.createLabel", "gmail.deleteLabel", "gmail.getLabel", "gmail.listLabels",
       "gmail.createDraft", "gmail.getDraft", "gmail.deleteDraft"} \subseteq K
  BY DEF KeysOf
<1> HIDE DEF K
<1>2. AllProper(gmailMessagesCategory, K)
  BY <1>1, ActProper, TupleMembers, TuplesNonempty DEF gmailMessagesCategory, AllProper
<1>3. AllProper(gmailLabelsCategory, K)
  BY <1>1, ActProper, TupleMembers, TuplesNonempty DEF gmailLabelsCategory, AllProper
<1>4. AllProper(gmailDraftsCategory, K)
  BY <1>1, ActProper, TupleMembers, TuplesNonempty DEF gmailDraftsCategory, AllProper
<1>5. AllProper(gmailMessagesCategory \o gmailLabelsCategory \o gmailDraftsCategory, K)
  BY <1>2, <1>3, <1>4, ConcatProper, Zenon
<1> QED
  BY <1>5 DEF listAppActions, APP_CATALOG, gmailApp, App, K

LEMMA GithubProper == AllProper(listAppActions("github"), KeysOf["github"])
<1> DEFINE K == KeysOf["github"]
<1>1. {"github.createIssue", "github.editIssue", "github.getIssue", "github.listIssues",
       "github.createIssueComment", "github.lockIssue", "github.unlockIssue",
       "github.listOrgRepos", "github.listUserRepos", "github.getFile", "github.listFiles",
       "github.createFile", "github.editFile", "github.deleteFile",
       "github.createRelease", "github.getRelease", "github.listReleases"} \subseteq K
  BY DEF KeysOf
<1> HIDE DEF K
<1>2. AllProper(githubIssuesCategory, K)
  BY <1>1, ActProper, TupleMembers, TuplesNonempty DEF githubIssuesCategory, AllProper
<1>3. AllProper(githubReposCategory, K)
  BY <1>1, ActProper, TupleMembers, TuplesNonempty DEF githubReposCategory, AllProper
<1>4. AllProper(githubReleasesCategory, K)
  BY <1>1, ActProper, TupleMembers, TuplesNonempty DEF githubReleasesCategory, AllProper
<1>5. AllProper(githubIssuesCategory \o githubReposCategory \o githubReleasesCategory, K)
  BY <1>2, <1>3, <1>4, ConcatProper, Zenon
<1> QED
  BY <1>5 DEF listAppActions, APP_CATALOG, githubApp, App, K

LEMMA OthersProper ==
  /\ AllProper(listAppActions("bannerbear"), KeysOf["bannerbear"])
  /\ AllProper(listAppActions("slack"), KeysOf["slack"])
  /\ AllProper(listAppActions("notion"), KeysOf["notion"])
<1> DEFINE K == KeysOf["bannerbear"]
<1>1. {"bannerbear.createImage", "bannerbear.getImage", "bannerbear.getTemplate",
       "bannerbear.listTemplates", "bannerbear.createVideo", "bannerbear.getVideo"} \subseteq K
  BY DEF KeysOf
<1> HIDE DEF K
<1>2. AllProper(imagesCategory, K)
  BY <1>1, ActProper, TupleMembers, TuplesNonempty DEF imagesCategory, AllProper
<1>3. AllProper(templatesCategory, K)
  BY <1>1, ActProper, TupleMembers, TuplesNonempty DEF templatesCategory, AllProper
<1>4. AllProper(videoCategory, K)
  BY <1>1, ActProper, TupleMembers, TuplesNonempty DEF videoCategory, AllProper
<1>5. AllProper(imagesCategory \o templatesCategory \o videoCategory, K)
  BY <1>2, <1>3, <1>4, ConcatProper, Zenon
<1>6. AllProper(listAppActions("bannerbear"), K)
  BY <1>5 DEF listAppActions, APP_CATALOG, bannerbearApp, App
<1>7. "slack.sendMessage" \in KeysOf["slack"] /\ "notion.createPage" \in KeysOf["notion"]
  BY DEF KeysOf
<1>8. AllProper(messagingCategory, KeysOf["slack"])
  BY <1>7, ActProper, TupleMembers, TuplesNonempty DEF messagingCategory, AllProper
<1>9. AllProper(pagesCategory, KeysOf["notion"])
  BY <1>7, ActProper, TupleMembers, TuplesNonempty DEF pagesCategory, AllProper
<1>10. listAppActions("slack") = messagingCategory /\ listAppActions("notion") = pagesCategory
  BY DEF listAppActions, APP_CATALOG, slackApp, notionApp, App
<1> QED
  BY <1>6, <1>8, <1>9, <1>10 DEF K

LEMMA ActionsProper ==
  ASSUME NEW app \in AppKeys, NEW a \in ToSet(listAppActions(app))
  PROVE  Proper(a, KeysOf[app])
BY SheetsProper, GmailProper, GithubProper, OthersProper, AppKeysAre DEF AllProper

\* The key of an action is of one app.
LEMMA KeysApart ==
  ASSUME NEW app \in AppKeys, NEW other \in AppKeys, NEW key \in KeysOf[app], key \in KeysOf[other]
  PROVE  app = other
<1> DEFINE own(k) ==
      CASE k \in KeysOf["googleSheets"] -> "googleSheets" [] k \in KeysOf["gmail"] -> "gmail"
        [] k \in KeysOf["github"] -> "github" [] k \in KeysOf["bannerbear"] -> "bannerbear"
        [] k \in KeysOf["slack"] -> "slack" [] OTHER -> "notion"
<1>1. /\ KeysOf["googleSheets"] \cap KeysOf["gmail"] = {}
      /\ KeysOf["googleSheets"] \cap KeysOf["github"] = {}
      /\ KeysOf["googleSheets"] \cap KeysOf["bannerbear"] = {}
      /\ KeysOf["googleSheets"] \cap KeysOf["slack"] = {}
      /\ KeysOf["googleSheets"] \cap KeysOf["notion"] = {}
  BY DEF KeysOf
<1>2. /\ KeysOf["gmail"] \cap KeysOf["github"] = {}
      /\ KeysOf["gmail"] \cap KeysOf["bannerbear"] = {}
      /\ KeysOf["gmail"] \cap KeysOf["slack"] = {}
      /\ KeysOf["gmail"] \cap KeysOf["notion"] = {}
  BY DEF KeysOf
<1>3. /\ KeysOf["github"] \cap KeysOf["bannerbear"] = {}
      /\ KeysOf["github"] \cap KeysOf["slack"] = {}
      /\ KeysOf["github"] \cap KeysOf["notion"] = {}
      /\ KeysOf["bannerbear"] \cap KeysOf["slack"] = {}
      /\ KeysOf["bannerbear"] \cap KeysOf["notion"] = {}
      /\ KeysOf["slack"] \cap KeysOf["notion"] = {}
  BY DEF KeysOf
<1> QED
  BY <1>1, <1>2, <1>3, AppKeysAre

\* The tools that have a key are actions of one app.
LEMMA ToolsOfKey ==
  ASSUME NEW key, NEW t \in toolFor(key), NEW u \in toolFor(key)
  PROVE  t.app \in AppKeys /\ t.app = u.app /\ t.action \in findAppAction(u.app, key)
<1>1. ASSUME NEW x \in toolFor(key)
      PROVE  /\ x.app \in AppKeys /\ x.action \in ToSet(listAppActions(x.app))
             /\ x.action.key = key
  <2>1. x \in AGENT_TOOL_CATALOG /\ x.action.key = key
    BY DEF toolFor
  <2>2. PICK app \in AppKeys : x \in {[app |-> app, action |-> a] : a \in ToSet(listAppActions(app))}
    BY <2>1 DEF AGENT_TOOL_CATALOG
  <2>3. PICK a \in ToSet(listAppActions(app)) : x = [app |-> app, action |-> a]
    BY <2>2
  <2> QED
    BY <2>1, <2>3
<1>2. key \in KeysOf[t.app] /\ key \in KeysOf[u.app]
  BY <1>1, ActionsProper DEF Proper
<1>3. t.app = u.app
  BY <1>1, <1>2, KeysApart
<1> QED
  BY <1>1, <1>3 DEF findAppAction

(***************************************************************************)
(* The steps of the wizard and the drafts.                                 *)
(***************************************************************************)
LEMMA StepsAre ==
  /\ mode = "add-agent" =>
       /\ Len(steps) = 5 /\ steps[1] = "Agent" /\ steps[2] = "Model" /\ steps[3] = "Memory"
       /\ steps[4] = "Tools" /\ steps[5] = "Review"
  /\ mode = "add-agent-tool" =>
       /\ Len(steps) = 5 /\ steps[1] = "Tool" /\ steps[2] = "Credential"
       /\ steps[3] = "Configure" /\ steps[4] = "Test" /\ steps[5] = "Review"
  /\ mode = "add-app-node" =>
       /\ Len(steps) = 6 /\ steps[1] = "App" /\ steps[2] = "Action" /\ steps[3] = "Credential"
       /\ steps[4] = "Configure" /\ steps[5] = "Test" /\ steps[6] = "Review"
<1>1. mode = "add-agent" => steps = <<"Agent", "Model", "Memory", "Tools", "Review">>
  BY DEF steps, stepsForMode
<1>2. mode = "add-agent-tool" => steps = <<"Tool", "Credential", "Configure", "Test", "Review">>
  BY DEF steps, stepsForMode
<1>3. mode = "add-app-node" =>
        steps = <<"App", "Action", "Credential", "Configure", "Test", "Review">>
  BY DEF steps, stepsForMode
<1> HIDE DEF steps
<1> QED
  BY <1>1, <1>2, <1>3

\* The steps that precede a step that edits the draft.
Before(s) ==
  CASE s = "Action" -> {"App"}
    [] s = "Credential" -> {"App", "Action", "Tool"}
    [] s = "Configure" -> {"App", "Action", "Tool", "Credential"}
    [] s = "Model" -> {"Agent"}
    [] s = "Memory" -> {"Agent", "Model"}
    [] s = "Tools" -> {"Agent", "Model", "Memory"}
    [] OTHER -> {}
EditSteps == {"App", "Action", "Tool", "Credential", "Configure", "Agent", "Model", "Memory", "Tools"}

LEMMA Places ==
  ASSUME NEW n, NEW i \in 1..n
  PROVE  /\ n = 5 => i \in {1, 2, 3, 4, 5}
         /\ n = 6 => i \in {1, 2, 3, 4, 5, 6}
         /\ i \in Int
<1>1. n = 5 => i \in {1, 2, 3, 4, 5}
  OBVIOUS
<1>2. n = 6 => i \in {1, 2, 3, 4, 5, 6}
  OBVIOUS
<1>3. i \in Int
  OBVIOUS
<1> QED
  BY <1>1, <1>2, <1>3, Zenon

LEMMA EarlierSteps ==
  ASSUME mode \in Modes, NEW i \in 1..Len(steps), steps[i] \in EditSteps, NEW j \in 1..i - 1
  PROVE  steps[j] \in Before(steps[i])
<1>1. /\ Len(steps) = 5 => i \in {1, 2, 3, 4, 5} /\ j \in {1, 2, 3, 4}
      /\ Len(steps) = 6 => i \in {1, 2, 3, 4, 5, 6} /\ j \in {1, 2, 3, 4, 5}
      /\ j < i
  <2> DEFINE n == Len(steps)
  <2>1. i \in 1..n
    OBVIOUS
  <2> HIDE DEF n
  <2>2. (n = 5 => i \in {1, 2, 3, 4, 5}) /\ (n = 6 => i \in {1, 2, 3, 4, 5, 6}) /\ i \in Int
    BY <2>1, Places
  <2>3. j \in Int /\ 1 <= j /\ j < i
    BY <2>2
  <2> QED
    BY <2>2, <2>3 DEF n
<1>2. CASE mode = "add-agent"
  BY <1>1, <1>2, StepsAre DEF Before, EditSteps
<1>3. CASE mode = "add-agent-tool"
  BY <1>1, <1>3, StepsAre DEF Before, EditSteps
<1>4. CASE mode = "add-app-node"
  BY <1>1, <1>4, StepsAre DEF Before, EditSteps
<1> QED
  BY <1>2, <1>3, <1>4 DEF Modes

\* The steps that choose an app or a tool are of one mode.
LEMMA ModeOfStep ==
  ASSUME mode \in Modes, stepIndex \in 1..Len(steps)
  PROVE  /\ step = "App" => mode = "add-app-node"
         /\ step = "Tool" => mode = "add-agent-tool"
<1> DEFINE n == Len(steps)
<1>1. stepIndex \in 1..n
  OBVIOUS
<1> HIDE DEF n
<1>2. (n = 5 => stepIndex \in {1, 2, 3, 4, 5}) /\ (n = 6 => stepIndex \in {1, 2, 3, 4, 5, 6})
  BY <1>1, Places
<1> QED
  BY <1>2, StepsAre DEF n, step, Modes

\* The tools a draft may hold.
BareTools == {useAgentToolsStep(defaultActionKeyForApp(app)) : app \in Apps}

\* What a draft holds besides what the validation of its steps says of it.
DraftFits(m, d) ==
  /\ DOMAIN d = {"app", "action", "label", "model", "memory", "tools", "config"}
  /\ d.app \in AppKeys \cup {NoApp}
  /\ d.app # NoApp => m = "add-app-node" /\ findAppAction(d.app, d.action) # {}
  /\ m = "add-agent-tool" => "credentialId" \in DOMAIN d.config
  /\ d.tools \in Seq(BareTools)

\* What is open fits its mode, the steps that were left stay valid, and what was
\* added needs no more configuring.
WizardInv ==
  /\ mode \in Modes /\ stepIndex \in 1..Len(steps) /\ DraftFits(mode, draft)
  /\ AddedIsConfigured

\* The credentials a configuration holds.
Credentials(config) == {"credentialId", "apiKey"} \cap HoldsText(config)

LEMMA PatchedHolds ==
  ASSUME NEW c, NEW patch
  PROVE  /\ DOMAIN c \subseteq DOMAIN Patched(c, patch)
         /\ {"credentialId", "apiKey"} \cap DOMAIN patch = {} =>
              Credentials(Patched(c, patch)) = Credentials(c)
<1> DEFINE p == Patched(c, patch)
           K == DOMAIN patch
<1>2. /\ DOMAIN p = DOMAIN c \cup K
      /\ \A k \in DOMAIN c \cup K : k \notin K => p[k] = c[k]
  BY DEF Patched
<1> HIDE DEF p
<1>3. HoldsText(p) = {k \in DOMAIN c \cup K : p[k] \notin {"number", "blank"}}
  BY <1>2 DEF HoldsText
<1>4. ASSUME {"credentialId", "apiKey"} \cap K = {}, NEW k \in {"credentialId", "apiKey"}
      PROVE  k \in HoldsText(p) <=> k \in HoldsText(c)
  BY <1>2, <1>3, <1>4 DEF HoldsText
<1> QED
  BY <1>2, <1>4 DEF Credentials, p

\* What the validation of each step looks at.
LEMMA StepLooksAt ==
  ASSUME NEW d, NEW e, DOMAIN d = DOMAIN e
  PROVE  /\ d.app = e.app => validateStep("App", d) = validateStep("App", e)
         /\ d.app = e.app /\ d.action = e.action =>
              validateStep("Action", d) = validateStep("Action", e)
         /\ d.action = e.action => validateStep("Tool", d) = validateStep("Tool", e)
         /\ d.app = e.app /\ d.action = e.action /\ Credentials(d.config) = Credentials(e.config) =>
              (validateStep("Credential", d) = {} <=> validateStep("Credential", e) = {})
         /\ d.label = e.label => validateStep("Agent", d) = validateStep("Agent", e)
         /\ d.model = e.model => validateStep("Model", d) = validateStep("Model", e)
         /\ validateStep("Memory", d) = {}
<1>1. d.app = e.app => validateStep("App", d) = validateStep("App", e)
  BY DEF validateStep
<1>2. d.app = e.app /\ d.action = e.action =>
        validateStep("Action", d) = validateStep("Action", e)
  BY DEF validateStep
<1>3. d.action = e.action => validateStep("Tool", d) = validateStep("Tool", e)
  BY DEF validateStep
<1>4. d.label = e.label => validateStep("Agent", d) = validateStep("Agent", e)
  BY DEF validateStep
<1>5. d.model = e.model => validateStep("Model", d) = validateStep("Model", e)
  BY DEF validateStep
<1>6. validateStep("Memory", d) = {}
  BY DEF validateStep
<1>7. ASSUME d.app = e.app, d.action = e.action, Credentials(d.config) = Credentials(e.config)
      PROVE  validateStep("Credential", d) = {} <=> validateStep("Credential", e) = {}
  <2>1. appOf(d) = appOf(e)
    BY <1>7 DEF appOf
  <2>2. ASSUME NEW app, NEW x
        PROVE  validateCredentialRequirement(app, x) = {} <=>
                 IF app = "bannerbear" THEN Credentials(x) # {}
                 ELSE "credentialId" \in Credentials(x)
    BY DEF validateCredentialRequirement, Credentials
  <2>3. ASSUME NEW x
        PROVE  validateStep("Credential", x) = {} <=>
                 appOf(x) # NoApp /\ validateCredentialRequirement(appOf(x), x.config) = {}
    BY DEF validateStep
  <2> QED
    BY <1>7, <2>1, <2>2, <2>3
<1> QED
  BY <1>1, <1>2, <1>3, <1>4, <1>5, <1>6, <1>7

\* The invariant holds again where the mode stays and the steps that were left are valid.
LEMMA PassedAgain ==
  ASSUME WizardInv, mode' = mode, added' = added, stepIndex' \in 1..Len(steps),
         DraftFits(mode, draft'),
         isOpen' => \A i \in 1..stepIndex' - 1 : validateStep(steps[i], draft') = {}
  PROVE  WizardInv'
<1>1. steps' = steps
  BY DEF steps
<1>2. ASSUME NEW s PROVE validateStep(s, draft)' = validateStep(s, draft')
  BY DEF validateStep, appOf, useWizardConfigureStep
<1>3. PassedStepsHold'
  BY <1>1, <1>2 DEF PassedStepsHold
<1>4. (\A n \in added : IsConfigured(n))'
  BY DEF WizardInv, AddedIsConfigured
<1> QED
  BY <1>1, <1>3, <1>4 DEF WizardInv, AddedIsConfigured

\* An edit that leaves the validation of the earlier steps alone.
LEMMA DraftEdited ==
  ASSUME WizardInv, NEW s \in EditSteps, NEW d, setDraft(s, d), DraftFits(mode, d),
         \A b \in Before(s) : validateStep(b, draft) = {} => validateStep(b, d) = {}
  PROVE  WizardInv'
<1>1. /\ isOpen /\ steps[stepIndex] = s /\ draft' = d
      /\ UNCHANGED <<isOpen, mode, stepIndex, added>>
  BY DEF setDraft, step
<1>2. stepIndex \in 1..Len(steps) /\ mode \in Modes
  BY DEF WizardInv
<1>3. ASSUME NEW i \in 1..stepIndex - 1
      PROVE  validateStep(steps[i], d) = {}
  <2>1. steps[i] \in Before(s)
    BY <1>1, <1>2, EarlierSteps
  <2>2. validateStep(steps[i], draft) = {}
    BY <1>1 DEF WizardInv, AddedIsConfigured, PassedStepsHold
  <2> QED
    BY <2>1, <2>2
<1> QED
  BY <1>1, <1>2, <1>3, PassedAgain

\* The app of a draft is in the catalog.
LEMMA AppOfDraft ==
  ASSUME WizardInv
  PROVE  /\ appOf(draft) \in AppKeys \cup {NoApp}
         /\ mode = "add-agent-tool" /\ appOf(draft) # NoApp =>
              \E t \in toolFor(draft.action) : appOf(draft) = t.app
         /\ mode # "add-agent-tool" => appOf(draft) = draft.app
<1>1. CASE mode = "add-agent-tool"
  <2>1. CASE toolFor(draft.action) = {}
    BY <1>1, <2>1 DEF appOf
  <2>2. CASE toolFor(draft.action) # {}
    <3>1. PICK t \in toolFor(draft.action) : appOf(draft) = t.app
      BY <1>1, <2>2 DEF appOf
    <3> QED
      BY <1>1, <3>1, ToolsOfKey
  <2> QED
    BY <2>1, <2>2
<1>2. CASE mode # "add-agent-tool"
  BY <1>2 DEF appOf, WizardInv, DraftFits
<1> QED
  BY <1>1, <1>2

\* The steps' edits.
LEMMA AppSelectKeeps ==
  ASSUME WizardInv, AppSelectStep
  PROVE  WizardInv'
<1>1. PICK app \in Apps :
        setDraft("App", [draft EXCEPT !.app = app, !.action = defaultActionKeyForApp(app),
                           !.config = Patched(@, [app |-> "text", action |-> "text"])])
  BY DEF AppSelectStep
<1> DEFINE config == Patched(draft.config, [app |-> "text", action |-> "text"])
           action == defaultActionKeyForApp(app)
           d == [draft EXCEPT !.app = app, !.action = action, !.config = config]
<1>2. setDraft("App", d)
  BY <1>1, Zenon
<1>3. app \in AppKeys /\ findAppAction(app, action) # {}
  BY WizardAssumption, DefaultIsFound
<1>4. DOMAIN draft = {"app", "action", "label", "model", "memory", "tools", "config"}
  BY DEF WizardInv, DraftFits
<1>5. mode = "add-app-node"
  BY <1>2, ModeOfStep DEF setDraft, WizardInv
<1> HIDE DEF config, action
<1>6. DOMAIN d = DOMAIN draft /\ d.app = app /\ d.action = action /\ d.tools = draft.tools
  BY <1>4
<1>9. draft.tools \in Seq(BareTools)
  BY DEF WizardInv, DraftFits
<1>7. DraftFits(mode, d)
  BY <1>9, <1>3, <1>4, <1>5, <1>6 DEF DraftFits
<1>8. "App" \in EditSteps /\ Before("App") = {}
  BY DEF EditSteps, Before
<1> HIDE DEF d
<1> QED
  BY <1>2, <1>7, <1>8, DraftEdited

LEMMA ActionSelectKeeps ==
  ASSUME WizardInv, ActionSelectStep
  PROVE  WizardInv'
<1>1. PICK a \in IF draft.app = NoApp THEN {} ELSE AppActionList(draft.app) :
        setDraft("Action", [draft EXCEPT !.action = a.key,
                              !.config = Patched(@, [action |-> "text"])])
  BY DEF ActionSelectStep
<1> DEFINE config == Patched(draft.config, [action |-> "text"])
           key == a.key
           d == [draft EXCEPT !.action = key, !.config = config]
<1>2. setDraft("Action", d)
  BY <1>1, Zenon
<1>3. draft.app # NoApp /\ findAppAction(draft.app, key) # {}
  BY <1>1 DEF AppActionList, findAppAction
<1>4. DOMAIN draft = {"app", "action", "label", "model", "memory", "tools", "config"}
      /\ DraftFits(mode, draft)
  BY DEF WizardInv, DraftFits
<1>5. draft.app \in AppKeys /\ mode = "add-app-node"
  BY <1>3, <1>4 DEF DraftFits
<1> HIDE DEF config, key
<1>6. DOMAIN d = DOMAIN draft /\ d.app = draft.app /\ d.action = key /\ d.tools = draft.tools
  BY <1>4
<1>7. DraftFits(mode, d)
  BY <1>3, <1>4, <1>5, <1>6 DEF DraftFits
<1>8. "Action" \in EditSteps /\ Before("Action") = {"App"}
  BY DEF EditSteps, Before
<1>9. validateStep("App", d) = validateStep("App", draft)
  BY <1>6, StepLooksAt
<1> HIDE DEF d
<1> QED
  BY <1>2, <1>7, <1>8, <1>9, DraftEdited

LEMMA ToolSelectKeeps ==
  ASSUME WizardInv, ToolSelectStep
  PROVE  WizardInv'
<1>1. PICK key : setDraft("Tool", [draft EXCEPT !.action = key])
  BY DEF ToolSelectStep
<1> DEFINE d == [draft EXCEPT !.action = key]
<1>2. DOMAIN draft = {"app", "action", "label", "model", "memory", "tools", "config"}
      /\ DraftFits(mode, draft)
  BY DEF WizardInv, DraftFits
<1>3. mode = "add-agent-tool"
  BY <1>1, ModeOfStep DEF setDraft, WizardInv
<1>4. /\ DOMAIN d = DOMAIN draft /\ d.app = draft.app /\ d.config = draft.config
      /\ d.tools = draft.tools
  BY <1>2
<1>5. draft.app = NoApp
  BY <1>2, <1>3 DEF DraftFits
<1>6. DraftFits(mode, d)
  BY <1>2, <1>3, <1>4, <1>5 DEF DraftFits
<1>7. "Tool" \in EditSteps /\ Before("Tool") = {}
  BY DEF EditSteps, Before
<1> HIDE DEF d
<1> QED
  BY <1>1, <1>6, <1>7, DraftEdited DEF d

\* A field of a form: the credentials stay, unless it is the credentials' own form.
LEMMA FieldKeeps ==
  ASSUME WizardInv, NEW s \in {"Credential", "Configure"}, NEW k, NEW v,
         s = "Configure" => k \notin {"credentialId", "apiKey"},
         setDraft(s, [draft EXCEPT !.config = Patched(@, [key \in {k} |-> v])])
  PROVE  WizardInv'
<1> DEFINE config == Patched(draft.config, [key \in {k} |-> v])
           d == [draft EXCEPT !.config = config]
<1>1. setDraft(s, d)
  BY Zenon
<1>2. DOMAIN draft = {"app", "action", "label", "model", "memory", "tools", "config"}
      /\ DraftFits(mode, draft)
  BY DEF WizardInv, DraftFits
<1>3. /\ DOMAIN draft.config \subseteq DOMAIN config
      /\ s = "Configure" => Credentials(config) = Credentials(draft.config)
  <2>1. s = "Configure" => {"credentialId", "apiKey"} \cap {k} = {}
    OBVIOUS
  <2> DEFINE patch == [key \in {k} |-> v]
  <2>2. config = Patched(draft.config, patch)
    BY Zenon
  <2>3. DOMAIN patch = {k}
    OBVIOUS
  <2> HIDE DEF patch, config
  <2> QED
    BY <2>1, <2>2, <2>3, PatchedHolds
<1> HIDE DEF config
<1>4. /\ DOMAIN d = DOMAIN draft /\ d.app = draft.app /\ d.action = draft.action
      /\ d.config = config /\ d.tools = draft.tools
  BY <1>2
<1> HIDE DEF d
<1>5. DraftFits(mode, d)
  BY <1>2, <1>3, <1>4 DEF DraftFits
<1>6. ASSUME NEW b \in Before(s), validateStep(b, draft) = {}
      PROVE  validateStep(b, d) = {}
  <2>1. b \in {"App", "Action", "Tool"} \/ (b = "Credential" /\ s = "Configure")
    BY <1>6 DEF Before
  <2> QED
    BY <1>3, <1>4, <1>6, <2>1, StepLooksAt
<1>7. s \in EditSteps
  BY DEF EditSteps
<1> QED
  BY <1>1, <1>5, <1>6, <1>7, DraftEdited

LEMMA FormKeeps ==
  ASSUME WizardInv, WizardCredentialStep \/ WizardConfigureStep
  PROVE  WizardInv'
<1>1. ASSUME NEW s \in {"Credential", "Configure"}, NEW K, NEW v, SchemaForm(s, K, v),
             s = "Configure" => {"credentialId", "apiKey"} \cap K = {}
      PROVE  WizardInv'
  <2>1. PICK k \in K : setDraft(s, [draft EXCEPT !.config = Patched(@, [key \in {k} |-> v])])
    BY <1>1, Zenon DEF SchemaForm
  <2>2. s = "Configure" => k \notin {"credentialId", "apiKey"}
    BY <1>1
  <2> QED
    BY <2>1, <2>2, FieldKeeps
<1>2. CASE WizardCredentialStep
  BY <1>1, <1>2 DEF WizardCredentialStep
<1>3. CASE WizardConfigureStep
  <2>1. PICK a \in useWizardConfigureStep(draft) :
          (\E v : SchemaForm("Configure", a.text, v)) \/ (\E v : SchemaForm("Configure", a.numbers, v))
    BY <1>3 DEF WizardConfigureStep
  <2>2. appOf(draft) \in AppKeys /\ a \in ToSet(listAppActions(appOf(draft)))
    BY <2>1, AppOfDraft DEF useWizardConfigureStep, findAppAction
  <2>3. {"credentialId", "apiKey"} \cap (a.text \cup a.numbers) = {}
    BY <2>2, ActionsProper DEF Proper
  <2>4. {"credentialId", "apiKey"} \cap a.text = {} /\ {"credentialId", "apiKey"} \cap a.numbers = {}
    BY <2>3
  <2> QED
    BY <1>1, <2>1, <2>4
<1> QED
  BY <1>2, <1>3

\* What an agent's steps edit is looked at by their own steps only.
LEMMA AgentStepsKeep ==
  ASSUME WizardInv, AgentBasicsStep \/ AgentModelStep \/ AgentMemoryStep \/ AgentToolsStep
  PROVE  WizardInv'
<1> DEFINE Parts == {"app", "action", "label", "model", "memory", "tools", "config"}
<1>1. DOMAIN draft = Parts /\ DraftFits(mode, draft) /\ draft.tools \in Seq(BareTools)
  BY DEF WizardInv, DraftFits
<1>2. ASSUME NEW s \in {"Agent", "Model", "Memory", "Tools"}, NEW d, setDraft(s, d),
             DOMAIN d = DOMAIN draft, d.app = draft.app, d.action = draft.action,
             d.config = draft.config, s # "Agent" => d.label = draft.label,
             s \in {"Memory", "Tools"} => d.model = draft.model,
             d.tools \in Seq(BareTools)
      PROVE  WizardInv'
  <2>1. DraftFits(mode, d)
    BY <1>1, <1>2 DEF DraftFits
  <2>2. ASSUME NEW b \in Before(s), validateStep(b, draft) = {}
        PROVE  validateStep(b, d) = {}
    <3>1. b = "Memory" \/ (b = "Agent" /\ s # "Agent") \/ (b = "Model" /\ s \in {"Memory", "Tools"})
      BY <1>2 DEF Before
    <3> QED
      BY <1>2, <2>2, <3>1, StepLooksAt
  <2>3. s \in EditSteps
    BY DEF EditSteps
  <2> QED
    BY <1>2, <2>1, <2>2, <2>3, DraftEdited
<1>3. ASSUME NEW v
      PROVE  /\ setDraft("Agent", [draft EXCEPT !.label = v]) => WizardInv'
             /\ setDraft("Model", [draft EXCEPT !.model = v]) => WizardInv'
             /\ setDraft("Memory", [draft EXCEPT !.memory = v]) => WizardInv'
             /\ v \in Seq(BareTools) /\ setDraft("Tools", [draft EXCEPT !.tools = v]) => WizardInv'
  <2>1. setDraft("Agent", [draft EXCEPT !.label = v]) => WizardInv'
    <3> DEFINE d == [draft EXCEPT !.label = v]
    <3>1. /\ DOMAIN d = DOMAIN draft /\ d.app = draft.app /\ d.action = draft.action
          /\ d.config = draft.config /\ d.tools = draft.tools
      BY <1>1
    <3> HIDE DEF d
    <3>2. setDraft("Agent", d) => WizardInv'
      BY <1>1, <1>2, <3>1
    <3> QED
      BY <3>2 DEF d
  <2>2. setDraft("Model", [draft EXCEPT !.model = v]) => WizardInv'
    <3> DEFINE d == [draft EXCEPT !.model = v]
    <3>1. /\ DOMAIN d = DOMAIN draft /\ d.app = draft.app /\ d.action = draft.action
          /\ d.config = draft.config /\ d.label = draft.label
          /\ d.tools = draft.tools
      BY <1>1
    <3> HIDE DEF d
    <3>2. setDraft("Model", d) => WizardInv'
      BY <1>1, <1>2, <3>1
    <3> QED
      BY <3>2 DEF d
  <2>3. setDraft("Memory", [draft EXCEPT !.memory = v]) => WizardInv'
    <3> DEFINE d == [draft EXCEPT !.memory = v]
    <3>1. /\ DOMAIN d = DOMAIN draft /\ d.app = draft.app /\ d.action = draft.action
          /\ d.config = draft.config /\ d.label = draft.label /\ d.model = draft.model
          /\ d.tools = draft.tools
      BY <1>1
    <3> HIDE DEF d
    <3>2. setDraft("Memory", d) => WizardInv'
      BY <1>1, <1>2, <3>1
    <3> QED
      BY <3>2 DEF d
  <2>4. v \in Seq(BareTools) /\ setDraft("Tools", [draft EXCEPT !.tools = v]) => WizardInv'
    <3> DEFINE d == [draft EXCEPT !.tools = v]
    <3>1. /\ DOMAIN d = DOMAIN draft /\ d.app = draft.app /\ d.action = draft.action
          /\ d.config = draft.config /\ d.label = draft.label /\ d.model = draft.model
          /\ d.tools = v
      BY <1>1
    <3> HIDE DEF d
    <3>2. v \in Seq(BareTools) /\ setDraft("Tools", d) => WizardInv'
      BY <1>2, <3>1
    <3> QED
      BY <3>2 DEF d
  <2> QED
    BY <2>1, <2>2, <2>3, <2>4, Zenon
<1>4. CASE AgentBasicsStep
  <2>1. \E v : setDraft("Agent", [draft EXCEPT !.label = v])
    BY <1>4, Zenon DEF AgentBasicsStep
  <2> QED
    BY <1>3, <2>1, Zenon
<1>5. CASE AgentModelStep
  <2>1. CASE \E p \in DOMAIN MODEL_PROVIDERS :
               setDraft("Model", [draft EXCEPT !.model = defaultModel(p)])
    BY <1>3, <2>1, Zenon
  <2>2. ASSUME NEW filled, setDraft("Model", [draft EXCEPT !.model.filled = filled])
        PROVE  WizardInv'
    <3> DEFINE v == [draft.model EXCEPT !.filled = filled]
    <3>1. setDraft("Model", [draft EXCEPT !.model = v])
      BY <2>2, Zenon
    <3> HIDE DEF v
    <3> QED
      BY <1>3, <3>1, Zenon
  <2> QED
    BY <1>5, <2>1, <2>2, Zenon DEF AgentModelStep
<1>6. CASE AgentMemoryStep
  <2>1. \E v : setDraft("Memory", [draft EXCEPT !.memory = v])
    BY <1>6, Zenon DEF AgentMemoryStep
  <2> QED
    BY <1>3, <2>1, Zenon
<1>7. CASE AgentToolsStep
  <2>1. ASSUME NEW app \in Apps,
               LET tool == useAgentToolsStep(defaultActionKeyForApp(app))
               IN setDraft("Tools", [draft EXCEPT !.tools = Append(@, tool)])
        PROVE  WizardInv'
    <3> DEFINE v == Append(draft.tools, useAgentToolsStep(defaultActionKeyForApp(app)))
    <3>1. setDraft("Tools", [draft EXCEPT !.tools = v])
      BY <2>1, Zenon
    <3>2. v \in Seq(BareTools)
      BY <1>1 DEF BareTools
    <3> HIDE DEF v
    <3> QED
      BY <1>3, <3>1, <3>2, Zenon
  <2>2. ASSUME NEW i \in DOMAIN draft.tools,
               setDraft("Tools", [draft EXCEPT !.tools = RemoveAt(@, i)])
        PROVE  WizardInv'
    <3>1. RemoveAt(draft.tools, i) \in Seq(BareTools)
      BY <1>1, RemovedIsSeq
    <3> QED
      BY <1>3, <2>2, <3>1, Zenon
  <2> QED
    BY <1>7, <2>1, <2>2, Zenon DEF AgentToolsStep
<1> QED
  BY <1>4, <1>5, <1>6, <1>7

LEMMA EditKeeps ==
  ASSUME WizardInv, Edit
  PROVE  WizardInv'
BY AppSelectKeeps, ActionSelectKeeps, ToolSelectKeeps, FormKeeps, AgentStepsKeep DEF Edit

\* The drafts a wizard starts with.
LEMMA DefaultsFit ==
  /\ DraftFits("add-app-node", buildDefaultAppDraft(NoApp))
  /\ \A app \in Apps : DraftFits("add-app-node", buildDefaultAppDraft(app))
  /\ DraftFits("add-agent", buildDefaultAgentDraft)
  /\ DraftFits("add-agent-tool", buildDefaultToolDraft)
<1>1. ASSUME NEW app
      PROVE  /\ DOMAIN buildDefaultAppDraft(app) =
                  {"app", "action", "label", "model", "memory", "tools", "config"}
             /\ buildDefaultAppDraft(app).app = app
             /\ buildDefaultAppDraft(app).tools \in Seq(BareTools)
             /\ app # NoApp => buildDefaultAppDraft(app).action = defaultActionKeyForApp(app)
  BY DEF buildDefaultAppDraft
<1>2. DraftFits("add-app-node", buildDefaultAppDraft(NoApp))
  BY <1>1 DEF DraftFits
<1>3. ASSUME NEW app \in Apps PROVE DraftFits("add-app-node", buildDefaultAppDraft(app))
  <2>1. app \in AppKeys /\ findAppAction(app, defaultActionKeyForApp(app)) # {}
    BY WizardAssumption, DefaultIsFound
  <2>2. app # NoApp
    BY <2>1, CatalogAssumption
  <2> QED
    BY <1>1, <2>1, <2>2 DEF DraftFits
<1> DEFINE none == buildDefaultAppDraft(NoApp)
<1>4. DOMAIN none = {"app", "action", "label", "model", "memory", "tools", "config"}
      /\ none.app = NoApp /\ none.tools \in Seq(BareTools)
  BY <1>1
<1> HIDE DEF none
<1>5. ASSUME NEW config
      PROVE  /\ DOMAIN [none EXCEPT !.config = config] = DOMAIN none
             /\ [none EXCEPT !.config = config].app = NoApp
             /\ [none EXCEPT !.config = config].config = config
             /\ [none EXCEPT !.config = config].tools = none.tools
  BY <1>4
<1>6. DraftFits("add-agent", buildDefaultAgentDraft)
  <2>1. buildDefaultAgentDraft = [none EXCEPT !.config = createDefaultNodeData("aiAgent")]
    BY Zenon DEF buildDefaultAgentDraft, none
  <2> QED
    BY <1>4, <1>5, <2>1 DEF DraftFits
<1>7. DraftFits("add-agent-tool", buildDefaultToolDraft)
  <2> DEFINE blank == [k \in {"credentialId"} |-> "blank"]
  <2>1. buildDefaultToolDraft = [none EXCEPT !.config = blank]
    BY Zenon DEF buildDefaultToolDraft, none
  <2>2. "credentialId" \in DOMAIN blank
    OBVIOUS
  <2> HIDE DEF blank
  <2> QED
    BY <1>4, <1>5, <2>1, <2>2 DEF DraftFits
<1> QED
  BY <1>2, <1>3, <1>6, <1>7, Zenon DEF none

\* A wizard that is opened or closed has no step behind it.
LEMMA FreshWizard ==
  ASSUME mode' \in Modes, stepIndex' = 1, DraftFits(mode', draft'),
         \A n \in added' : IsConfigured(n)
  PROVE  WizardInv'
<1>1. stepIndex' \in 1..Len(steps')
  BY StepsAre DEF Modes, steps, stepsForMode
<1>2. PassedStepsHold'
  <2>1. 1..stepIndex' - 1 = {}
    OBVIOUS
  <2> QED
    BY <2>1 DEF PassedStepsHold
<1>3. Modes' = Modes
  BY DEF Modes
<1> QED
  BY <1>1, <1>2 DEF WizardInv, AddedIsConfigured, Modes

LEMMA OpenKeeps ==
  ASSUME WizardInv, (\E app \in Apps : openAddAppNode(app)) \/ openAddAgent \/ openAddAgentTool
  PROVE  WizardInv'
<1>1. ASSUME NEW m \in Modes, NEW d, DraftFits(m, d), Open(m, d)
      PROVE  WizardInv'
  BY <1>1, FreshWizard DEF Open
<1> QED
  BY <1>1, DefaultsFit DEF openAddAppNode, openAddAgent, openAddAgentTool, Modes

LEMMA CloseKeeps ==
  ASSUME Closed, \A n \in added' : IsConfigured(n)
  PROVE  WizardInv'
BY FreshWizard, DefaultsFit DEF Closed, Modes

\* Next and Back; the Model step may fill in a model.
LEMMA ShownKeeps ==
  ASSUME WizardInv, NEW i \in 1..Len(steps), Shown(i),
         \A j \in 1..i - 1 : validateStep(steps[j], draft) = {}
  PROVE  WizardInv'
<1> DEFINE filled == mode = "add-agent" /\ steps[i] = "Model" /\ draft.model = NoModel
           d == [draft EXCEPT !.model = defaultModel("openai")]
<1>1. /\ draft' = IF filled THEN d ELSE draft
      /\ stepIndex' = i /\ UNCHANGED <<mode, added>>
  BY Zenon DEF Shown
<1>2. DOMAIN draft = {"app", "action", "label", "model", "memory", "tools", "config"}
      /\ DraftFits(mode, draft) /\ mode \in Modes
  BY DEF WizardInv, DraftFits
<1>3. CASE ~filled
  BY <1>1, <1>2, <1>3, PassedAgain
<1>4. CASE filled
  <2>1. /\ DOMAIN d = DOMAIN draft /\ d.app = draft.app /\ d.action = draft.action
        /\ d.config = draft.config /\ d.label = draft.label /\ d.tools = draft.tools
    BY <1>2
  <2>2. steps[i] = "Model"
    BY <1>4
  <2> HIDE DEF d
  <2>3. DraftFits(mode, d)
    BY <1>2, <2>1 DEF DraftFits
  <2>4. ASSUME NEW j \in 1..i - 1 PROVE validateStep(steps[j], d) = {}
    <3>1. steps[j] \in Before("Model")
      BY <1>2, <2>2, EarlierSteps DEF EditSteps
    <3>2. steps[j] = "Agent"
      BY <3>1 DEF Before
    <3> QED
      BY <2>1, <3>2, StepLooksAt
  <2> QED
    BY <1>1, <1>4, <2>3, <2>4, PassedAgain
<1> QED
  BY <1>3, <1>4

LEMMA NavigationKeeps ==
  ASSUME WizardInv, nextStep \/ prevStep
  PROVE  WizardInv'
<1> DEFINE n == Len(steps)
<1>1. stepIndex \in 1..n /\ n \in Nat
  <2>1. n \in {5, 6}
    BY StepsAre DEF WizardInv, Modes
  <2> QED
    BY <2>1 DEF WizardInv
<1>2. isOpen /\ \A j \in 1..stepIndex - 1 : validateStep(steps[j], draft) = {}
  BY DEF WizardInv, AddedIsConfigured, PassedStepsHold, nextStep, prevStep
<1>3. CASE nextStep
  <2>1. /\ stepIndex # n /\ Shown(stepIndex + 1) /\ validateStep(steps[stepIndex], draft) = {}
    BY <1>3 DEF nextStep, isLast, validateCurrentStep, step
  <2> HIDE DEF n
  <2>2. stepIndex + 1 \in 1..n
    BY <1>1, <2>1
  <2>3. \A j \in 1..(stepIndex + 1) - 1 : j \in 1..stepIndex - 1 \/ j = stepIndex
    BY <1>1
  <2> QED
    BY <1>2, <2>1, <2>2, <2>3, ShownKeeps DEF n
<1>4. CASE prevStep
  <2>1. stepIndex > 1 /\ Shown(stepIndex - 1)
    BY <1>4 DEF prevStep
  <2> HIDE DEF n
  <2>2. stepIndex - 1 \in 1..n
    BY <1>1, <2>1
  <2>3. \A j \in 1..(stepIndex - 1) - 1 : j \in 1..stepIndex - 1
    BY <1>1
  <2> QED
    BY <1>2, <2>1, <2>2, <2>3, ShownKeeps DEF n
<1> QED
  BY <1>3, <1>4

(***************************************************************************)
(* What confirming adds.                                                   *)
(***************************************************************************)
LEMMA BaseOfApp ==
  ASSUME NEW app \in AppKeys
  PROVE  APP_CATALOG[app].base = IF app = "bannerbear" THEN {} ELSE {"credentialId"}
<1>1. ASSUME NEW p, NEW b, NEW a PROVE App(p, b, a).base = b
  BY DEF App
<1>2. googleSheetsApp.base = {"credentialId"}
  BY <1>1, Zenon DEF googleSheetsApp
<1>3. gmailApp.base = {"credentialId"}
  BY <1>1, Zenon DEF gmailApp
<1>4. githubApp.base = {"credentialId"}
  BY <1>1, Zenon DEF githubApp
<1>5. bannerbearApp.base = {}
  BY <1>1, Zenon DEF bannerbearApp
<1>6. slackApp.base = {"credentialId"}
  BY <1>1, Zenon DEF slackApp
<1>7. notionApp.base = {"credentialId"}
  BY <1>1, Zenon DEF notionApp
<1>8. /\ APP_CATALOG["googleSheets"] = googleSheetsApp /\ APP_CATALOG["gmail"] = gmailApp
      /\ APP_CATALOG["github"] = githubApp /\ APP_CATALOG["bannerbear"] = bannerbearApp
      /\ APP_CATALOG["slack"] = slackApp /\ APP_CATALOG["notion"] = notionApp
  BY DEF APP_CATALOG
<1> QED
  BY <1>2, <1>3, <1>4, <1>5, <1>6, <1>7, <1>8, AppKeysAre

\* What the two steps about an app's action say once they are valid.
LEMMA ValidSteps ==
  ASSUME NEW d, validateStep("Credential", d) = {}, validateStep("Configure", d) = {}
  PROVE  /\ appOf(d) # NoApp
         /\ validateCredentialRequirement(appOf(d), d.config) = {}
         /\ IF appOf(d) = "bannerbear" THEN Credentials(d.config) # {}
            ELSE "credentialId" \in HoldsText(d.config)
         /\ \A a \in findAppAction(appOf(d), d.action) :
              a.text \cup a.numbers \subseteq HoldsText(d.config)
<1>1. appOf(d) # NoApp /\ validateCredentialRequirement(appOf(d), d.config) = {}
  BY DEF validateStep
<1>2. IF appOf(d) = "bannerbear" THEN Credentials(d.config) # {}
      ELSE "credentialId" \in HoldsText(d.config)
  BY <1>1 DEF validateCredentialRequirement, Credentials
<1>3. UNION {validateSchema(a, d.config) : a \in useWizardConfigureStep(d)} = {}
  BY <1>1 DEF validateStep
<1>4. useWizardConfigureStep(d) = findAppAction(appOf(d), d.action)
  BY <1>1 DEF useWizardConfigureStep
<1>5. ASSUME NEW a \in findAppAction(appOf(d), d.action)
      PROVE  a.text \cup a.numbers \subseteq HoldsText(d.config)
  <2>1. validateSchema(a, d.config) = {}
    BY <1>3, <1>4
  <2> QED
    BY <2>1 DEF validateSchema
<1> QED
  BY <1>1, <1>2, <1>5

LEMMA AppIsConfigured ==
  ASSUME WizardInv, mode = "add-app-node", draft.app # NoApp,
         validateStep("Credential", draft) = {}, validateStep("Configure", draft) = {}
  PROVE  IsConfigured(confirmAppNode)
<1> DEFINE app == draft.app
           has == HoldsText(draft.config)
           P == [app |-> "text", action |-> "text"]
           config == Patched(createDefaultNodeData("app"), Patched(draft.config, P))
<1>1. app \in AppKeys /\ findAppAction(app, draft.action) # {} /\ appOf(draft) = app
  BY AppOfDraft DEF WizardInv, DraftFits
<1>2. has \subseteq HoldsText(config) /\ {"app", "action"} \subseteq HoldsText(config)
  <2> DEFINE inner == Patched(draft.config, P)
             default == createDefaultNodeData("app")
  <2>1. DOMAIN P = {"app", "action"} /\ P["app"] = "text" /\ P["action"] = "text"
    OBVIOUS
  <2> HIDE DEF P
  <2>2. /\ DOMAIN inner = DOMAIN draft.config \cup {"app", "action"}
        /\ inner["app"] = "text" /\ inner["action"] = "text"
        /\ \A k \in DOMAIN draft.config : k \notin {"app", "action"} => inner[k] = draft.config[k]
    BY <2>1 DEF Patched
  <2> HIDE DEF inner, default
  <2>3. config = Patched(default, inner)
    BY DEF inner, default
  <2> HIDE DEF config
  <2>4. DOMAIN inner \subseteq DOMAIN config /\ \A k \in DOMAIN inner : config[k] = inner[k]
    BY <2>3 DEF Patched
  <2> QED
    BY <2>2, <2>4 DEF HoldsText
<1>3. HoldsText(config) \subseteq HoldsValue(config)
  BY DEF HoldsText, HoldsValue
<1>4. /\ confirmAppNode.nodeType = "app" /\ confirmAppNode.app = app
      /\ confirmAppNode.action = draft.action /\ confirmAppNode.config = config
  BY DEF confirmAppNode
<1> HIDE DEF config, has, app
<1>5. /\ IF app = "bannerbear" THEN Credentials(draft.config) # {} ELSE "credentialId" \in has
      /\ \A a \in findAppAction(app, draft.action) : a.text \cup a.numbers \subseteq has
  BY <1>1, ValidSteps DEF has
<1>6. \E k \in {"credentialId", "apiKey"} :
        k \in HoldsText(config) /\ (app # "bannerbear" => k = "credentialId")
  BY <1>2, <1>5 DEF Credentials, has
<1>7. isAppActionConfigured(app, draft.action, config)
  <2>1. PICK a \in findAppAction(app, draft.action) : TRUE
    BY <1>1
  <2>2. app # NoApp
    BY <1>1, CatalogAssumption
  <2>3. APP_CATALOG[app].base \subseteq HoldsText(config)
    BY <1>1, <1>6, BaseOfApp
  <2>4. (APP_CATALOG[app].base \cup a.text \cup a.numbers) \subseteq HoldsValue(config)
    BY <1>2, <1>3, <1>5, <2>3
  <2>5. app = "bannerbear" => HoldsText(config) \cap {"credentialId", "apiKey"} # {}
    BY <1>6
  <2> QED
    BY <2>2, <2>4, <2>5 DEF isAppActionConfigured
<1>8. validate("app", app, config, NoModel)
  <2> DEFINE oneOf == {"credentialId"} \cup (IF app = "bannerbear" THEN {"apiKey"} ELSE {})
  <2>1. oneOf \cap HoldsText(config) # {}
    BY <1>6
  <2> HIDE DEF oneOf
  <2>2. validate("app", app, config, NoModel) <=>
          {"app", "action"} \subseteq HoldsText(config) /\ (oneOf # {} => oneOf \cap HoldsText(config) # {})
    BY CatalogRequires DEF validate, oneOf
  <2> QED
    BY <1>2, <2>1, <2>2
<1> QED
  BY <1>4, <1>7, <1>8 DEF IsConfigured

LEMMA AgentIsConfigured ==
  ASSUME validateStep("Model", draft) = {}, draft.tools \in Seq(BareTools)
  PROVE  IsConfigured(confirmAgent)
<1>1. isValidAgentModelConfig(draft.model)
  BY DEF validateStep
<1>2. /\ confirmAgent.nodeType = "aiAgent" /\ confirmAgent.config = draft.config
      /\ confirmAgent.model = draft.model /\ confirmAgent.tools = draft.tools
  BY DEF confirmAgent
<1>3. validate("aiAgent", NoApp, draft.config, draft.model)
  BY <1>1, CatalogRequires DEF validate
<1>4. ASSUME NEW i \in DOMAIN draft.tools PROVE Bare(draft.tools[i])
  <2>1. PICK key : draft.tools[i] = useAgentToolsStep(key)
    BY DEF BareTools
  <2>2. useAgentToolsStep(key).toolKey = key
    BY DEF useAgentToolsStep
  <2> QED
    BY <2>1, <2>2 DEF Bare
<1> QED
  BY <1>2, <1>3, <1>4 DEF IsConfigured

LEMMA ToolIsConfigured ==
  ASSUME WizardInv, mode = "add-agent-tool",
         validateStep("Credential", draft) = {}, validateStep("Configure", draft) = {}
  PROVE  IsConfigured(confirmTool)
<1> DEFINE config == draft.config
           key == draft.action
           n == confirmTool
<1>1. /\ n.nodeType = "tool" /\ n.toolKey = key /\ n.config = config
      /\ n.credentialId = config["credentialId"]
  BY DEF confirmTool
<1> HIDE DEF n
<1>2. HoldsText(toolValue(n)) = HoldsText(config)
  <2>1. "credentialId" \in DOMAIN config
    BY DEF WizardInv, DraftFits
  <2> DEFINE own == [credentialId |-> n.credentialId]
  <2>2. DOMAIN own = {"credentialId"}
    OBVIOUS
  <2> HIDE DEF own, config
  <2>3. toolValue(n) = Patched(own, config)
    BY <1>1 DEF toolValue, own
  <2>4. DOMAIN toolValue(n) = DOMAIN config /\ \A k \in DOMAIN config : toolValue(n)[k] = config[k]
    BY <2>1, <2>2, <2>3 DEF Patched
  <2> QED
    BY <2>4 DEF HoldsText
<1>3. PICK u \in toolFor(key) : appOf(draft) = u.app
  BY AppOfDraft, ValidSteps
<1> HIDE DEF config, key
<1>4. /\ validateCredentialRequirement(u.app, config) = {}
      /\ IF u.app = "bannerbear" THEN Credentials(config) # {} ELSE "credentialId" \in HoldsText(config)
      /\ \A a \in findAppAction(u.app, key) : a.text \cup a.numbers \subseteq HoldsText(config)
  BY <1>3, ValidSteps DEF config, key
<1>5. validateCredentialRequirement(u.app, toolValue(n)) = {}
  BY <1>2, <1>4 DEF validateCredentialRequirement
<1> DEFINE missing(t) ==
      LET required == APP_CATALOG[t.app].base \cup t.action.text \cup t.action.numbers
      IN (required \ HoldsText(toolValue(n))) \cup
         (IF t.app = "bannerbear" THEN validateCredentialRequirement(t.app, toolValue(n)) ELSE {})
<1>6. ASSUME NEW t \in toolFor(key) PROVE missing(t) = {}
  <2>1. t.app = u.app /\ u.app \in AppKeys /\ t.action \in findAppAction(u.app, key)
    BY <1>3, <1>6, ToolsOfKey
  <2>2. APP_CATALOG[t.app].base \subseteq HoldsText(config)
    BY <1>4, <2>1, BaseOfApp
  <2>3. t.action.text \cup t.action.numbers \subseteq HoldsText(config)
    BY <1>4, <2>1
  <2> QED
    BY <1>2, <1>5, <2>1, <2>2, <2>3
<1>7. validateTool(n) = UNION {missing(t) : t \in toolFor(key)}
  BY <1>1, Zenon DEF validateTool
<1> HIDE DEF missing
<1>8. validateTool(n) = {}
  BY <1>6, <1>7
<1> QED
  BY <1>1, <1>8 DEF IsConfigured, n

LEMMA ConfirmKeeps ==
  ASSUME WizardInv, confirm
  PROVE  WizardInv'
<1>1. /\ Closed /\ stepIndex = Len(steps) /\ mode \in Modes
      /\ \A j \in 1..stepIndex - 1 : validateStep(steps[j], draft) = {}
      /\ \A n \in added : IsConfigured(n)
  BY DEF confirm, isLast, WizardInv, AddedIsConfigured, PassedStepsHold
<1>2. \A n \in added' : IsConfigured(n)
  <2>1. CASE mode = "add-app-node"
    <3>1. draft.app # NoApp /\ added' = added \cup {confirmAppNode}
      BY <2>1 DEF confirm
    <3>2. stepIndex = 6 /\ steps[3] = "Credential" /\ steps[4] = "Configure"
      BY <1>1, <2>1, StepsAre
    <3>3. 3 \in 1..stepIndex - 1 /\ 4 \in 1..stepIndex - 1
      BY <3>2
    <3>4. validateStep("Credential", draft) = {} /\ validateStep("Configure", draft) = {}
      BY <1>1, <3>2, <3>3
    <3>5. IsConfigured(confirmAppNode)
      BY <2>1, <3>1, <3>4, AppIsConfigured
    <3> QED
      BY <1>1, <3>1, <3>5, Zenon
  <2>2. CASE mode = "add-agent"
    <3>1. added' = added \cup {confirmAgent}
      BY <2>2 DEF confirm
    <3>2. stepIndex = 5 /\ steps[2] = "Model"
      BY <1>1, <2>2, StepsAre
    <3>3. 2 \in 1..stepIndex - 1
      BY <3>2
    <3>4. validateStep("Model", draft) = {}
      BY <1>1, <3>2, <3>3
    <3>5. IsConfigured(confirmAgent)
      BY <3>4, AgentIsConfigured DEF WizardInv, DraftFits
    <3> QED
      BY <1>1, <3>1, <3>5, Zenon
  <2>3. CASE mode = "add-agent-tool"
    <3>1. added' = added \cup {confirmTool}
      BY <2>3 DEF confirm
    <3>2. stepIndex = 5 /\ steps[2] = "Credential" /\ steps[3] = "Configure"
      BY <1>1, <2>3, StepsAre
    <3>3. 2 \in 1..stepIndex - 1 /\ 3 \in 1..stepIndex - 1
      BY <3>2
    <3>4. validateStep("Credential", draft) = {} /\ validateStep("Configure", draft) = {}
      BY <1>1, <3>2, <3>3
    <3>5. IsConfigured(confirmTool)
      BY <2>3, <3>4, ToolIsConfigured
    <3> QED
      BY <1>1, <3>1, <3>5, Zenon
  <2> QED
    BY <1>1, <2>1, <2>2, <2>3 DEF Modes
<1> QED
  BY <1>1, <1>2, CloseKeeps

\* The wizard adds nothing that is shown as unfinished but the tools of the agent
\* wizard's Tools step, which have no configuration yet: each step it left is still
\* valid, and what it added satisfies the rules of the canvas and of the inspector,
\* for any apps and any number of edits (validate.ts, wizard-store.ts, node-utils.ts,
\* agent-config-utils.ts, use-agent-tools-step.ts).
THEOREM AddedIsConfiguredAlways == WizardSpec => []AddedIsConfigured
<1>1. WizardInit => WizardInv
  <2> SUFFICES ASSUME WizardInit PROVE WizardInv
    OBVIOUS
  <2>1. mode \in Modes /\ stepIndex = 1 /\ DraftFits(mode, draft)
    BY DefaultsFit DEF WizardInit, Modes
  <2>2. stepIndex \in 1..Len(steps)
    BY <2>1, StepsAre DEF Modes
  <2> QED
    BY <2>1, <2>2 DEF WizardInit, WizardInv, AddedIsConfigured, PassedStepsHold
<1>2. WizardInv /\ [WizardNext]_wizardVars => WizardInv'
  <2> SUFFICES ASSUME WizardInv, [WizardNext]_wizardVars PROVE WizardInv'
    OBVIOUS
  <2>1. ASSUME UNCHANGED <<isOpen, mode, stepIndex, draft, added>>
        PROVE  WizardInv'
    BY <2>1, PassedAgain DEF WizardInv, AddedIsConfigured, PassedStepsHold
  <2>2. CASE runTest \/ AgentDeleted \/ UNCHANGED wizardVars \/ \E s \in tests : TestAnswered(s)
    BY <2>1, <2>2 DEF runTest, AgentDeleted, TestAnswered, wizardVars
  <2>3. CASE close
    BY <2>3, CloseKeeps DEF close, WizardInv, AddedIsConfigured
  <2> QED
    BY <2>2, <2>3, OpenKeeps, NavigationKeeps, EditKeeps, ConfirmKeeps DEF WizardNext
<1>3. WizardInv => AddedIsConfigured
  BY DEF WizardInv
<1> QED
  BY <1>1, <1>2, <1>3, PTL DEF WizardSpec

(***************************************************************************)
(* Part four: the canvas.  First, what is computed along a list.           *)
(***************************************************************************)
\* A nonempty set of naturals has a least element.
LEMMA LeastOf ==
  ASSUME NEW S, S \subseteq Nat, S # {}
  PROVE  \E x \in S : \A y \in S : x <= y
<1> DEFINE Less == OpToRel(<, Nat)
<1>1. \A x, y \in S : y < x => <<y, x>> \in Less
  BY DEF OpToRel
<1>2. IsWellFoundedOn(Less, Nat)
  BY NatLessThanWellFounded
<1> HIDE DEF Less
<1>3. PICK x \in S : \A y \in S : ~(<<y, x>> \in Less)
  BY <1>2, WFMin, Zenon
<1>4. ASSUME NEW y \in S PROVE x <= y
  <2>1. ~(y < x)
    BY <1>1, <1>3, Zenon
  <2> QED
    BY <2>1
<1> QED
  BY <1>4

\* A set of naturals that is closed under successors holds all of them.
LEMMA ClosedIsAll ==
  ASSUME NEW S, 0 \in S, \A n \in Nat : n \in S => n + 1 \in S
  PROVE  Nat \subseteq S
<1> SUFFICES ASSUME Nat \ S # {} PROVE FALSE
  OBVIOUS
<1>1. PICK x \in Nat \ S : \A y \in Nat \ S : x <= y
  BY LeastOf
<1>2. x # 0 /\ x - 1 \in Nat /\ x - 1 \in S
  BY <1>1
<1> QED
  BY <1>1, <1>2

\* What starts in a set and is taken by each step from the set to the set can be
\* followed to the end, in the set.
Follows(g, N, S, start, go) ==
  g \in [0..N -> S] /\ g[0] = start /\ \A i \in 1..N : g[i] = go[i][g[i - 1]]
LEMMA Followed ==
  ASSUME NEW N \in Nat, NEW S, NEW start \in S, NEW go \in [1..N -> [S -> S]]
  PROVE  \E g : Follows(g, N, S, start, go)
<1> DEFINE Steps(g, n) == g[0] = start /\ \A i \in 1..n : g[i] = go[i][g[i - 1]]
           Reached == {n \in Nat : n <= N => \E g \in [0..n -> S] : Steps(g, n)}
<1>1. 0 \in Reached
  <2> DEFINE g == [i \in 0..0 |-> start]
  <2>1. g \in [0..0 -> S] /\ Steps(g, 0)
    OBVIOUS
  <2> QED
    BY <2>1
<1>2. ASSUME NEW n \in Nat, n \in Reached PROVE n + 1 \in Reached
  <2> SUFFICES ASSUME n + 1 <= N PROVE \E g \in [0..n + 1 -> S] : Steps(g, n + 1)
    OBVIOUS
  <2>1. PICK g \in [0..n -> S] : Steps(g, n)
    BY <1>2
  <2> DEFINE h == [i \in 0..n + 1 |-> IF i = n + 1 THEN go[n + 1][g[n]] ELSE g[i]]
  <2>2. go[n + 1][g[n]] \in S
    <3>1. n + 1 \in 1..N /\ g[n] \in S
      OBVIOUS
    <3> QED
      BY <3>1
  <2>3. h \in [0..n + 1 -> S]
    BY <2>2
  <2>4. /\ h[n + 1] = go[n + 1][g[n]]
        /\ \A i \in 0..n : h[i] = g[i]
    OBVIOUS
  <2> HIDE DEF h
  <2>5. ASSUME NEW i \in 1..n + 1 PROVE h[i] = go[i][h[i - 1]]
    <3>1. CASE i = n + 1
      <4>1. h[n] = g[n] /\ i - 1 = n
        BY <2>4, <3>1
      <4> QED
        BY <2>4, <3>1, <4>1
    <3>2. CASE i \in 1..n
      <4>1. i \in 0..n /\ i - 1 \in 0..n
        BY <3>2
      <4> QED
        BY <2>1, <2>4, <3>2, <4>1
    <3> QED
      BY <3>1, <3>2
  <2>6. h[0] = start
    BY <2>1, <2>4
  <2> QED
    BY <2>3, <2>5, <2>6
<1> HIDE DEF Reached
<1>3. Nat \subseteq Reached
  BY <1>1, <1>2, ClosedIsAll
<1>4. N \in Reached
  BY <1>3
<1> QED
  BY <1>4 DEF Reached, Follows

\* The list that Kept builds, element by element.
Builds(f, list, set) ==
  /\ Kept(list, set) = f[Len(list)] /\ f[0] = <<>>
  /\ \A n \in 0..Len(list) : f[n] \in Seq(ToSet(list) \cap set)
  /\ \A n \in Nat : n + 1 <= Len(list) =>
       f[n + 1] = IF list[n + 1] \in set THEN Append(f[n], list[n + 1]) ELSE f[n]
LEMMA KeptAlong ==
  ASSUME NEW E, NEW list \in Seq(E), NEW set
  PROVE  \E f : Builds(f, list, set)
<1> DEFINE N == Len(list)
           F == ToSet(list) \cap set
           Is(g) == g = [i \in 0..N |->
                           IF i = 0 THEN <<>>
                           ELSE IF list[i] \in set THEN Append(g[i - 1], list[i]) ELSE g[i - 1]]
           f == CHOOSE g : Is(g)
           go == [i \in 1..N |-> [k \in Seq(F) |->
                      IF list[i] \in set THEN Append(k, list[i]) ELSE k]]
<1>1. Kept(list, set) = f[N]
  BY DEF Kept
<1>2. N \in Nat /\ \A i \in 1..N : list[i] \in ToSet(list) /\ list[i] \in E
  BY DEF ToSet
<1>3. go \in [1..N -> [Seq(F) -> Seq(F)]]
  <2>1. ASSUME NEW i \in 1..N, NEW k \in Seq(F)
        PROVE  (IF list[i] \in set THEN Append(k, list[i]) ELSE k) \in Seq(F)
    BY <1>2
  <2> QED
    BY <2>1
<1>4. <<>> \in Seq(F)
  OBVIOUS
<1>5. \A i \in 1..N : \A k \in Seq(F) :
        go[i][k] = IF list[i] \in set THEN Append(k, list[i]) ELSE k
  OBVIOUS
<1> HIDE DEF go
<1>6. PICK g : Follows(g, N, Seq(F), <<>>, go)
  <2> HIDE DEF N, F
  <2> QED
    BY <1>2, <1>3, <1>4, Followed
<1>7. g \in [0..N -> Seq(F)] /\ g[0] = <<>> /\ \A i \in 1..N : g[i] = go[i][g[i - 1]]
  BY <1>6 DEF Follows
<1>8. Is(g)
  <2>1. ASSUME NEW i \in 0..N
        PROVE  g[i] = IF i = 0 THEN <<>>
                      ELSE IF list[i] \in set THEN Append(g[i - 1], list[i]) ELSE g[i - 1]
    <3> HIDE DEF N, F
    <3>1. CASE i = 0
      BY <1>7, <3>1
    <3>2. CASE i # 0
      <4>1. i \in 1..N /\ i - 1 \in 0..N
        BY <1>2, <3>2
      <4>2. g[i - 1] \in Seq(F)
        BY <1>7, <4>1
      <4> QED
        BY <1>5, <1>7, <3>2, <4>1, <4>2
    <3> QED
      BY <3>1, <3>2
  <2> QED
    BY <1>7, <2>1
<1>9. Is(f)
  BY <1>8, Zenon
<1>10. \A i \in 0..N : f[i] = IF i = 0 THEN <<>>
                        ELSE IF list[i] \in set THEN Append(f[i - 1], list[i]) ELSE f[i - 1]
  BY <1>9, Zenon
<1> HIDE DEF f
<1>11. f[0] = <<>>
  BY <1>2, <1>10
<1>12. ASSUME NEW n \in Nat, n + 1 <= N
       PROVE  f[n + 1] = IF list[n + 1] \in set THEN Append(f[n], list[n + 1]) ELSE f[n]
  <2> HIDE DEF N
  <2>1. n + 1 \in 0..N /\ n + 1 # 0 /\ (n + 1) - 1 = n
    BY <1>2, <1>12
  <2> QED
    BY <1>10, <2>1
<1> DEFINE Inside == {n \in Nat : n <= N => f[n] \in Seq(F)}
<1>13. 0 \in Inside
  BY <1>4, <1>11
<1>14. ASSUME NEW n \in Nat, n \in Inside PROVE n + 1 \in Inside
  <2> HIDE DEF F, N
  <2> SUFFICES ASSUME n + 1 <= N PROVE f[n + 1] \in Seq(F)
    OBVIOUS
  <2>1. n + 1 \in 1..N /\ f[n] \in Seq(F)
    BY <1>2, <1>14
  <2>2. list[n + 1] \in set => list[n + 1] \in F
    BY <1>2, <2>1 DEF F
  <2>3. f[n + 1] = IF list[n + 1] \in set THEN Append(f[n], list[n + 1]) ELSE f[n]
    BY <1>12
  <2> QED
    BY <2>1, <2>2, <2>3
<1>15. Nat \subseteq Inside
  <2> HIDE DEF Inside
  <2> QED
    BY <1>13, <1>14, ClosedIsAll
<1>16. \A n \in 0..N : f[n] \in Seq(F)
  BY <1>2, <1>15
<1> QED
  BY <1>1, <1>11, <1>12, <1>16 DEF Builds

\* The elements that are kept are those of the list that are in the set.
LEMMA KeptOf ==
  ASSUME NEW E, NEW list \in Seq(E), NEW set
  PROVE  Kept(list, set) \in Seq(E) /\ ToSet(Kept(list, set)) = ToSet(list) \cap set
<1> DEFINE N == Len(list)
           F == ToSet(list) \cap set
<1>0. PICK f : Builds(f, list, set)
  BY KeptAlong
<1>1. /\ Kept(list, set) = f[N] /\ f[0] = <<>>
      /\ \A n \in 0..N : f[n] \in Seq(F)
      /\ \A n \in Nat : n + 1 <= N =>
           f[n + 1] = IF list[n + 1] \in set THEN Append(f[n], list[n + 1]) ELSE f[n]
  BY <1>0 DEF Builds
<1>2. N \in Nat /\ F \subseteq E
  BY DEF ToSet
<1>3. Kept(list, set) \in Seq(F)
  BY <1>1, <1>2
<1> DEFINE Holds == {n \in Nat : n <= N =>
                       \A i \in 1..n : list[i] \in set => list[i] \in ToSet(f[n])}
<1> HIDE DEF N, F
<1>4. 0 \in Holds
  OBVIOUS
<1>5. ASSUME NEW n \in Nat, n \in Holds PROVE n + 1 \in Holds
  <2> SUFFICES ASSUME n + 1 <= N, NEW i \in 1..n + 1, list[i] \in set
               PROVE  list[i] \in ToSet(f[n + 1])
    OBVIOUS
  <2>1. f[n] \in Seq(F) /\ n <= N
    BY <1>1, <1>2
  <2>2. ToSet(f[n]) \subseteq ToSet(f[n + 1])
        /\ (list[n + 1] \in set => list[n + 1] \in ToSet(f[n + 1]))
    <3>1. CASE list[n + 1] \in set
      <4>1. f[n + 1] = Append(f[n], list[n + 1])
        BY <1>1, <3>1
      <4>2. /\ DOMAIN f[n + 1] = 1..Len(f[n]) + 1
            /\ \A j \in 1..Len(f[n]) : f[n + 1][j] = f[n][j]
            /\ f[n + 1][Len(f[n]) + 1] = list[n + 1]
        BY <2>1, <4>1
      <4>3. DOMAIN f[n] = 1..Len(f[n]) /\ Len(f[n]) \in Nat
        BY <2>1
      <4>4. ToSet(f[n + 1]) = {f[n + 1][j] : j \in DOMAIN f[n + 1]}
            /\ ToSet(f[n]) = {f[n][j] : j \in DOMAIN f[n]}
        BY DEF ToSet
      <4>5. Len(f[n]) + 1 \in DOMAIN f[n + 1] /\ \A j \in DOMAIN f[n] : j \in DOMAIN f[n + 1]
        BY <4>2, <4>3
      <4> QED
        BY <4>2, <4>3, <4>4, <4>5
    <3>2. CASE list[n + 1] \notin set
      BY <1>1, <3>2
    <3> QED
      BY <3>1, <3>2
  <2>3. CASE i = n + 1
    BY <2>2, <2>3
  <2>4. CASE i \in 1..n
    BY <1>5, <2>1, <2>2, <2>4
  <2> QED
    BY <2>3, <2>4
<1>6. N \in Holds
  <2> HIDE DEF Holds
  <2> QED
    BY <1>2, <1>4, <1>5, ClosedIsAll
<1>7. ToSet(list) = {list[i] : i \in 1..N}
  BY DEF ToSet, N
<1>8. ToSet(list) \cap set \subseteq ToSet(Kept(list, set))
  BY <1>1, <1>2, <1>6, <1>7
<1>9. Kept(list, set) \in Seq(E) /\ ToSet(Kept(list, set)) \subseteq F
  BY <1>2, <1>3 DEF ToSet
<1> QED
  BY <1>8, <1>9 DEF F

\* A list whose elements are all in the set is kept as it is.
LEMMA KeptAll ==
  ASSUME NEW E, NEW list \in Seq(E), NEW set, ToSet(list) \subseteq set
  PROVE  Kept(list, set) = list
<1> DEFINE N == Len(list)
           F == ToSet(list) \cap set
<1>0. PICK f : Builds(f, list, set)
  BY KeptAlong
<1>1. /\ Kept(list, set) = f[N] /\ f[0] = <<>>
      /\ \A n \in 0..N : f[n] \in Seq(F)
      /\ \A n \in Nat : n + 1 <= N =>
           f[n + 1] = IF list[n + 1] \in set THEN Append(f[n], list[n + 1]) ELSE f[n]
  BY <1>0 DEF Builds
<1>2. N \in Nat /\ \A i \in 1..N : list[i] \in set
  BY DEF ToSet
<1> DEFINE Same == {n \in Nat : n <= N =>
                      Len(f[n]) = n /\ \A i \in 1..n : f[n][i] = list[i]}
<1> HIDE DEF N, F
<1>3. 0 \in Same
  BY <1>1
<1>4. ASSUME NEW n \in Nat, n \in Same PROVE n + 1 \in Same
  <2> SUFFICES ASSUME n + 1 <= N
               PROVE  Len(f[n + 1]) = n + 1 /\ \A i \in 1..n + 1 : f[n + 1][i] = list[i]
    OBVIOUS
  <2>1. f[n] \in Seq(F) /\ Len(f[n]) = n /\ \A i \in 1..n : f[n][i] = list[i]
    BY <1>1, <1>2, <1>4
  <2>2. f[n + 1] = Append(f[n], list[n + 1])
    <3>1. n + 1 \in 1..N
      BY <1>2
    <3> QED
      BY <1>1, <1>2, <3>1
  <2> QED
    BY <2>1, <2>2
<1>5. N \in Same
  <2> HIDE DEF Same
  <2> QED
    BY <1>2, <1>3, <1>4, ClosedIsAll
<1>6. Kept(list, set) \in Seq(F) /\ Len(Kept(list, set)) = N
      /\ \A i \in 1..N : Kept(list, set)[i] = list[i]
  BY <1>1, <1>2, <1>5
<1> QED
  BY <1>6 DEF N

\* The agents after each edge: whatever holds of them at first and stays so with
\* each edge, holds all along.
Attaches(f, list, known, first, S) ==
  /\ attachedAll(list, known, first) = f[Len(list)] /\ f[0] = first
  /\ \A n \in 0..Len(list) : f[n] \in S
  /\ \A n \in Nat : n + 1 <= Len(list) => f[n + 1] = attached(list[n + 1], known, f[n])
LEMMA AttachedAlong ==
  ASSUME NEW E, NEW list \in Seq(E), NEW known, NEW S, NEW first \in S,
         \A e \in E : \A m \in S : attached(e, known, m) \in S
  PROVE  \E f : Attaches(f, list, known, first, S)
<1> DEFINE N == Len(list)
           Is(g) == g = [i \in 0..N |->
                           IF i = 0 THEN first ELSE attached(list[i], known, g[i - 1])]
           f == CHOOSE g : Is(g)
           go == [i \in 1..N |-> [m \in S |-> attached(list[i], known, m)]]
<1>1. attachedAll(list, known, first) = f[N]
  BY DEF attachedAll
<1>2. N \in Nat /\ \A i \in 1..N : list[i] \in E
  OBVIOUS
<1>3. go \in [1..N -> [S -> S]]
  BY <1>2
<1>4. \A i \in 1..N : \A m \in S : go[i][m] = attached(list[i], known, m)
  OBVIOUS
<1> HIDE DEF go
<1>5. PICK g : Follows(g, N, S, first, go)
  <2> HIDE DEF N
  <2> QED
    BY <1>2, <1>3, Followed
<1>6. g \in [0..N -> S] /\ g[0] = first /\ \A i \in 1..N : g[i] = go[i][g[i - 1]]
  BY <1>5 DEF Follows
<1>7. Is(g)
  <2>1. ASSUME NEW i \in 0..N
        PROVE  g[i] = IF i = 0 THEN first ELSE attached(list[i], known, g[i - 1])
    <3> HIDE DEF N
    <3>1. CASE i = 0
      BY <1>6, <3>1
    <3>2. CASE i # 0
      <4>1. i \in 1..N /\ i - 1 \in 0..N
        BY <1>2, <3>2
      <4>2. g[i - 1] \in S
        BY <1>6, <4>1
      <4> QED
        BY <1>4, <1>6, <3>2, <4>1, <4>2
    <3> QED
      BY <3>1, <3>2
  <2> QED
    BY <1>6, <2>1
<1>8. Is(f)
  BY <1>7, Zenon
<1>9. \A i \in 0..N : f[i] = IF i = 0 THEN first ELSE attached(list[i], known, f[i - 1])
  BY <1>8, Zenon
<1> HIDE DEF f
<1>10. f[0] = first
  BY <1>2, <1>9
<1>11. ASSUME NEW n \in Nat, n + 1 <= N PROVE f[n + 1] = attached(list[n + 1], known, f[n])
  <2> HIDE DEF N
  <2>1. n + 1 \in 0..N /\ n + 1 # 0 /\ (n + 1) - 1 = n
    BY <1>2, <1>11
  <2> QED
    BY <1>9, <2>1
<1> DEFINE Inside == {n \in Nat : n <= N => f[n] \in S}
<1>12. 0 \in Inside
  BY <1>10
<1>13. ASSUME NEW n \in Nat, n \in Inside PROVE n + 1 \in Inside
  <2> HIDE DEF N
  <2> SUFFICES ASSUME n + 1 <= N PROVE f[n + 1] \in S
    OBVIOUS
  <2>1. n + 1 \in 1..N /\ f[n] \in S
    BY <1>2, <1>13
  <2>2. f[n + 1] = attached(list[n + 1], known, f[n])
    BY <1>11
  <2> QED
    BY <1>2, <2>1, <2>2
<1>14. Nat \subseteq Inside
  <2> HIDE DEF Inside
  <2> QED
    BY <1>12, <1>13, ClosedIsAll
<1>15. \A n \in 0..N : f[n] \in S
  BY <1>2, <1>14
<1> QED
  BY <1>1, <1>10, <1>11, <1>15 DEF Attaches

\* What an edge brings about stays to the end, when each edge leaves it.
LEMMA AttachedLater ==
  ASSUME NEW E, NEW list \in Seq(E), NEW known, NEW S, NEW first \in S,
         \A e \in E : \A m \in S : attached(e, known, m) \in S,
         NEW T, \A e \in E : \A m \in S \cap T : attached(e, known, m) \in T,
         NEW e \in ToSet(list), \A m \in S : attached(e, known, m) \in T
  PROVE  attachedAll(list, known, first) \in T
<1> DEFINE N == Len(list)
<1>1. PICK f : Attaches(f, list, known, first, S)
  BY AttachedAlong
<1>2. /\ attachedAll(list, known, first) = f[N]
      /\ \A n \in 0..N : f[n] \in S
      /\ \A n \in Nat : n + 1 <= N => f[n + 1] = attached(list[n + 1], known, f[n])
  BY <1>1 DEF Attaches
<1>3. N \in Nat /\ \A i \in 1..N : list[i] \in E
  OBVIOUS
<1>4. PICK at \in 1..N : list[at] = e
  BY DEF ToSet
<1> DEFINE Later == {n \in Nat : at <= n /\ n <= N => f[n] \in T}
<1> HIDE DEF N
<1>5. 0 \in Later
  BY <1>3, <1>4
<1>6. ASSUME NEW n \in Nat, n \in Later PROVE n + 1 \in Later
  <2> SUFFICES ASSUME at <= n + 1, n + 1 <= N PROVE f[n + 1] \in T
    OBVIOUS
  <2>1. n + 1 \in 1..N /\ n \in 0..N
    BY <1>3
  <2>2. f[n] \in S /\ list[n + 1] \in E /\ f[n + 1] = attached(list[n + 1], known, f[n])
    BY <1>2, <1>3, <2>1
  <2>3. CASE at = n + 1
    BY <1>4, <2>2, <2>3
  <2>4. CASE at <= n
    <3>1. f[n] \in T
      BY <1>6, <2>1, <2>4
    <3> QED
      BY <2>2, <3>1
  <2> QED
    BY <1>4, <2>3, <2>4
<1>7. N \in Later
  <2> HIDE DEF Later
  <2> QED
    BY <1>3, <1>5, <1>6, ClosedIsAll
<1> QED
  BY <1>2, <1>3, <1>4, <1>7

(***************************************************************************)
(* The migration of a stored flow.                                         *)
(***************************************************************************)
NodeFields == {"id", "nodeType", "type", "config", "old", "model", "memory", "tools"}
IsNode(n) == \E S : n \in [NodeFields -> S]

LEMMA NodeIs ==
  ASSUME NEW n, DOMAIN n = NodeFields, n = [k \in NodeFields |-> n[k]]
  PROVE  IsNode(n)
<1> DEFINE S == {n[k] : k \in NodeFields}
<1>1. n \in [NodeFields -> S]
  OBVIOUS
<1> QED
  BY <1>1 DEF IsNode

\* What byIds maps to.
LEMMA ByIdsOf ==
  ASSUME NEW ns
  PROVE  /\ DOMAIN byIds(ns) = Ids(ns)
         /\ \A id \in Ids(ns) : byIds(ns)[id] \in ns /\ byIds(ns)[id].id = id
<1>1. byIds(ns) = [id \in Ids(ns) |-> CHOOSE n \in ns : n.id = id]
  BY DEF byIds, Ids
<1>2. ASSUME NEW id \in Ids(ns)
      PROVE  (CHOOSE n \in ns : n.id = id) \in ns /\ (CHOOSE n \in ns : n.id = id).id = id
  BY DEF Ids
<1> QED
  BY <1>1, <1>2

LEMMA NormalizedOf ==
  ASSUME NEW n, DOMAIN n = NodeFields
  PROVE  IsNode(normalizeNode(n)) /\ normalizeNode(n).id = n.id
<1>1. PICK resolved, inferred, config :
        normalizeNode(n) =
          [n EXCEPT
            !.nodeType = inferred, !.type = "flowNode",
            !.config = IF resolved \in DOMAIN legacyModelProvider
                       THEN Patched(config, [provider |-> legacyModelProvider[resolved]])
                       ELSE config,
            !.tools = IF inferred = "aiAgent" /\ @ = NoTools THEN <<>> ELSE @]
  BY Zenon DEF normalizeNode
<1> DEFINE v == IF resolved \in DOMAIN legacyModelProvider
                THEN Patched(config, [provider |-> legacyModelProvider[resolved]]) ELSE config
<1> HIDE DEF v
<1>2. normalizeNode(n) =
          [n EXCEPT !.nodeType = inferred, !.type = "flowNode", !.config = v,
                    !.tools = IF inferred = "aiAgent" /\ @ = NoTools THEN <<>> ELSE @]
  BY <1>1 DEF v
<1>3. /\ DOMAIN normalizeNode(n) = NodeFields
      /\ normalizeNode(n) = [k \in NodeFields |-> normalizeNode(n)[k]]
      /\ normalizeNode(n)["id"] = n["id"]
  BY <1>2 DEF NodeFields
<1> QED
  BY <1>3, NodeIs

LEMMA MigratedAgentOf ==
  ASSUME NEW n, DOMAIN n = NodeFields
  PROVE  LET m == MigratedAgent(n)
         IN IsNode(m) /\ m.id = n.id /\ m.nodeType = n.nodeType
<1> DEFINE parts == MigratedParts(n)
           model == IF "model" \in parts THEN normalizeAgentModelFromConfig(n.old.model) ELSE n.model
           memory == IF "memory" \in parts THEN normalizeAgentMemoryFromConfig(n.old.memory)
                     ELSE n.memory
           tools == IF "tools" \in parts THEN normalizeAgentTools(n.old.tools)
                    ELSE IF n.tools = NoTools THEN n.tools ELSE normalizeAgentTools(n.tools)
           old == omitKeys(n.old, parts)
           m == MigratedAgent(n)
<1>1. m = [n EXCEPT !.model = model, !.memory = memory, !.tools = tools, !.old = old]
  BY DEF MigratedAgent, NodeFields
<1> HIDE DEF model, memory, tools, old, m
<1>2. /\ DOMAIN m = NodeFields /\ m = [k \in NodeFields |-> m[k]]
      /\ m["id"] = n["id"] /\ m["nodeType"] = n["nodeType"]
  BY <1>1 DEF NodeFields
<1> QED
  BY <1>2, NodeIs DEF m

LEMMA UpdatedOf ==
  ASSUME NEW ns, \A n \in ns : IsNode(n)
  PROVE  /\ DOMAIN updatedById(ns) = Ids(ns)
         /\ \A id \in Ids(ns) : IsNode(updatedById(ns)[id]) /\ updatedById(ns)[id].id = id
<1> DEFINE known == byIds(ns)
<1>1. DOMAIN known = Ids(ns) /\ \A id \in Ids(ns) : known[id] \in ns /\ known[id].id = id
  BY ByIdsOf
<1>2. updatedById(ns) = [id \in DOMAIN known |->
                           IF known[id].nodeType = "aiAgent" THEN MigratedAgent(known[id])
                           ELSE known[id]]
  BY DEF updatedById
<1> HIDE DEF known
<1>3. ASSUME NEW id \in Ids(ns)
      PROVE  IsNode(updatedById(ns)[id]) /\ updatedById(ns)[id].id = id
  <2>1. IsNode(known[id]) /\ known[id].id = id
    BY <1>1
  <2>2. DOMAIN known[id] = NodeFields
    BY <2>1 DEF IsNode
  <2>3. IsNode(MigratedAgent(known[id])) /\ MigratedAgent(known[id]).id = id
    BY <2>1, <2>2, MigratedAgentOf
  <2> QED
    BY <1>1, <1>2, <2>1, <2>3
<1> QED
  BY <1>1, <1>2, <1>3

\* The node types that opening a flow gives nodes are of the catalog.
CurrentTypes == DOMAIN NODE_CATALOG \ DOMAIN legacyModelProvider
LEMMA CurrentTypesHold ==
  /\ {"aiAgent", "httpRequest", "chatModel"} \subseteq CurrentTypes
  /\ "aiAgent" \notin LEGACY_MODEL_NODE_TYPES
<1> DEFINE tables == <<triggers, actions, logic, models, legacy>>
<1>1. DOMAIN NODE_CATALOG = UNION {DOMAIN tables[i] : i \in 1..5}
  BY DEF NODE_CATALOG
<1>2. DOMAIN tables[2] = DOMAIN actions /\ DOMAIN tables[4] = DOMAIN models
  OBVIOUS
<1>3. {"aiAgent", "httpRequest"} \subseteq DOMAIN actions /\ "chatModel" \in DOMAIN models
  BY DEF actions, models
<1> HIDE DEF tables
<1>4. DOMAIN actions \subseteq DOMAIN NODE_CATALOG /\ DOMAIN models \subseteq DOMAIN NODE_CATALOG
  <2>1. 2 \in 1..5 /\ 4 \in 1..5
    OBVIOUS
  <2> QED
    BY <1>1, <1>2, <2>1
<1> QED
  BY <1>3, <1>4 DEF CurrentTypes, legacyModelProvider, LEGACY_MODEL_NODE_TYPES

\* Normalizing a node leaves an agent's parts, but for a list of tools it had not.
LEMMA NormalizedFields ==
  ASSUME NEW n, DOMAIN n = NodeFields
  PROVE  LET m == normalizeNode(n)
         IN /\ m.model = n.model /\ m.memory = n.memory /\ m.old = n.old
            /\ m.nodeType \in CurrentTypes
            /\ n.nodeType \in CurrentTypes => m.nodeType = n.nodeType
            /\ m.tools = IF m.nodeType = "aiAgent" /\ n.tools = NoTools THEN <<>> ELSE n.tools
<1> DEFINE resolved == IF n.nodeType \in DOMAIN NODE_CATALOG THEN n.nodeType
                       ELSE IF n.type \in DOMAIN NODE_CATALOG THEN n.type ELSE "httpRequest"
           inferred == IF resolved \in DOMAIN legacyModelProvider THEN "chatModel" ELSE resolved
           m == normalizeNode(n)
<1>1. PICK config :
        m = [n EXCEPT
              !.nodeType = inferred, !.type = "flowNode",
              !.config = IF resolved \in DOMAIN legacyModelProvider
                         THEN Patched(config, [provider |-> legacyModelProvider[resolved]])
                         ELSE config,
              !.tools = IF inferred = "aiAgent" /\ @ = NoTools THEN <<>> ELSE @]
  BY Zenon DEF normalizeNode
<1>2. inferred \in CurrentTypes /\ (n.nodeType \in CurrentTypes => inferred = n.nodeType)
  BY CurrentTypesHold DEF CurrentTypes
<1> DEFINE v == IF resolved \in DOMAIN legacyModelProvider
                THEN Patched(config, [provider |-> legacyModelProvider[resolved]]) ELSE config
<1> HIDE DEF v, inferred, m
<1>3. m = [n EXCEPT !.nodeType = inferred, !.type = "flowNode", !.config = v,
                    !.tools = IF inferred = "aiAgent" /\ @ = NoTools THEN <<>> ELSE @]
  BY <1>1 DEF v
<1>4. /\ m.model = n.model /\ m.memory = n.memory /\ m.old = n.old /\ m.nodeType = inferred
      /\ m.tools = IF inferred = "aiAgent" /\ n.tools = NoTools THEN <<>> ELSE n.tools
  BY <1>3 DEF NodeFields
<1> QED
  BY <1>2, <1>4 DEF m

\* What the migration makes of the parts of an agent that has a list of tools.
LEMMA MigratedFields ==
  ASSUME NEW n, DOMAIN n = NodeFields, n.tools # NoTools
  PROVE  LET m == MigratedAgent(n)
             parts == MigratedParts(n)
         IN /\ m.model = IF "model" \in parts THEN normalizeAgentModelFromConfig(n.old.model)
                         ELSE n.model
            /\ m.memory = IF "memory" \in parts THEN normalizeAgentMemoryFromConfig(n.old.memory)
                          ELSE n.memory
            /\ m.tools = normalizeAgentTools(n.tools)
            /\ DOMAIN m.old = DOMAIN n.old \ parts
            /\ m.nodeType = n.nodeType
<1> DEFINE parts == MigratedParts(n)
           model == IF "model" \in parts THEN normalizeAgentModelFromConfig(n.old.model) ELSE n.model
           memory == IF "memory" \in parts THEN normalizeAgentMemoryFromConfig(n.old.memory)
                     ELSE n.memory
           tools == IF "tools" \in parts THEN normalizeAgentTools(n.old.tools)
                    ELSE IF n.tools = NoTools THEN n.tools ELSE normalizeAgentTools(n.tools)
           old == omitKeys(n.old, parts)
           m == MigratedAgent(n)
<1>1. m = [n EXCEPT !.model = model, !.memory = memory, !.tools = tools, !.old = old]
  BY DEF MigratedAgent, NodeFields
<1>2. "tools" \notin parts
  BY DEF MigratedParts
<1>3. tools = normalizeAgentTools(n.tools)
  BY <1>2
<1>4. DOMAIN old = DOMAIN n.old \ parts
  BY DEF omitKeys
<1> HIDE DEF model, memory, tools, old, m
<1>5. m.model = model /\ m.memory = memory /\ m.tools = tools /\ m.old = old
      /\ m.nodeType = n.nodeType
  BY <1>1 DEF NodeFields
<1> QED
  BY <1>3, <1>4, <1>5 DEF m, model, memory

LEMMA MigratedModel ==
  ASSUME NEW n, DOMAIN n = NodeFields
  PROVE  MigratedAgent(n).model = IF "model" \in MigratedParts(n)
                                  THEN normalizeAgentModelFromConfig(n.old.model) ELSE n.model
<1> DEFINE model == IF "model" \in MigratedParts(n) THEN normalizeAgentModelFromConfig(n.old.model)
                    ELSE n.model
<1>1. PICK memory, tools, old : MigratedAgent(n) =
        [n EXCEPT !.model = model, !.memory = memory, !.tools = tools, !.old = old]
  BY Zenon DEF MigratedAgent
<1> HIDE DEF model
<1>2. MigratedAgent(n).model = model
  BY <1>1 DEF NodeFields
<1> QED
  BY <1>2 DEF model

\* Normalized tools are normalized.
LEMMA ToolsAreFinal ==
  ASSUME NEW tools, tools \in Seq(ToSet(tools)),
         \A t \in ToSet(tools) : DOMAIN t = {"toolKey", "credentialId"}
  PROVE  normalizeAgentTools(normalizeAgentTools(tools)) = normalizeAgentTools(tools)
<1> DEFINE keyed == Kept(tools, {t \in ToSet(tools) : t.toolKey # NoAction})
           final == normalizeAgentTools(tools)
           noted(t) == [t EXCEPT !.credentialId = IF @ = "blank" THEN "absent" ELSE @]
<1>1. keyed \in Seq(ToSet(tools))
      /\ ToSet(keyed) = ToSet(tools) \cap {t \in ToSet(tools) : t.toolKey # NoAction}
  BY KeptOf
<1>2. final = [i \in DOMAIN keyed |-> noted(keyed[i])]
  BY DEF normalizeAgentTools
<1> HIDE DEF keyed, final
<1>3. DOMAIN keyed = 1..Len(keyed) /\ Len(keyed) \in Nat
  BY <1>1
<1>4. \A i \in DOMAIN keyed : keyed[i] \in ToSet(tools) /\ keyed[i].toolKey # NoAction
  BY <1>1 DEF ToSet
<1>5. ASSUME NEW i \in DOMAIN keyed
      PROVE  noted(keyed[i]).toolKey # NoAction /\ noted(noted(keyed[i])) = noted(keyed[i])
  BY <1>4
<1>6. DOMAIN final = DOMAIN keyed /\ \A i \in DOMAIN final : final[i] = noted(keyed[i])
  BY <1>2
<1>7. final \in Seq(ToSet(final))
  BY <1>2, <1>3 DEF ToSet
<1> DEFINE set == {t \in ToSet(final) : t.toolKey # NoAction}
<1>8. ToSet(final) \subseteq set
  <2>1. \A i \in DOMAIN final : final[i].toolKey # NoAction
    BY <1>5, <1>6
  <2>2. ToSet(final) = {final[i] : i \in DOMAIN final}
    BY DEF ToSet
  <2> QED
    BY <2>1, <2>2
<1>9. Kept(final, set) = final
  <2> HIDE DEF set
  <2> QED
    BY <1>7, <1>8, KeptAll
<1>10. normalizeAgentTools(final) = [i \in DOMAIN final |-> noted(final[i])]
  BY <1>9 DEF normalizeAgentTools
<1>11. \A i \in DOMAIN final : noted(final[i]) = final[i]
  BY <1>5, <1>6
<1>12. final = [i \in DOMAIN final |-> final[i]]
  BY <1>2
<1> QED
  BY <1>10, <1>11, <1>12 DEF final

\* A model that is valid is one.
LEMMA ValidIsModel ==
  ASSUME NEW m, isValidAgentModelConfig(m)
  PROVE  m # NoModel
BY DEF isValidAgentModelConfig, NoModel

\* What the edges make of a node: its model is another only if it was not valid,
\* and is then one.
Attached(n, m) ==
  /\ \A k \in NodeFields \ {"model"} : m[k] = n[k]
  /\ m["model"] # n["model"] => m["model"] # NoModel /\ ~isValidAgentModelConfig(n["model"])
\* The nodes on the way: those of the first step with the models that are at hand.
AtHand(ns) ==
  (UNION {{updatedById(ns)[id][k] : k \in NodeFields} : id \in Ids(ns)}) \cup
  {toAgentModelFromLegacyModelNode(byIds(ns)[id]) : id \in Ids(ns)}
OnTheWay(ns) ==
  {m \in [Ids(ns) -> [NodeFields -> AtHand(ns)]] :
     \A id \in Ids(ns) : Attached(updatedById(ns)[id], m[id])}

LEMMA FirstOnTheWay ==
  ASSUME NEW ns, \A n \in ns : IsNode(n)
  PROVE  updatedById(ns) \in OnTheWay(ns)
<1> DEFINE D == Ids(ns)
           first == updatedById(ns)
           known == byIds(ns)
<1>1. DOMAIN known = D /\ \A id \in D : IsNode(first[id])
  BY ByIdsOf, UpdatedOf
<1>2. first = [id \in D |-> first[id]]
  <2>1. first = [id \in DOMAIN known |->
                   IF known[id].nodeType = "aiAgent" THEN MigratedAgent(known[id]) ELSE known[id]]
    BY DEF updatedById
  <2> HIDE DEF known, first
  <2> QED
    BY <1>1, <2>1
<1>3. ASSUME NEW id \in D PROVE first[id] \in [NodeFields -> AtHand(ns)]
  <2>1. PICK T : first[id] \in [NodeFields -> T]
    BY <1>1 DEF IsNode
  <2>2. \A k \in NodeFields : first[id][k] \in AtHand(ns)
    BY DEF AtHand
  <2> HIDE DEF first
  <2> QED
    BY <2>1, <2>2
<1>4. \A id \in D : Attached(first[id], first[id])
  BY DEF Attached
<1> HIDE DEF D, first
<1>5. first \in [D -> [NodeFields -> AtHand(ns)]]
  BY <1>2, <1>3
<1> QED
  BY <1>4, <1>5 DEF OnTheWay, D, first

LEMMA AttachedOnTheWay ==
  ASSUME NEW ns, NEW m \in OnTheWay(ns), NEW e, e.target \in Ids(ns)
  PROVE  attached(e, byIds(ns), m) \in OnTheWay(ns)
<1> DEFINE D == Ids(ns)
           first == updatedById(ns)
           known == byIds(ns)
           model == toAgentModelFromLegacyModelNode(known[e.source])
           after == attached(e, known, m)
<1>1. CASE after = m
  BY <1>1
<1>2. CASE after # m
  <2>1. /\ e.source \in DOMAIN known /\ after = [m EXCEPT ![e.target].model = model]
        /\ model # NoModel /\ ~isValidAgentModelConfig(m[e.target].model)
    BY <1>2, Zenon DEF attached, brings
  <2>2. model \in AtHand(ns)
    BY <2>1, ByIdsOf DEF AtHand
  <2>3. /\ m \in [D -> [NodeFields -> AtHand(ns)]]
        /\ \A id \in D : Attached(first[id], m[id])
        /\ e.target \in D
    BY DEF OnTheWay
  <2> HIDE DEF model, D, first, after
  <2>4. after \in [D -> [NodeFields -> AtHand(ns)]]
    BY <2>1, <2>2, <2>3 DEF NodeFields
  <2>5. ASSUME NEW id \in D PROVE Attached(first[id], after[id])
    <3>1. CASE id # e.target
      <4>1. after[id] = m[id]
        BY <2>1, <2>3, <3>1
      <4> QED
        BY <2>3, <4>1
    <3>2. CASE id = e.target
      <4>1. after[id] = [m[id] EXCEPT !.model = model]
        BY <2>1, <2>3, <3>2
      <4>2. /\ \A k \in NodeFields \ {"model"} : after[id][k] = m[id][k]
            /\ after[id]["model"] = model
        BY <2>3, <4>1 DEF NodeFields
      <4>3. Attached(first[id], m[id]) /\ ~isValidAgentModelConfig(m[id]["model"])
        BY <2>1, <2>3, <3>2
      <4>4. ~isValidAgentModelConfig(first[id]["model"])
        BY <4>3 DEF Attached
      <4> QED
        BY <2>1, <4>2, <4>3, <4>4 DEF Attached
    <3> QED
      BY <3>1, <3>2
  <2> QED
    BY <2>4, <2>5 DEF OnTheWay, D, first, after
<1> QED
  BY <1>1, <1>2

\* An agent keeps a valid model, and takes over one that an edge brings.
LEMMA AttachedGives ==
  ASSUME NEW ns, NEW m \in OnTheWay(ns), NEW e, e.target \in Ids(ns), NEW a \in Ids(ns),
         \/ isValidAgentModelConfig(m[a].model)
         \/ /\ brings(e, byIds(ns)) /\ e.target = a
            /\ isValidAgentModelConfig(toAgentModelFromLegacyModelNode(byIds(ns)[e.source]))
  PROVE  isValidAgentModelConfig(attached(e, byIds(ns), m)[a].model)
<1> DEFINE known == byIds(ns)
           model == toAgentModelFromLegacyModelNode(known[e.source])
           after == attached(e, known, m)
<1>1. m \in [Ids(ns) -> [NodeFields -> AtHand(ns)]]
  BY DEF OnTheWay
<1>2. isValidAgentModelConfig(model) => model # NoModel
  BY ValidIsModel
<1>3. CASE after = m
  <2>1. CASE isValidAgentModelConfig(m[a].model)
    BY <1>3, <2>1
  <2>2. CASE ~isValidAgentModelConfig(m[a].model)
    <3>1. m = [m EXCEPT ![e.target].model = model] /\ e.target = a /\ isValidAgentModelConfig(model)
      BY <1>2, <1>3, <2>2, Zenon DEF attached
    <3> HIDE DEF model, after
    <3>2. m[a] = [m[a] EXCEPT !.model = model]
      BY <1>1, <3>1
    <3>3. m[a].model = model
      BY <1>1, <3>2 DEF NodeFields
    <3> QED
      BY <2>2, <3>1, <3>3
  <2> QED
    BY <2>1, <2>2
<1>4. CASE after # m
  <2>1. /\ after = [m EXCEPT ![e.target].model = model]
        /\ ~isValidAgentModelConfig(m[e.target].model)
    BY <1>4, Zenon DEF attached
  <2> HIDE DEF model, after
  <2>2. CASE a # e.target
    <3>1. after[a] = m[a]
      BY <1>1, <2>1, <2>2
    <3> QED
      BY <2>2, <3>1 DEF after, known
  <2>3. CASE a = e.target
    <3>1. after[a] = [m[a] EXCEPT !.model = model]
      BY <1>1, <2>1, <2>3
    <3>2. after[a].model = model
      BY <1>1, <3>1 DEF NodeFields
    <3>3. isValidAgentModelConfig(model)
      BY <2>1, <2>3 DEF model, known
    <3> QED
      BY <3>2, <3>3 DEF after, known
  <2> QED
    BY <2>2, <2>3
<1> QED
  BY <1>3, <1>4

\* A node after its own part of the migration.
Once(x) == IF x.nodeType = "aiAgent" THEN MigratedAgent(x) ELSE x
HasTools(n) ==
  \/ n.tools = NoTools
  \/ /\ n.tools \in Seq(ToSet(n.tools))
     /\ \A t \in ToSet(n.tools) : DOMAIN t = {"toolKey", "credentialId"}

\* A migrated agent that is opened again has nothing left to migrate.
LEMMA NodeIsFinal ==
  ASSUME NoTools # <<>>,
         NEW s, DOMAIN s = NodeFields, HasTools(s),
         NEW n, IsNode(n), Attached(Once(normalizeNode(s)), n)
  PROVE  LET again == normalizeNode(n)
         IN /\ n.nodeType = normalizeNode(s).nodeType /\ again.nodeType = n.nodeType
            /\ ~(again.nodeType = "aiAgent" /\ IsMigrated(again))
<1> DEFINE x == normalizeNode(s)
           first == Once(x)
           again == normalizeNode(n)
           parts == MigratedParts(x)
<1>1. DOMAIN x = NodeFields
  BY NormalizedOf DEF IsNode
<1>2. /\ x.model = s.model /\ x.memory = s.memory /\ x.nodeType \in CurrentTypes
      /\ x.tools = IF x.nodeType = "aiAgent" /\ s.tools = NoTools THEN <<>> ELSE s.tools
  BY NormalizedFields
<1>3. DOMAIN n = NodeFields
  BY DEF IsNode
<1>4. /\ again.model = n.model /\ again.memory = n.memory /\ again.old = n.old
      /\ n.nodeType \in CurrentTypes => again.nodeType = n.nodeType
      /\ again.tools = IF again.nodeType = "aiAgent" /\ n.tools = NoTools THEN <<>> ELSE n.tools
  BY <1>3, NormalizedFields
<1>5. /\ n.nodeType = first.nodeType /\ n.memory = first.memory /\ n.old = first.old
      /\ n.tools = first.tools
      /\ n.model = first.model \/ n.model # NoModel
  BY DEF Attached, NodeFields
<1>6. first.nodeType = x.nodeType
  BY <1>1, MigratedAgentOf DEF Once
<1>7. n.nodeType = x.nodeType /\ again.nodeType = n.nodeType
  BY <1>2, <1>4, <1>5, <1>6
<1>8. ASSUME again.nodeType = "aiAgent" PROVE ~IsMigrated(again)
  <2>1. x.nodeType = "aiAgent" /\ first = MigratedAgent(x)
    BY <1>7, <1>8 DEF Once
  <2>2. x.tools # NoTools /\ x.tools \in Seq(ToSet(x.tools))
        /\ \A t \in ToSet(x.tools) : DOMAIN t = {"toolKey", "credentialId"}
    <3>1. CASE s.tools = NoTools
      <4>1. x.tools = <<>>
        BY <1>2, <2>1, <3>1
      <4> QED
        BY <4>1 DEF ToSet
    <3>2. CASE s.tools # NoTools
      BY <1>2, <3>2 DEF HasTools
    <3> QED
      BY <3>1, <3>2
  <2> HIDE DEF x, again, first
  <2>3. /\ first.model = IF "model" \in parts THEN normalizeAgentModelFromConfig(x.old.model)
                         ELSE x.model
        /\ first.memory = IF "memory" \in parts THEN normalizeAgentMemoryFromConfig(x.old.memory)
                          ELSE x.memory
        /\ first.tools = normalizeAgentTools(x.tools)
        /\ DOMAIN first.old = DOMAIN x.old \ parts
    BY <1>1, <2>1, <2>2, MigratedFields
  <2>4. again.tools # NoTools /\ normalizeAgentTools(again.tools) = again.tools
    <3>1. CASE n.tools = NoTools
      <4>1. again.tools = <<>>
        BY <1>4, <1>8, <3>1
      <4>2. <<>> \in Seq({}) /\ Kept(<<>>, {t \in ToSet(<<>>) : t.toolKey # NoAction}) = <<>>
        <5>1. <<>> \in Seq({}) /\ ToSet(<<>>) = {}
          BY DEF ToSet
        <5> QED
          BY <5>1, KeptAll
      <4>3. normalizeAgentTools(<<>>) = <<>>
        <5> DEFINE keyed == Kept(<<>>, {t \in ToSet(<<>>) : t.toolKey # NoAction})
        <5>1. normalizeAgentTools(<<>>) =
                [i \in DOMAIN keyed |->
                   [keyed[i] EXCEPT !.credentialId = IF @ = "blank" THEN "absent" ELSE @]]
          BY DEF normalizeAgentTools
        <5> HIDE DEF keyed
        <5>2. keyed = <<>>
          BY <4>2 DEF keyed
        <5> QED
          BY <5>1, <5>2
      <4> QED
        BY <4>1, <4>3
    <3>2. CASE n.tools # NoTools
      <4>1. again.tools = normalizeAgentTools(x.tools) /\ again.tools # NoTools
        BY <1>4, <1>5, <2>3, <3>2
      <4> QED
        BY <2>2, <4>1, ToolsAreFinal
    <3> QED
      BY <3>1, <3>2
  <2>5. MigratedParts(again) \cap {"model", "memory"} = {}
    <3>1. ~("model" \in DOMAIN again.old /\ again.model = NoModel)
      <4> SUFFICES ASSUME "model" \in DOMAIN again.old, again.model = NoModel PROVE FALSE
        OBVIOUS
      <4>1. "model" \in DOMAIN x.old /\ "model" \notin parts
        BY <1>4, <1>5, <2>3
      <4>2. x.model # NoModel
        BY <4>1 DEF MigratedParts
      <4> QED
        BY <1>4, <1>5, <2>3, <4>1, <4>2
    <3>2. ~("memory" \in DOMAIN again.old /\ again.memory = "null")
      <4> SUFFICES ASSUME "memory" \in DOMAIN again.old, again.memory = "null" PROVE FALSE
        OBVIOUS
      <4>1. "memory" \in DOMAIN x.old /\ "memory" \notin parts
        BY <1>4, <1>5, <2>3
      <4>2. x.memory # "null"
        BY <4>1 DEF MigratedParts
      <4> QED
        BY <1>4, <1>5, <2>3, <4>1, <4>2
    <3> QED
      BY <3>1, <3>2 DEF MigratedParts
  <2>6. DOMAIN again = NodeFields
    BY <1>3, NormalizedOf DEF IsNode, again
  <2>7. MigratedAgent(again).tools = again.tools
    BY <2>4, <2>6, MigratedFields
  <2> QED
    BY <2>5, <2>7 DEF IsMigrated
<1> QED
  BY <1>7, <1>8

\* What the migration makes of the nodes and edges of a flow.
LEMMA MigrationOf ==
  ASSUME NEW ns, \A n \in ns : IsNode(n),
         NEW es, es \in Seq(ToSet(es)), \A e \in ToSet(es) : {e.source, e.target} \subseteq Ids(ns)
  PROVE  LET m == migrateAgentSubnodes(ns, es)
             first == updatedById(ns)
             known == byIds(ns)
         IN /\ \A n \in m.nodes : n.id \in Ids(ns) /\ IsNode(n) /\ Attached(first[n.id], n)
            /\ m.edges \in Seq(ToSet(m.edges))
            /\ \A e \in ToSet(m.edges) : /\ e \in ToSet(es) /\ ~isLegacy(e, first)
                                       /\ {e.source, e.target} \subseteq Ids(m.nodes)
            /\ \A a \in Ids(ns) :
                 /\ known[a].nodeType = "aiAgent"
                 /\ \/ isValidAgentModelConfig(first[a].model)
                    \/ \E e \in ToSet(es) :
                         /\ e.target = a /\ brings(e, known)
                         /\ isValidAgentModelConfig(toAgentModelFromLegacyModelNode(known[e.source]))
                 => \E n \in m.nodes : n.id = a /\ isValidAgentModelConfig(n.model)
<1> DEFINE m == migrateAgentSubnodes(ns, es)
           known == byIds(ns)
           first == updatedById(ns)
           old == {e \in ToSet(es) : isLegacy(e, first)}
           removed == {e.source : e \in {f \in old : brings(f, known)}}
           list == Kept(es, old)
           byId == attachedAll(list, known, first)
           kept == {e \in ToSet(es) \ old : {e.source, e.target} \cap removed = {}}
           Way == OnTheWay(ns)
<1>1. m.nodes = {byId[id] : id \in DOMAIN byId \ removed} /\ m.edges = Kept(es, kept)
  BY DEF migrateAgentSubnodes
<1>2. list \in Seq(ToSet(es)) /\ ToSet(list) = old
  BY KeptOf
<1>3. m.edges \in Seq(ToSet(es)) /\ ToSet(m.edges) = kept
  <2>1. ToSet(es) \cap kept = kept
    OBVIOUS
  <2> HIDE DEF kept
  <2>2. Kept(es, kept) \in Seq(ToSet(es)) /\ ToSet(Kept(es, kept)) = kept
    BY <2>1, KeptOf
  <2> QED
    BY <1>1, <2>2, Zenon
<1>4. first \in Way
  BY FirstOnTheWay
<1>5. \A e \in ToSet(es) : \A w \in Way : attached(e, known, w) \in Way
  BY AttachedOnTheWay
<1>6. PICK f : Attaches(f, list, known, first, Way)
  <2> HIDE DEF list, known, first, Way
  <2> QED
    BY <1>2, <1>4, <1>5, AttachedAlong
<1>7. byId \in Way
  <2>1. Len(list) \in 0..Len(list)
    BY <1>2
  <2> HIDE DEF list, known, first, Way
  <2> QED
    BY <1>6, <2>1 DEF Attaches
<1>8. \A id \in Ids(ns) : first[id].id = id
  BY UpdatedOf
<1>9. /\ DOMAIN byId = Ids(ns)
      /\ \A id \in Ids(ns) : IsNode(byId[id]) /\ byId[id].id = id /\ Attached(first[id], byId[id])
  <2>1. /\ byId \in [Ids(ns) -> [NodeFields -> AtHand(ns)]]
        /\ \A id \in Ids(ns) : Attached(first[id], byId[id])
    BY <1>7 DEF OnTheWay
  <2> HIDE DEF byId, first
  <2>2. \A id \in Ids(ns) : byId[id]["id"] = first[id]["id"]
    BY <2>1 DEF Attached, NodeFields
  <2> QED
    BY <1>8, <2>1, <2>2 DEF IsNode
<1>10. \A id \in Ids(ns) : first[id].nodeType = known[id].nodeType
  <2>1. DOMAIN known = Ids(ns) /\ \A id \in Ids(ns) : known[id] \in ns
    BY ByIdsOf
  <2>2. first = [id \in DOMAIN known |->
                   IF known[id].nodeType = "aiAgent" THEN MigratedAgent(known[id]) ELSE known[id]]
    BY DEF updatedById
  <2> HIDE DEF first, known
  <2>3. ASSUME NEW id \in Ids(ns) PROVE first[id].nodeType = known[id].nodeType
    <3>1. DOMAIN known[id] = NodeFields
      BY <2>1 DEF IsNode
    <3> QED
      BY <2>1, <2>2, <3>1, MigratedAgentOf
  <2> QED
    BY <2>3
<1> HIDE DEF m, byId, list, first, Way
<1>11. ASSUME NEW a \in Ids(ns), known[a].nodeType = "aiAgent",
              isValidAgentModelConfig(byId[a].model)
       PROVE  \E n \in m.nodes : n.id = a /\ isValidAgentModelConfig(n.model)
  <2>1. a \notin removed
    <3>1. \A e \in old : brings(e, known) => known[e.source].nodeType \in LEGACY_MODEL_NODE_TYPES
      BY DEF brings, isLegacyModelNode
    <3> HIDE DEF known, old
    <3> QED
      BY <1>11, <3>1, CurrentTypesHold
  <2> HIDE DEF removed
  <2> QED
    BY <1>1, <1>9, <1>11, <2>1
<1>12. ASSUME NEW a \in Ids(ns), isValidAgentModelConfig(first[a].model)
       PROVE  isValidAgentModelConfig(byId[a].model)
  BY <1>9, <1>12 DEF Attached
<1>13. ASSUME NEW a \in Ids(ns), known[a].nodeType = "aiAgent",
              NEW e \in ToSet(es), e.target = a, brings(e, known),
              isValidAgentModelConfig(toAgentModelFromLegacyModelNode(known[e.source]))
       PROVE  isValidAgentModelConfig(byId[a].model)
  <2> DEFINE T == {w \in Way : isValidAgentModelConfig(w[a].model)}
  <2>1. DOMAIN first = Ids(ns)
    BY UpdatedOf DEF first
  <2>2. isLegacy(e, first)
    BY <1>10, <1>13, <2>1 DEF isLegacy, brings, LEGACY_SUBNODE_EDGE_HANDLES
  <2>3. e \in ToSet(list)
    BY <1>2, <2>2
  <2>4. \A w \in Way : attached(e, known, w) \in T
    BY <1>5, <1>13, AttachedGives DEF Way
  <2>5. \A g \in ToSet(es) : \A w \in Way \cap T : attached(g, known, w) \in T
    BY <1>5, AttachedGives DEF Way
  <2> HIDE DEF T, known
  <2>6. byId \in T
    BY <1>2, <1>4, <1>5, <2>3, <2>4, <2>5, AttachedLater DEF byId
  <2> QED
    BY <2>6 DEF T
<1>14. \A n \in m.nodes : n.id \in Ids(ns) /\ IsNode(n) /\ Attached(first[n.id], n)
  <2> HIDE DEF removed
  <2> QED
    BY <1>1, <1>9
<1>15. m.edges \in Seq(ToSet(m.edges))
  <2> DEFINE q == m.edges
             T == ToSet(es)
  <2>1. q \in Seq(T)
    BY <1>3
  <2> HIDE DEF q, T
  <2>2. q \in Seq({q[i] : i \in DOMAIN q})
    BY <2>1
  <2> QED
    BY <2>2 DEF q, ToSet
<1>16. ASSUME NEW e \in ToSet(m.edges)
       PROVE  /\ e \in ToSet(es) /\ ~isLegacy(e, first)
              /\ {e.source, e.target} \subseteq Ids(m.nodes)
  <2>1. e \in ToSet(es) /\ ~isLegacy(e, first) /\ {e.source, e.target} \cap removed = {}
    BY <1>3
  <2> HIDE DEF removed
  <2>2. \A id \in Ids(ns) \ removed : id \in Ids(m.nodes)
    BY <1>1, <1>9 DEF Ids
  <2> QED
    BY <2>1, <2>2
<1> HIDE DEF known
<1> QED
  BY <1>11, <1>12, <1>13, <1>14, <1>15, <1>16 DEF m, known, first

(***************************************************************************)
(* The canvas: what it holds, and a selection that fits it.                *)
(***************************************************************************)
Numbers == Nat \ {0}
Whole(ns, es) ==
  /\ \A n \in ns : IsNode(n) /\ n.id \in Numbers
  /\ es \in Seq(ToSet(es))
  /\ \A e \in ToSet(es) : e.id \in Numbers /\ {e.source, e.target} \subseteq Ids(ns)
Selections == [node : Nat, edge : Nat, note : Nat]
SelectionFits(s, ns, es, marks) ==
  /\ s \in Selections
  /\ s.node \in Ids(ns) \cup {None}
  /\ s.edge \in Ids(ToSet(es)) \cup {None}
  /\ s.note \in marks \cup {None}
  /\ s.edge # None => s.node = None /\ s.note = None
CanvasInv ==
  /\ Whole(nodes, edges) /\ SelectionFits(selection, nodes, edges, notes)
  /\ notes \subseteq Numbers /\ next \in Numbers

LEMMA NumbersOf ==
  ASSUME NEW ns, NEW es, Whole(ns, es)
  PROVE  Ids(ns) \subseteq Numbers /\ Ids(ToSet(es)) \subseteq Numbers
BY DEF Whole, Ids

LEMMA MinOf ==
  ASSUME NEW S, S \subseteq Numbers, S # {}
  PROVE  Min(S) \in S
<1>1. \E x \in S : \A y \in S : x <= y
  BY LeastOf DEF Numbers
<1> QED
  BY <1>1 DEF Min

\* What React Flow reports of the flags fits the elements that are there.
LEMMA ReportFits ==
  ASSUME NEW ns, NEW es, Whole(ns, es), NEW marks, NEW flags,
         NEW s \in Selections, s.note \in marks \cup {None}
  PROVE  SelectionFits(onSelectionChange(s, flags \cap Ids(ns), flags \cap Ids(ToSet(es))),
                       ns, es, marks)
<1> DEFINE selNodes == flags \cap Ids(ns)
           selEdges == flags \cap Ids(ToSet(es))
<1>1. selNodes \subseteq Numbers /\ selEdges \subseteq Numbers
  BY NumbersOf
<1>2. selNodes \subseteq Ids(ns) /\ selEdges \subseteq Ids(ToSet(es))
  OBVIOUS
<1> HIDE DEF selNodes, selEdges
<1>3. CASE selEdges # {}
  <2>1. Min(selEdges) \in selEdges /\ Min(selEdges) \in Numbers
    BY <1>1, <1>3, MinOf
  <2>2. onSelectionChange(s, selNodes, selEdges) = [node |-> None, edge |-> Min(selEdges), note |-> None]
    BY <1>3, <2>1 DEF onSelectionChange, setSelectedEdge, Nothing, None, Numbers
  <2> QED
    BY <1>2, <2>1, <2>2 DEF SelectionFits, Selections, None, Numbers, selNodes, selEdges
<1>4. CASE selEdges = {} /\ selNodes # {}
  <2>1. Min(selNodes) \in selNodes /\ Min(selNodes) \in Numbers
    BY <1>1, <1>4, MinOf
  <2>2. onSelectionChange(s, selNodes, selEdges) = [node |-> Min(selNodes), edge |-> None, note |-> None]
    BY <1>4, <2>1 DEF onSelectionChange, setSelectedNode, Nothing, None, Numbers
  <2> QED
    BY <1>2, <2>1, <2>2 DEF SelectionFits, Selections, None, Numbers, selNodes, selEdges
<1>5. CASE selEdges = {} /\ selNodes = {}
  <2>1. onSelectionChange(s, selNodes, selEdges) = [node |-> None, edge |-> None, note |-> s.note]
    BY <1>5 DEF onSelectionChange, setSelectedNode, setSelectedEdge, Selections, None
  <2>2. s.note \in Nat
    BY DEF Selections
  <2> QED
    BY <2>1, <2>2 DEF SelectionFits, Selections, None, selNodes, selEdges
<1> QED
  BY <1>3, <1>4, <1>5

\* A change of elements that are whole, with a selection that fits unless React Flow
\* is about to report another.
LEMMA ChangedKeeps ==
  ASSUME NEW ns, NEW es, Whole(ns, es), NEW flags, NEW s \in Selections,
         s.note \in notes' \cup {None}, Changed(ns, es, flags, s),
         (flags \cap Ids(ns)) \cup (flags \cap Ids(ToSet(es))) = flagged =>
           SelectionFits(s, ns, es, notes')
  PROVE  Whole(nodes', edges') /\ SelectionFits(selection', nodes', edges', notes')
<1>1. nodes' = ns /\ edges' = es
  BY DEF Changed
<1>2. /\ flagged' = (flags \cap Ids(ns)) \cup (flags \cap Ids(ToSet(es)))
      /\ selection' = IF flagged' = flagged THEN s
                      ELSE onSelectionChange(s, flags \cap Ids(ns), flags \cap Ids(ToSet(es)))
  BY DEF Changed
<1> QED
  BY <1>1, <1>2, ReportFits

(***************************************************************************)
(* The ways to change the elements.                                        *)
(***************************************************************************)
LEMMA AddedNodeIs ==
  ASSUME NEW id, NEW t
  PROVE  IsNode(AddedNode(id, t)) /\ AddedNode(id, t).id = id
<1> DEFINE config == createDefaultNodeData(t)
           tools == IF t = "aiAgent" THEN <<>> ELSE NoTools
           n == AddedNode(id, t)
<1>1. n = [id |-> id, nodeType |-> t, type |-> "flowNode", config |-> config, old |-> <<>>,
           model |-> NoModel, memory |-> "null", tools |-> tools]
  BY DEF AddedNode
<1> HIDE DEF config, tools, n
<1>2. DOMAIN n = NodeFields /\ n = [k \in NodeFields |-> n[k]] /\ n.id = id
  BY <1>1 DEF NodeFields
<1> QED
  BY <1>2, NodeIs DEF n

\* A node that has a field replaced.
LEMMA PatchedNodeIs ==
  ASSUME NEW n, IsNode(n), NEW v
  PROVE  /\ IsNode([n EXCEPT !.id = v]) /\ [n EXCEPT !.id = v].id = v
         /\ IsNode([n EXCEPT !.config = v]) /\ [n EXCEPT !.config = v].id = n.id
         /\ IsNode([n EXCEPT !.model = v]) /\ [n EXCEPT !.model = v].id = n.id
         /\ IsNode([n EXCEPT !.tools = v]) /\ [n EXCEPT !.tools = v].id = n.id
<1>1. DOMAIN n = NodeFields
  BY DEF IsNode
<1>2. ASSUME NEW k \in NodeFields PROVE IsNode([n EXCEPT ![k] = v])
  <2>1. DOMAIN [n EXCEPT ![k] = v] = NodeFields
    BY <1>1
  <2>2. [n EXCEPT ![k] = v] = [j \in NodeFields |-> [n EXCEPT ![k] = v][j]]
    BY <1>1
  <2> QED
    BY <2>1, <2>2, NodeIs
<1> QED
  BY <1>1, <1>2 DEF NodeFields

LEMMA AddNodeWhole ==
  ASSUME NEW ns, NEW es, Whole(ns, es), NEW n, IsNode(n), n.id \in Numbers
  PROVE  Whole(ns \cup {n}, es) /\ Ids(ns \cup {n}) = Ids(ns) \cup {n.id}
<1>1. Ids(ns \cup {n}) = Ids(ns) \cup {n.id}
  BY DEF Ids
<1> QED
  BY <1>1 DEF Whole

LEMMA AddEdgeWhole ==
  ASSUME NEW ns, NEW es, Whole(ns, es),
         NEW e, e.id \in Numbers, e.source \in Ids(ns), e.target \in Ids(ns)
  PROVE  Whole(ns, Append(es, e)) /\ ToSet(Append(es, e)) = ToSet(es) \cup {e}
<1>1. es \in Seq(ToSet(es))
  BY DEF Whole
<1>2. ToSet(Append(es, e)) = ToSet(es) \cup {e}
  BY <1>1 DEF ToSet
<1>3. Append(es, e) \in Seq(ToSet(es) \cup {e})
  BY <1>1
<1> QED
  BY <1>2, <1>3 DEF Whole

LEMMA KeptWhole ==
  ASSUME NEW ns, NEW es, Whole(ns, es), NEW set, NEW left,
         \A e \in ToSet(es) \cap set : {e.source, e.target} \subseteq Ids(left),
         \A n \in left : IsNode(n) /\ n.id \in Numbers
  PROVE  Whole(left, Kept(es, set)) /\ ToSet(Kept(es, set)) \subseteq ToSet(es) \cap set
<1>1. es \in Seq(ToSet(es))
  BY DEF Whole
<1>2. Kept(es, set) \in Seq(ToSet(es)) /\ ToSet(Kept(es, set)) \subseteq ToSet(es) \cap set
  BY <1>1, KeptOf
<1>3. Kept(es, set) \in Seq(ToSet(Kept(es, set)))
  BY <1>2 DEF ToSet
<1> QED
  BY <1>2, <1>3 DEF Whole

LEMMA PatchWhole ==
  ASSUME NEW ns, NEW es, Whole(ns, es), NEW n \in ns, NEW m, IsNode(m), m.id = n.id
  PROVE  Whole((ns \ {n}) \cup {m}, es) /\ Ids((ns \ {n}) \cup {m}) = Ids(ns)
<1>1. Ids((ns \ {n}) \cup {m}) = Ids(ns)
  BY DEF Ids
<1> QED
  BY <1>1 DEF Whole

(***************************************************************************)
(* The actions.                                                            *)
(***************************************************************************)
\* A step that changes elements and keeps the numbers.
LEMMA StepKeeps ==
  ASSUME CanvasInv, notes' \subseteq Numbers, next' \in Numbers,
         NEW ns, NEW es, Whole(ns, es), NEW flags, NEW s \in Selections,
         s.note \in notes' \cup {None}, Changed(ns, es, flags, s),
         (flags \cap Ids(ns)) \cup (flags \cap Ids(ToSet(es))) = flagged =>
           SelectionFits(s, ns, es, notes')
  PROVE  CanvasInv'
<1>1. Whole(nodes', edges') /\ SelectionFits(selection', nodes', edges', notes')
  BY ChangedKeeps
<1> QED
  BY <1>1 DEF CanvasInv, Whole, SelectionFits

\* The next number.
LEMMA NextNumber ==
  ASSUME CanvasInv
  PROVE  next \in Numbers /\ next + 1 \in Numbers /\ next + 2 \in Numbers
BY DEF CanvasInv, Numbers

\* A node that was added, with an edge or without, is shown.
LEMMA AddKeeps ==
  ASSUME CanvasInv, UNCHANGED notes, next' \in Numbers, NEW n, IsNode(n), n.id \in Numbers,
         NEW es, Whole(nodes \cup {n}, es),
         Changed(nodes \cup {n}, es, flagged, ShowNode(n.id))
  PROVE  CanvasInv'
<1> DEFINE s == ShowNode(n.id)
<1>1. selection \in Selections /\ selection.note \in notes \cup {None} /\ notes \subseteq Numbers
  BY DEF CanvasInv, SelectionFits
<1>2. s \in Selections /\ s.node = n.id /\ s.edge = None /\ s.note = selection.note
  BY <1>1 DEF ShowNode, Selections, None, Numbers
<1>3. n.id \in Ids(nodes \cup {n})
  BY DEF Ids
<1> HIDE DEF s
<1>4. SelectionFits(s, nodes \cup {n}, es, notes')
  BY <1>1, <1>2, <1>3 DEF SelectionFits
<1>5. Changed(nodes \cup {n}, es, flagged, s)
  BY DEF s
<1> QED
  BY <1>1, <1>2, <1>4, <1>5, StepKeeps

LEMMA AddNodeKeeps ==
  ASSUME CanvasInv, NEW t, addNode(t)
  PROVE  CanvasInv'
<1> DEFINE n == AddedNode(next, t)
<1>1. IsNode(n) /\ n.id = next /\ next \in Numbers
  BY AddedNodeIs, NextNumber
<1> HIDE DEF n
<1>2. Whole(nodes \cup {n}, edges)
  BY <1>1, AddNodeWhole DEF CanvasInv
<1>3. next' \in Numbers /\ UNCHANGED notes /\ Changed(nodes \cup {n}, edges, flagged, ShowNode(n.id))
  BY <1>1, NextNumber DEF addNode, n
<1> QED
  BY <1>1, <1>2, <1>3, AddKeeps

LEMMA DuplicateNodeKeeps ==
  ASSUME CanvasInv, NEW m \in nodes, duplicateNode(m)
  PROVE  CanvasInv'
<1> DEFINE n == [m EXCEPT !.id = next]
<1>1. IsNode(n) /\ n.id = next /\ next \in Numbers
  BY PatchedNodeIs, NextNumber DEF CanvasInv, Whole
<1> HIDE DEF n
<1>2. Whole(nodes \cup {n}, edges)
  BY <1>1, AddNodeWhole DEF CanvasInv
<1>3. next' \in Numbers /\ UNCHANGED notes /\ Changed(nodes \cup {n}, edges, flagged, ShowNode(n.id))
  BY <1>1, NextNumber DEF duplicateNode, n
<1> QED
  BY <1>1, <1>2, <1>3, AddKeeps

\* A new edge.
LEMMA AddedEdgeIs ==
  ASSUME NEW id, NEW source, NEW handle, NEW target
  PROVE  LET e == AddedEdge(id, source, handle, target)
         IN e.id = id /\ e.source = source /\ e.target = target
BY DEF AddedEdge

LEMMA AddConnectedKeeps ==
  ASSUME CanvasInv, NEW from \in nodes, NEW t, NEW handle, addConnectedNode(from, t, handle)
  PROVE  CanvasInv'
<1> DEFINE target == next + 1
           n == AddedNode(target, t)
           sourceHandle == IF from.nodeType = "if" /\ handle = "none" THEN "true" ELSE handle
           e == AddedEdge(next, from.id, sourceHandle, target)
<1>1. IsNode(n) /\ n.id = target /\ target \in Numbers /\ next \in Numbers
  BY AddedNodeIs, NextNumber
<1>2. e.id = next /\ e.source = from.id /\ e.target = target
  BY AddedEdgeIs
<1>3. /\ next' = target + 1 /\ UNCHANGED notes
      /\ Changed(nodes \cup {n}, Append(edges, e), flagged, ShowNode(target))
  BY DEF addConnectedNode
<1>4. next' \in Numbers
  BY <1>3, NextNumber DEF CanvasInv, Numbers
<1> HIDE DEF n, e, target
<1>5. Whole(nodes \cup {n}, edges) /\ Ids(nodes \cup {n}) = Ids(nodes) \cup {n.id}
  BY <1>1, AddNodeWhole DEF CanvasInv
<1>6. from.id \in Ids(nodes)
  BY DEF Ids
<1>7. Whole(nodes \cup {n}, Append(edges, e))
  BY <1>1, <1>2, <1>5, <1>6, AddEdgeWhole
<1> QED
  BY <1>1, <1>3, <1>4, <1>7, AddKeeps

LEMMA ConnectKeeps ==
  ASSUME CanvasInv, NEW source \in nodes, NEW handle, NEW target \in nodes,
         onConnect(source, handle, target)
  PROVE  CanvasInv'
<1> DEFINE e == AddedEdge(next, source.id, handle, target.id)
<1>1. e.id = next /\ e.source = source.id /\ e.target = target.id /\ next \in Numbers
  BY AddedEdgeIs, NextNumber
<1>2. /\ next' \in Numbers /\ UNCHANGED notes
      /\ Changed(nodes, Append(edges, e), flagged, selection)
  BY NextNumber DEF onConnect
<1> HIDE DEF e
<1>3. source.id \in Ids(nodes) /\ target.id \in Ids(nodes)
  BY DEF Ids
<1>4. Whole(nodes, Append(edges, e)) /\ ToSet(Append(edges, e)) = ToSet(edges) \cup {e}
  BY <1>1, <1>3, AddEdgeWhole DEF CanvasInv
<1>5. Ids(ToSet(edges)) \subseteq Ids(ToSet(Append(edges, e)))
  BY <1>4 DEF Ids
<1>6. SelectionFits(selection, nodes, Append(edges, e), notes') /\ notes' \subseteq Numbers
  BY <1>2, <1>5 DEF CanvasInv, SelectionFits
<1> QED
  BY <1>2, <1>4, <1>6, StepKeeps DEF SelectionFits

\* An edit of a node leaves its number.
LEMMA UpdateKeeps ==
  ASSUME CanvasInv, NEW n \in nodes, NEW m, IsNode(m), m.id = n.id, updateNodeData(n, m)
  PROVE  CanvasInv'
<1>1. /\ UNCHANGED <<notes, next>>
      /\ Changed((nodes \ {n}) \cup {m}, edges, flagged, selection)
  BY DEF updateNodeData
<1>2. Whole((nodes \ {n}) \cup {m}, edges) /\ Ids((nodes \ {n}) \cup {m}) = Ids(nodes)
  BY PatchWhole DEF CanvasInv
<1>3. SelectionFits(selection, (nodes \ {n}) \cup {m}, edges, notes')
  BY <1>1, <1>2 DEF CanvasInv, SelectionFits
<1>4. notes' \subseteq Numbers /\ next' \in Numbers
  BY <1>1 DEF CanvasInv
<1> QED
  BY <1>1, <1>2, <1>3, <1>4, StepKeeps DEF SelectionFits

LEMMA DeleteNodeKeeps ==
  ASSUME CanvasInv, NEW n \in nodes, deleteNode(n)
  PROVE  CanvasInv'
<1> DEFINE set == {e \in ToSet(edges) : e.source # n.id /\ e.target # n.id}
           es == Kept(edges, set)
           s == [selection EXCEPT !.node = IF @ = n.id THEN None ELSE @, !.edge = None]
           ns == nodes \ {n}
<1>1. UNCHANGED <<notes, next>> /\ Changed(ns, es, flagged, s)
  BY DEF deleteNode
<1>2. \A id \in Ids(nodes) : id # n.id => id \in Ids(ns)
  BY DEF Ids
<1>3. \A e \in ToSet(edges) \cap set : {e.source, e.target} \subseteq Ids(ns)
  BY <1>2 DEF CanvasInv, Whole
<1>4. Whole(ns, es)
  <2>1. Whole(nodes, edges) /\ \A x \in ns : IsNode(x) /\ x.id \in Numbers
    BY DEF CanvasInv, Whole
  <2> HIDE DEF ns, set
  <2> QED
    BY <1>3, <2>1, KeptWhole
<1>5. /\ s \in Selections /\ s.edge = None /\ s.note = selection.note
      /\ s.node = None \/ (s.node = selection.node /\ selection.node # n.id)
  <2>1. selection \in Selections
    BY DEF CanvasInv, SelectionFits
  <2> QED
    BY <2>1 DEF Selections, None
<1>6. notes' \subseteq Numbers /\ next' \in Numbers /\ notes' = notes
  BY <1>1 DEF CanvasInv
<1> HIDE DEF s, es, ns
<1>7. SelectionFits(s, ns, es, notes')
  BY <1>2, <1>5, <1>6 DEF CanvasInv, SelectionFits
<1> QED
  BY <1>1, <1>4, <1>6, <1>7, StepKeeps DEF SelectionFits

\* The selected edge is one of those that are left, or none is.
LEMMA EdgeSelectionOf ==
  ASSUME NEW s \in Selections, NEW es
  PROVE  LET t == onEdgesChange(s, es)
         IN /\ t \in Selections /\ t.node = s.node /\ t.note = s.note
            /\ t.edge = None \/ (t.edge = s.edge /\ s.edge \in Ids(ToSet(es)))
<1> DEFINE ids == Ids(ToSet(es))
           t == onEdgesChange(s, es)
<1>1. t = [s EXCEPT !.edge = IF @ \in ids THEN @ ELSE None]
  BY DEF onEdgesChange
<1> HIDE DEF ids, t
<1>2. /\ t \in Selections /\ t.node = s.node /\ t.note = s.note
      /\ t.edge = None \/ (t.edge = s.edge /\ s.edge \in ids)
  BY <1>1 DEF Selections, None
<1> QED
  BY <1>2 DEF t, ids

LEMMA DeleteEdgeKeeps ==
  ASSUME CanvasInv, NEW id, deleteEdge(id)
  PROVE  CanvasInv'
<1> DEFINE set == {e \in ToSet(edges) : e.id # id}
           es == Kept(edges, set)
           s == onEdgesChange(selection, es)
<1>1. UNCHANGED <<notes, next>> /\ Changed(nodes, es, flagged, s)
  BY DEF deleteEdge
<1>2. Whole(nodes, es)
  BY KeptWhole DEF CanvasInv, Whole
<1> HIDE DEF es
<1>3. /\ s \in Selections /\ s.node = selection.node /\ s.note = selection.note
      /\ s.edge = None \/ (s.edge = selection.edge /\ s.edge \in Ids(ToSet(es)))
  BY EdgeSelectionOf DEF CanvasInv, SelectionFits
<1>4. notes' \subseteq Numbers /\ next' \in Numbers /\ notes' = notes
  BY <1>1 DEF CanvasInv
<1> HIDE DEF s
<1>5. SelectionFits(s, nodes, es, notes')
  BY <1>3, <1>4 DEF CanvasInv, SelectionFits
<1> QED
  BY <1>1, <1>2, <1>4, <1>5, StepKeeps DEF SelectionFits

\* The keyboard deletes what is flagged: a selection that the elements' ends no
\* longer fit is one that React Flow reports about in the same step.
LEMMA DeleteKeyKeeps ==
  ASSUME CanvasInv, deleteKey
  PROVE  CanvasInv'
<1> DEFINE doomed == nodeIds \cap flagged
           set == {e \in ToSet(edges) : /\ e.id \notin flagged
                                        /\ {e.source, e.target} \cap doomed = {}}
           es == Kept(edges, set)
           ns == {n \in nodes : n.id \notin doomed}
           left == onEdgesChange(selection, es)
           s == [left EXCEPT !.note = None]
<1>1. /\ notes' = notes \ {selection.note} /\ UNCHANGED next /\ Changed(ns, es, flagged, s)
  BY DEF deleteKey
<1>2. \A id \in Ids(nodes) : id \notin doomed => id \in Ids(ns)
  BY DEF Ids
<1>3. \A e \in ToSet(edges) \cap set : {e.source, e.target} \subseteq Ids(ns)
  BY <1>2 DEF CanvasInv, Whole
<1>4. Whole(ns, es) /\ ToSet(es) \subseteq ToSet(edges) \cap set
  <2>1. Whole(nodes, edges) /\ \A x \in ns : IsNode(x) /\ x.id \in Numbers
    BY DEF CanvasInv, Whole
  <2> HIDE DEF ns, set
  <2> QED
    BY <1>3, <2>1, KeptWhole
<1>5. flagged \cap Ids(ToSet(es)) = {}
  BY <1>4 DEF Ids
<1>6. doomed \cap Ids(ns) = {}
  BY DEF Ids
<1> HIDE DEF es, ns
<1>7. /\ left \in Selections /\ left.node = selection.node
      /\ left.edge = None \/ (left.edge = selection.edge /\ left.edge \in Ids(ToSet(es)))
  BY EdgeSelectionOf DEF CanvasInv, SelectionFits
<1> HIDE DEF left
<1>8. s \in Selections /\ s.node = left.node /\ s.edge = left.edge /\ s.note = None
  BY <1>7 DEF Selections, None
<1> HIDE DEF s
<1>9. notes' \subseteq Numbers /\ next' \in Numbers
  BY <1>1 DEF CanvasInv
<1>10. ASSUME (flagged \cap Ids(ns)) \cup (flagged \cap Ids(ToSet(es))) = flagged
       PROVE  SelectionFits(s, ns, es, notes')
  <2>1. doomed = {}
    BY <1>5, <1>6, <1>10
  <2>2. Ids(nodes) \subseteq Ids(ns)
    BY <1>2, <2>1
  <2> QED
    BY <1>7, <1>8, <2>2 DEF CanvasInv, SelectionFits
<1> QED
  BY <1>1, <1>4, <1>8, <1>9, <1>10, StepKeeps

\* A step that changes no element but what is selected.
LEMMA SelectKeeps ==
  ASSUME CanvasInv, UNCHANGED <<notes, next>>, NEW flags, NEW s,
         SelectionFits(s, nodes, edges, notes), Changed(nodes, edges, flags, s)
  PROVE  CanvasInv'
<1>1. Whole(nodes, edges) /\ s \in Selections /\ s.note \in notes' \cup {None}
      /\ notes' \subseteq Numbers /\ next' \in Numbers
  BY DEF CanvasInv, SelectionFits
<1>2. Whole(nodes', edges') /\ SelectionFits(selection', nodes', edges', notes')
  BY <1>1, ChangedKeeps
<1> QED
  BY <1>1, <1>2 DEF CanvasInv, Whole, SelectionFits

LEMMA SelectedOf ==
  ASSUME NEW s \in Selections, NEW id \in Nat
  PROVE  /\ setSelectedNode(s, id) = IF id = None THEN [node |-> None, edge |-> s.edge, note |-> s.note]
                                     ELSE [node |-> id, edge |-> None, note |-> None]
         /\ setSelectedNote(s, id) = IF id = None THEN [node |-> s.node, edge |-> s.edge, note |-> None]
                                     ELSE [node |-> None, edge |-> None, note |-> id]
BY DEF setSelectedNode, setSelectedNote, Nothing, None, Selections

LEMMA NotesKeep ==
  ASSUME CanvasInv, addNote \/ \E id : deleteNote(id)
  PROVE  CanvasInv'
<1>1. CASE addNote
  <2>1. /\ notes' = notes \cup {next} /\ next' = next + 1
        /\ selection' = [node |-> None, edge |-> None, note |-> next]
        /\ UNCHANGED <<nodes, edges>>
    BY <1>1, SelectedOf DEF addNote, CanvasInv, SelectionFits, Numbers, None
  <2> QED
    BY <2>1, NextNumber DEF CanvasInv, Whole, SelectionFits, Selections, None, Numbers
<1>2. ASSUME NEW id, deleteNote(id) PROVE CanvasInv'
  <2>1. /\ notes' = notes \ {id}
        /\ selection' = [selection EXCEPT !.note = IF @ = id THEN None ELSE @]
        /\ UNCHANGED <<nodes, edges, next>>
    BY <1>2 DEF deleteNote
  <2>2. /\ selection' \in Selections /\ selection'.node = selection.node
        /\ selection'.edge = selection.edge
        /\ selection'.note = None \/ (selection'.note = selection.note /\ selection.note # id)
    BY <2>1 DEF CanvasInv, SelectionFits, Selections, None
  <2> QED
    BY <2>1, <2>2 DEF CanvasInv, Whole, SelectionFits
<1> QED
  BY <1>1, <1>2

\* Selecting a note; moving, writing or colouring one begins so.
LEMMA ShowNoteKeeps ==
  ASSUME CanvasInv, NEW id \in notes, selectNote(id) \/ updateNote(id)
  PROVE  CanvasInv'
<1>1. /\ UNCHANGED <<notes, next>>
      /\ Changed(nodes, edges, {}, setSelectedNote(selection, id))
  BY DEF selectNote, updateNote
<1>2. id \in Numbers /\ selection \in Selections
  BY DEF CanvasInv, SelectionFits
<1>3. setSelectedNote(selection, id) = [node |-> None, edge |-> None, note |-> id]
  BY <1>2, SelectedOf DEF Numbers, None
<1>4. SelectionFits(setSelectedNote(selection, id), nodes, edges, notes)
  BY <1>2, <1>3 DEF SelectionFits, Selections, None, Numbers
<1> QED
  BY <1>1, <1>4, SelectKeeps

LEMMA SelectingKeeps ==
  ASSUME CanvasInv, selecting \/ onPaneClick \/ onOpenTab
  PROVE  CanvasInv'
<1>1. CASE selecting
  <2>1. PICK flags : Changed(nodes, edges, flags, selection)
    BY <1>1 DEF selecting
  <2>2. UNCHANGED <<notes, next>>
    BY <1>1 DEF selecting
  <2> QED
    BY <2>1, <2>2, SelectKeeps DEF CanvasInv
<1>2. CASE onPaneClick
  <2>1. selection \in Selections
    BY DEF CanvasInv, SelectionFits
  <2>2. setSelectedNote(selection, None) =
          [node |-> selection.node, edge |-> selection.edge, note |-> None]
    BY <2>1, SelectedOf DEF None
  <2>3. SelectionFits(setSelectedNote(selection, None), nodes, edges, notes)
    BY <2>1, <2>2 DEF CanvasInv, SelectionFits, Selections, None
  <2>4. UNCHANGED <<notes, next>> /\ Changed(nodes, edges, {}, setSelectedNote(selection, None))
    BY <1>2 DEF onPaneClick
  <2> QED
    BY <2>3, <2>4, SelectKeeps
<1>3. CASE onOpenTab
  <2>1. PICK n \in nodes : Changed(nodes, edges, {n.id}, setSelectedNode(selection, n.id))
    BY <1>3 DEF onOpenTab
  <2>2. UNCHANGED <<notes, next>>
    BY <1>3 DEF onOpenTab
  <2>3. n.id \in Numbers /\ n.id \in Ids(nodes) /\ selection \in Selections
    BY DEF CanvasInv, Whole, SelectionFits, Ids
  <2>4. setSelectedNode(selection, n.id) = [node |-> n.id, edge |-> None, note |-> None]
    BY <2>3, SelectedOf DEF Numbers, None
  <2>5. SelectionFits(setSelectedNode(selection, n.id), nodes, edges, notes)
    BY <2>3, <2>4 DEF SelectionFits, Selections, None, Numbers
  <2> QED
    BY <2>1, <2>2, <2>5, SelectKeeps
<1> QED
  BY <1>1, <1>2, <1>3

\* The normalized nodes of a stored flow: one for each number.
Opened(d) == {normalizeNode(n) : n \in d.nodes}
LEMMA OpenedNodes ==
  ASSUME NEW d \in Definitions
  PROVE  /\ \A n \in d.nodes : DOMAIN n = NodeFields /\ HasTools(n)
         /\ \A x \in Opened(d) : IsNode(x) /\ byIds(Opened(d))[x.id] = x /\ x.id \in Ids(Opened(d))
         /\ DOMAIN byIds(Opened(d)) = Ids(Opened(d))
         /\ d.edges \in Seq(ToSet(d.edges))
         /\ \A e \in ToSet(d.edges) : {e.source, e.target} \subseteq Ids(Opened(d))
<1> DEFINE ns == Opened(d)
<1>1. IsStored(d)
  BY CanvasAssumption
<1>2. /\ \A n \in d.nodes : DOMAIN n = NodeFields /\ HasTools(n)
      /\ \A n, m \in d.nodes : n.id = m.id => n = m
      /\ d.edges \in Seq(ToSet(d.edges))
      /\ \A e \in ToSet(d.edges) : {e.source, e.target} \subseteq Ids(d.nodes)
  BY <1>1 DEF IsStored, HasTools, NodeFields
<1>3. \A n \in d.nodes : IsNode(normalizeNode(n)) /\ normalizeNode(n).id = n.id
  BY <1>2, NormalizedOf
<1>4. \A x, y \in ns : x.id = y.id => x = y
  <2>1. SUFFICES ASSUME NEW n \in d.nodes, NEW m \in d.nodes, normalizeNode(n).id = normalizeNode(m).id
                 PROVE  normalizeNode(n) = normalizeNode(m)
    BY DEF Opened
  <2> QED
    BY <1>2, <1>3, <2>1
<1>5. Ids(ns) = Ids(d.nodes)
  BY <1>3 DEF Ids, Opened
<1>6. \A x \in ns : IsNode(x) /\ x.id \in Ids(ns)
  BY <1>3 DEF Opened, Ids
<1> HIDE DEF ns
<1>7. \A x \in ns : byIds(ns)[x.id] = x
  BY <1>4, <1>6, ByIdsOf
<1>8. DOMAIN byIds(ns) = Ids(ns)
  BY ByIdsOf
<1> QED
  BY <1>2, <1>5, <1>6, <1>7, <1>8 DEF ns

\* A flow that is opened is whole, whatever the migration made of it.
LEMMA OpenedIsWhole ==
  ASSUME NEW d \in Definitions
  PROVE  Whole(Migrated[d].nodes, Migrated[d].edges) /\ d.notes \subseteq Numbers
<1> DEFINE ns == Opened(d)
           m == migrateAgentSubnodes(ns, d.edges)
<1>1. Migrated[d] = m
  BY DEF Migrated, Opened
<1>2. /\ \A x \in ns : IsNode(x)
      /\ d.edges \in Seq(ToSet(d.edges))
      /\ \A e \in ToSet(d.edges) : {e.source, e.target} \subseteq Ids(ns)
  BY OpenedNodes
<1>3. /\ Ids(ns) \subseteq Numbers /\ d.notes \subseteq Numbers
      /\ \A e \in ToSet(d.edges) : e.id \in Numbers
  <2>1. /\ \A n \in d.nodes : n.id \in Numbers /\ DOMAIN n = NodeFields
        /\ \A e \in ToSet(d.edges) : e.id \in Numbers
        /\ d.notes \subseteq Numbers
    BY CanvasAssumption DEF IsStored, NodeFields, Numbers
  <2>2. \A n \in d.nodes : normalizeNode(n).id = n.id
    BY <2>1, NormalizedOf
  <2> QED
    BY <2>1, <2>2 DEF Ids, Opened
<1> HIDE DEF ns
<1>4. /\ \A n \in m.nodes : n.id \in Ids(ns) /\ IsNode(n)
      /\ m.edges \in Seq(ToSet(m.edges))
      /\ \A e \in ToSet(m.edges) : e \in ToSet(d.edges) /\ {e.source, e.target} \subseteq Ids(m.nodes)
  BY <1>2, MigrationOf
<1> HIDE DEF m
<1> QED
  BY <1>1, <1>3, <1>4 DEF Whole

LEMMA OpenFlowKeeps ==
  ASSUME CanvasInv, setFlowId
  PROVE  CanvasInv'
<1>1. PICK d \in Definitions : hydrateFromDefinition(d) /\ UNCHANGED next
  BY DEF setFlowId
<1> DEFINE ns == Migrated[d].nodes
           es == Migrated[d].edges
<1>2. /\ nodes' = ns /\ edges' = es /\ notes' = d.notes /\ next' = next
      /\ selection' = onSelectionChange(Nothing, d.selected \cap Ids(ns),
                                        d.selected \cap Ids(ToSet(es)))
  BY <1>1 DEF hydrateFromDefinition
<1>3. Whole(ns, es) /\ d.notes \subseteq Numbers
  BY OpenedIsWhole
<1> HIDE DEF ns, es
<1>4. Nothing \in Selections /\ Nothing.note \in d.notes \cup {None}
  BY DEF Nothing, Selections, None
<1>5. SelectionFits(selection', ns, es, d.notes)
  BY <1>2, <1>3, <1>4, ReportFits
<1> QED
  BY <1>2, <1>3, <1>5 DEF CanvasInv, Whole, SelectionFits

LEMMA InspectorKeeps ==
  ASSUME CanvasInv, useInspector \/ \E n \in nodes : updateTools(n)
  PROVE  CanvasInv'
<1>1. ASSUME NEW n \in nodes, NEW v,
             updateNodeData(n, [n EXCEPT !.config = v]) \/ updateNodeData(n, [n EXCEPT !.model = v])
               \/ updateNodeData(n, [n EXCEPT !.tools = v])
      PROVE  CanvasInv'
  <2>1. IsNode(n)
    BY DEF CanvasInv, Whole
  <2> QED
    BY <1>1, <2>1, PatchedNodeIs, UpdateKeeps
<1>2. ASSUME NEW n \in nodes, InspectorFooter(n) PROVE CanvasInv'
  BY <1>2, DuplicateNodeKeeps, DeleteNodeKeeps DEF InspectorFooter
<1> QED
  BY <1>1, <1>2, Zenon DEF useInspector, updateTools, updateNodeConfig

\* No edge is left behind by a node that goes, and the inspector shows elements that
\* exist, whatever is opened, added, connected, selected and deleted in any order
\* (nodesSlice.ts, edgesSlice.ts, selectionSlice.ts, migrate-agent-subnodes.ts).
THEOREM GraphIsWholeAlways == CanvasSpec => []GraphIsWhole
<1>1. CanvasInit => CanvasInv
  <2> SUFFICES ASSUME CanvasInit PROVE CanvasInv
    OBVIOUS
  <2>1. nodes = {} /\ edges = <<>> /\ notes = {} /\ selection = Nothing /\ next \in Numbers
    BY CanvasAssumption DEF CanvasInit, Numbers
  <2>2. ToSet(edges) = {}
    BY <2>1 DEF ToSet
  <2> QED
    BY <2>1, <2>2 DEF CanvasInv, Whole, SelectionFits, Selections, Nothing, None
<1>2. CanvasInv /\ [CanvasNext]_canvasVars => CanvasInv'
  <2> SUFFICES ASSUME CanvasInv, [CanvasNext]_canvasVars PROVE CanvasInv'
    OBVIOUS
  <2>1. CASE setFlowId
    BY <2>1, OpenFlowKeeps
  <2>2. CASE NodePalette \/ onDrop
    BY <2>2, AddNodeKeeps, NotesKeep DEF NodePalette, onDrop
  <2>3. CASE useFlowNode
    BY <2>3, AddConnectedKeeps DEF useFlowNode, NodePicker
  <2>4. CASE connecting
    BY <2>4, ConnectKeeps DEF connecting
  <2>5. CASE useInspector \/ \E n \in nodes : updateTools(n)
    BY <2>5, InspectorKeeps
  <2>6. CASE (\E id \in edgeIds : deleteEdge(id)) \/ deleteKey
    BY <2>6, DeleteEdgeKeeps, DeleteKeyKeeps
  <2>7. CASE StickyNotesLayer
    BY <2>7, NotesKeep, ShowNoteKeeps DEF StickyNotesLayer, duplicateNote
  <2>8. CASE selecting \/ onPaneClick \/ onOpenTab
    BY <2>8, SelectingKeeps
  <2>9. CASE UNCHANGED canvasVars
    BY <2>9 DEF canvasVars, CanvasInv, Whole, SelectionFits
  <2> QED
    BY <2>1, <2>2, <2>3, <2>4, <2>5, <2>6, <2>7, <2>8, <2>9 DEF CanvasNext
<1>3. CanvasInv => GraphIsWhole
  BY DEF CanvasInv, Whole, SelectionFits, GraphIsWhole, EdgesJoinNodes, SelectionIsShown,
     nodeIds, edgeIds
<1> QED
  BY <1>1, <1>2, <1>3, PTL DEF CanvasSpec

(***************************************************************************)
(* The migration is final and loses no model.                              *)
(***************************************************************************)
\* What opening a flow made of it is not migrated when it is opened again.
LEMMA OpenedIsFinal ==
  ASSUME NEW d \in Definitions
  PROVE  ~migrateAgentSubnodes({normalizeNode(n) : n \in Migrated[d].nodes},
                               Migrated[d].edges).didMigrate
<1> DEFINE ns == Opened(d)
           m == Migrated[d]
           first == updatedById(ns)
           again == {normalizeNode(n) : n \in m.nodes}
           second == updatedById(again)
<1>1. m = migrateAgentSubnodes(ns, d.edges)
  BY DEF Migrated, Opened
<1>2. /\ \A n \in d.nodes : DOMAIN n = NodeFields /\ HasTools(n)
      /\ \A x \in ns : IsNode(x) /\ byIds(ns)[x.id] = x /\ x.id \in Ids(ns)
      /\ d.edges \in Seq(ToSet(d.edges))
      /\ \A e \in ToSet(d.edges) : {e.source, e.target} \subseteq Ids(ns)
      /\ DOMAIN byIds(ns) = Ids(ns)
  BY OpenedNodes
<1>3. /\ \A n \in m.nodes : n.id \in Ids(ns) /\ IsNode(n) /\ Attached(first[n.id], n)
      /\ \A e \in ToSet(m.edges) : e \in ToSet(d.edges) /\ ~isLegacy(e, first)
  <2> HIDE DEF ns, m
  <2> QED
    BY <1>1, <1>2, MigrationOf DEF first
<1>4. \A id \in Ids(ns) : first[id] = Once(byIds(ns)[id])
  BY <1>2 DEF updatedById, Once
<1> HIDE DEF m, first
<1>5. ASSUME NEW n \in m.nodes
      PROVE  LET x == normalizeNode(n)
             IN /\ IsNode(x) /\ x.id = n.id /\ x.nodeType = first[n.id].nodeType
                /\ ~(x.nodeType = "aiAgent" /\ IsMigrated(x))
  <2>1. PICK y \in ns : y.id = n.id
    BY <1>3 DEF Ids
  <2>2. PICK s \in d.nodes : y = normalizeNode(s)
    BY DEF Opened
  <2>3. Attached(Once(normalizeNode(s)), n) /\ IsNode(n)
    BY <1>2, <1>3, <1>4, <2>1, <2>2
  <2> HIDE DEF ns
  <2>4. /\ n.nodeType = normalizeNode(s).nodeType /\ normalizeNode(n).nodeType = n.nodeType
        /\ ~(normalizeNode(n).nodeType = "aiAgent" /\ IsMigrated(normalizeNode(n)))
    BY <1>2, <2>3, NodeIsFinal, CanvasAssumption
  <2>5. first[n.id].nodeType = n.nodeType
    BY <1>3 DEF Attached, NodeFields
  <2>6. IsNode(normalizeNode(n)) /\ normalizeNode(n).id = n.id
    BY <2>3, NormalizedOf DEF IsNode
  <2> QED
    BY <2>4, <2>5, <2>6
<1>6. \A x \in again : IsNode(x) /\ ~(x.nodeType = "aiAgent" /\ IsMigrated(x))
  BY <1>5
<1>7. /\ DOMAIN second = Ids(again) /\ DOMAIN first = Ids(ns)
      /\ \A id \in Ids(again) : second[id].nodeType = first[id].nodeType /\ id \in Ids(ns)
  <2>1. DOMAIN byIds(again) = Ids(again)
        /\ \A id \in Ids(again) : byIds(again)[id] \in again /\ byIds(again)[id].id = id
    BY ByIdsOf
  <2>2. second = [id \in DOMAIN byIds(again) |->
                    IF byIds(again)[id].nodeType = "aiAgent" THEN MigratedAgent(byIds(again)[id])
                    ELSE byIds(again)[id]]
    BY DEF updatedById
  <2>3. \A x \in again : x.nodeType = first[x.id].nodeType /\ x.id \in Ids(ns)
    BY <1>3, <1>5
  <2> HIDE DEF again, second
  <2>4. ASSUME NEW id \in Ids(again)
        PROVE  second[id].nodeType = first[id].nodeType /\ id \in Ids(ns)
    <3>1. DOMAIN byIds(again)[id] = NodeFields
      BY <1>6, <2>1 DEF IsNode
    <3>2. MigratedAgent(byIds(again)[id]).nodeType = byIds(again)[id].nodeType
      BY <3>1, MigratedAgentOf
    <3> QED
      BY <2>1, <2>2, <2>3, <3>2
  <2>5. DOMAIN first = Ids(ns)
    BY <1>2, UpdatedOf DEF first
  <2> QED
    BY <2>1, <2>2, <2>4, <2>5
<1> HIDE DEF again, second, ns
<1>8. \A e \in ToSet(m.edges) : ~isLegacy(e, second)
  BY <1>3, <1>7 DEF isLegacy
<1>9. migrateAgentSubnodes(again, m.edges).didMigrate =
        (\/ {e \in ToSet(m.edges) : isLegacy(e, second)} # {}
         \/ \E n \in again : n.nodeType = "aiAgent" /\ IsMigrated(n))
  BY DEF migrateAgentSubnodes, second
<1> QED
  BY <1>6, <1>8, <1>9 DEF again, m

\* An agent that had a valid model has one after the migration.
LEMMA OpenedKeepsModels ==
  ASSUME NEW d \in Definitions, stored' = d, nodes' = Migrated[d].nodes
  PROVE  ModelsSurvive'
<1> DEFINE ns == Opened(d)
           known == byIds(ns)
           first == updatedById(ns)
           had(a) ==
             {a.model} \cup
             (IF a.model = NoModel /\ "model" \in DOMAIN a.old
              THEN {normalizeAgentModelFromConfig(a.old["model"])} ELSE {}) \cup
             {toAgentModelFromLegacyModelNode(m) : m \in
                {x \in ns : isLegacyModelNode(x) /\ \E e \in ToSet(d.edges) :
                   e.source = x.id /\ e.target = a.id /\ e.targetHandle = "model"}}
<1>1. SUFFICES ASSUME NEW a \in ns, a.nodeType = "aiAgent",
                      NEW m \in had(a), isValidAgentModelConfig(m)
               PROVE  \E n \in Migrated[d].nodes : n.id = a.id /\ isValidAgentModelConfig(n.model)
  BY DEF ModelsSurvive, Opened
<1>2. /\ \A x \in ns : IsNode(x) /\ known[x.id] = x /\ x.id \in Ids(ns)
      /\ DOMAIN known = Ids(ns)
      /\ d.edges \in Seq(ToSet(d.edges))
      /\ \A e \in ToSet(d.edges) : {e.source, e.target} \subseteq Ids(ns)
  BY OpenedNodes
<1>3. Migrated[d] = migrateAgentSubnodes(ns, d.edges)
  BY DEF Migrated, Opened
<1>4. SUFFICES
        \/ isValidAgentModelConfig(first[a.id].model)
        \/ \E e \in ToSet(d.edges) :
             /\ e.target = a.id /\ brings(e, known)
             /\ isValidAgentModelConfig(toAgentModelFromLegacyModelNode(known[e.source]))
  <2> HIDE DEF ns
  <2> QED
    BY <1>1, <1>2, <1>3, MigrationOf
<1>5. first[a.id] = MigratedAgent(a)
  BY <1>1, <1>2 DEF updatedById
<1>6. ASSUME m = a.model \/ (/\ a.model = NoModel /\ "model" \in DOMAIN a.old
                             /\ m = normalizeAgentModelFromConfig(a.old["model"]))
      PROVE  isValidAgentModelConfig(first[a.id].model)
  <2>1. first[a.id].model = IF "model" \in MigratedParts(a)
                            THEN normalizeAgentModelFromConfig(a.old.model) ELSE a.model
    <3>1. DOMAIN a = NodeFields
      BY <1>1, <1>2 DEF IsNode
    <3> HIDE DEF first, ns
    <3> QED
      BY <1>5, <3>1, MigratedModel
  <2>2. m # NoModel
    BY <1>1, ValidIsModel
  <2>3. "model" \in MigratedParts(a) <=> "model" \in DOMAIN a.old /\ a.model = NoModel
    BY DEF MigratedParts
  <2> HIDE DEF first
  <2> QED
    BY <1>1, <1>6, <2>1, <2>2, <2>3
<1>7. ASSUME NEW x \in ns, isLegacyModelNode(x), NEW e \in ToSet(d.edges),
             e.source = x.id, e.target = a.id, e.targetHandle = "model",
             m = toAgentModelFromLegacyModelNode(x)
      PROVE  /\ e.target = a.id /\ brings(e, known)
             /\ isValidAgentModelConfig(toAgentModelFromLegacyModelNode(known[e.source]))
  <2> HIDE DEF ns, known
  <2> QED
    BY <1>1, <1>2, <1>7 DEF brings
<1> HIDE DEF known, first, ns
<1> QED
  BY <1>1, <1>6, <1>7

\* A flow that was opened and not touched is one the new agent nodes can run: opening
\* it again migrates nothing, and no agent lost a valid model, for any stored flows
\* (hydrateFromDefinition, migrate-agent-subnodes.ts).
THEOREM OpenedIsMigratedAlways == CanvasSpec => []OpenedIsMigrated
<1>1. CanvasInit => OpenedIsMigrated
  <2> SUFFICES ASSUME CanvasInit PROVE OpenedIsMigrated
    OBVIOUS
  <2>1. nodes = {} /\ edges = <<>> /\ stored.nodes = {}
    BY DEF CanvasInit
  <2>2. {normalizeNode(n) : n \in nodes} = {} /\ ToSet(edges) = {}
    BY <2>1 DEF ToSet
  <2>3. ~migrateAgentSubnodes({}, edges).didMigrate
    BY <2>2 DEF migrateAgentSubnodes
  <2> QED
    BY <2>1, <2>2, <2>3 DEF OpenedIsMigrated, MigrationIsFinal, ModelsSurvive
<1>2. OpenedIsMigrated /\ [CanvasNext]_canvasVars => OpenedIsMigrated'
  <2> SUFFICES ASSUME OpenedIsMigrated, [CanvasNext]_canvasVars PROVE OpenedIsMigrated'
    OBVIOUS
  <2>1. CASE setFlowId
    <3>1. PICK d \in Definitions : hydrateFromDefinition(d)
      BY <2>1 DEF setFlowId
    <3>2. nodes' = Migrated[d].nodes /\ edges' = Migrated[d].edges /\ stored' = d
      BY <3>1 DEF hydrateFromDefinition
    <3>3. MigrationIsFinal'
      BY <3>2, OpenedIsFinal DEF MigrationIsFinal
    <3> QED
      BY <3>2, <3>3, OpenedKeepsModels DEF OpenedIsMigrated
  <2>2. ASSUME UNCHANGED <<nodes, edges, stored, touched>> PROVE OpenedIsMigrated'
    BY <2>2 DEF OpenedIsMigrated, MigrationIsFinal, ModelsSurvive
  <2>3. ASSUME touched' = TRUE PROVE OpenedIsMigrated'
    BY <2>3 DEF OpenedIsMigrated
  <2>4. CASE selecting \/ onPaneClick \/ onOpenTab \/ \E id \in notes : selectNote(id)
    BY <2>2, <2>4 DEF selecting, onPaneClick, onOpenTab, selectNote, Changed
  <2>5. CASE NodePalette \/ onDrop \/ useFlowNode \/ connecting
    BY <2>3, <2>5 DEF NodePalette, onDrop, useFlowNode, connecting, addNode, addNote, NodePicker,
       addConnectedNode, onConnect, Edited
  <2>6. CASE useInspector \/ \E n \in nodes : updateTools(n)
    BY <2>3, <2>6 DEF useInspector, updateTools, InspectorFooter, duplicateNode, deleteNode,
       updateNodeConfig, updateNodeData, Edited
  <2>7. CASE deleteKey \/ \E id \in edgeIds : deleteEdge(id)
    BY <2>3, <2>7 DEF deleteKey, deleteEdge, Edited
  <2>8. CASE \E id \in notes : duplicateNote(id) \/ deleteNote(id) \/ updateNote(id)
    BY <2>3, <2>8 DEF duplicateNote, addNote, deleteNote, updateNote, Edited
  <2>9. CASE UNCHANGED canvasVars
    BY <2>2, <2>9 DEF canvasVars
  <2> QED
    BY <2>1, <2>4, <2>5, <2>6, <2>7, <2>8, <2>9 DEF CanvasNext, StickyNotesLayer
<1> QED
  BY <1>1, <1>2, PTL DEF CanvasSpec
==============================================================================
