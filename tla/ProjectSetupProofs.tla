------------------------- MODULE ProjectSetupProofs -------------------------
EXTENDS ProjectSetup, TLAPS

LEMMA SmallRemainder ==
    ASSUME NEW a \in Nat, NEW b \in Nat, a < b
    PROVE  a % b = a
  OBVIOUS

LEMMA RemainderType ==
    ASSUME NEW a \in Int, NEW b \in Nat \ {0}
    PROVE  a % b \in Int
  OBVIOUS

LEMMA ProductType ==
    ASSUME NEW n \in Int, NEW unit \in Int
    PROVE  n * unit \in Int
  OBVIOUS

LEMMA ProductSign ==
    ASSUME NEW n \in Int, NEW unit \in Nat \ {0}
    PROVE  (n > 0 => n * unit > 0) /\ (n <= 0 => n * unit <= 0)
  OBVIOUS

LEMMA TimesType ==
    ASSUME NEW n \in Int, NEW unit \in Nat
    PROVE  Times(n, unit) \in Int
<1> DEFINE x == n * unit + Half
           m == x % (2 * Half)
<1>1. n * unit \in Int  BY ProductType
<1>2. Half \in Nat \ {0}  BY SettingsAssumption
<1>3. x \in Int  BY <1>1, <1>2
<1>4. 2 * Half \in Nat \ {0}  BY <1>2
<1>5. m \in Int
  <2> HIDE DEF x
  <2> QED  BY <1>3, <1>4, RemainderType
<1>6. Times(n, unit) = m - Half  BY DEF Times
<1> HIDE DEF m
<1> QED  BY <1>2, <1>5, <1>6

LEMMA TimesFits ==
    ASSUME NEW n \in Int, NEW unit \in Nat, Fits(n, unit)
    PROVE  Times(n, unit) = n * unit
<1> DEFINE y == n * unit
           x == y + Half
<1>1. y \in Int  BY ProductType
<1>2. Half \in Nat \ {0}  BY SettingsAssumption
<1>3. y < Half /\ y >= - Half  BY DEF Fits
<1>4. Times(n, unit) = (x % (2 * Half)) - Half  BY DEF Times
<1> HIDE DEF y
<1>5. x \in Nat /\ 2 * Half \in Nat /\ x < 2 * Half  BY <1>1, <1>2, <1>3
<1>6. x % (2 * Half) = x
  <2> HIDE DEF x
  <2> QED  BY <1>5, SmallRemainder
<1>7. x - Half = y  BY <1>1, <1>2
<1> HIDE DEF x
<1>8. Times(n, unit) = y  BY <1>4, <1>6, <1>7
<1> QED  BY <1>8 DEF y

-----------------------------------------------------------------------------

LEMMA BodiesType ==
    /\ Nothing \in Bodies
    /\ \A j \in Job : j.body \in Bodies
    /\ \A b \in Body : b \in Bodies /\ b # Nothing
    /\ \A b \in Bodies : DOMAIN b \subseteq Key /\ \A k \in DOMAIN b : b[k] \in Text
    /\ \A b \in Bodies : b # Nothing => \E k \in Key : k \in DOMAIN b
<1>1. Nothing \in Bodies
  <2>1. Nothing \in [{} -> Text]  BY DEF Nothing
  <2>2. {} \in SUBSET Key  OBVIOUS
  <2> QED  BY <2>1, <2>2 DEF Bodies
<1>2. \A j \in Job : j.body \in Bodies
  BY SetupAssumption DEF Bodies
<1>3. ASSUME NEW b \in Body  PROVE b \in Bodies /\ b # Nothing
  <2>1. PICK K \in (SUBSET Key) \ {{}} : b \in [K -> Text]
    BY <1>3, SetupAssumption
  <2>2. b \in Bodies  BY <2>1 DEF Bodies
  <2>3. DOMAIN b # {}  BY <2>1
  <2>4. DOMAIN Nothing = {}  BY DEF Nothing
  <2> QED  BY <2>2, <2>3, <2>4
<1>4. ASSUME NEW b \in Bodies
      PROVE  DOMAIN b \subseteq Key /\ \A k \in DOMAIN b : b[k] \in Text
  BY <1>4 DEF Bodies
<1>5. ASSUME NEW b \in Bodies, b # Nothing
      PROVE  \E k \in Key : k \in DOMAIN b
  <2>1. PICK K \in SUBSET Key : b \in [K -> Text]  BY <1>5 DEF Bodies
  <2>2. CASE K = {}
    <3>1. b = [k \in {} |-> b[k]]  BY <2>1, <2>2
    <3>2. b = Nothing  BY <3>1 DEF Nothing
    <3> QED  BY <3>2, <1>5
  <2> QED  BY <2>1, <2>2
<1> QED  BY <1>1, <1>2, <1>3, <1>4, <1>5

LEMMA OverType ==
    ASSUME NEW t \in Table, NEW b \in Bodies
    PROVE  /\ Over(t, b) \in Table
           /\ \A k \in Key : Over(t, b)[k] = IF k \in DOMAIN b THEN b[k] ELSE t[k]
  BY BodiesType DEF Over, Table

LEMMA WithoutType ==
    ASSUME NEW b \in Bodies, NEW k
    PROVE  /\ Without(b, k) \in Bodies
           /\ DOMAIN Without(b, k) = DOMAIN b \ {k}
           /\ \A x \in DOMAIN b \ {k} : Without(b, k)[x] = b[x]
<1>1. DOMAIN b \ {k} \in SUBSET Key  BY BodiesType
<1>2. Without(b, k) \in [DOMAIN b \ {k} -> Text]  BY BodiesType DEF Without
<1>3. Without(b, k) \in Bodies  BY <1>1, <1>2 DEF Bodies
<1> QED  BY <1>3 DEF Without

LEMMA BlankType == Blank \in Table /\ \A k \in Key : Blank[k] = Unset
  BY DEF Blank, Table

LEMMA NothingIsEmpty == DOMAIN Nothing = {}
  BY DEF Nothing

LEMMA JobType ==
    ASSUME NEW j \in Job
    PROVE  /\ j.op \in {"init", "serve", "start", "set", "daemon"}
           /\ j.dir \in Dir /\ j.name \in Name /\ j.flags \in Flag
           /\ j.body \in Bodies
           /\ j.list \in Seq(Entry)
  BY SetupAssumption, BodiesType

LEMMA NoJobType ==
    /\ NoJob.op = "none"
    /\ NoJob.list = <<>>
  BY DEF NoJob

LEMMA NoneIsNone ==
    None \notin Dir /\ None \notin Call /\ None \notin Proc /\ None \notin Name
  BY SetupAssumption

LEMMA EffectiveType ==
    ASSUME NEW f \in Flag, NEW t \in Table
    PROVE  Effective(f, t) \in Settled
<1> DEFINE a == FromFlags(f)
           b == Overlay(a, t)
           c == WithDefaults(b)
<1>1. f.max \in Int /\ f.poll \in Int /\ f.dry \in BOOLEAN  BY DEF Flag
<1>2. /\ Second \in Nat /\ Minute \in Nat /\ Empty \in Text
      /\ \A v \in DOMAIN Atoi : Atoi[v] \in Int
  BY SettingsAssumption
<1>3. \A k \in Key : t[k] \in Text \union {Unset}  BY DEF Table
<1>4. a \in Settled
  <2>1. f.poll > 0 => Times(f.poll, Second) \in Int  BY <1>1, <1>2, TimesType
  <2> QED  BY <1>1, <1>2, <2>1 DEF FromFlags, Settled
<1>5. b \in Settled
  <2>1. \A k \in Key : IsNumber(t[k]) =>
          /\ Atoi[t[k]] \in Int
          /\ Times(Atoi[t[k]], Second) \in Int
          /\ Times(Atoi[t[k]], Minute) \in Int
    BY <1>2, TimesType DEF IsNumber
  <2>2. {"max-parallelism", "poll-interval-sec", "claude-binary",
         "worker-timeout-min", "dry-run"} \subseteq Key  BY DEF Key
  <2>3. b = [max     |-> IF IsNumber(t["max-parallelism"])
                         THEN Atoi[t["max-parallelism"]] ELSE a.max,
             poll    |-> IF IsNumber(t["poll-interval-sec"])
                         THEN Times(Atoi[t["poll-interval-sec"]], Second)
                         ELSE a.poll,
             timeout |-> IF IsNumber(t["worker-timeout-min"])
                         THEN Times(Atoi[t["worker-timeout-min"]], Minute)
                         ELSE a.timeout,
             binary  |-> IF t["claude-binary"] # Unset
                         THEN t["claude-binary"] ELSE a.binary,
             dry     |-> IF t["dry-run"] # Unset
                         THEN t["dry-run"] \in True ELSE a.dry]
    BY DEF Overlay
  <2> HIDE DEF a, b
  <2>4. /\ a.max \in Int /\ a.poll \in Int /\ a.timeout \in Int
        /\ a.binary \in Text \union {Unset} /\ a.dry \in BOOLEAN
    BY <1>4 DEF Settled
  <2>5. b.max \in Int /\ b.poll \in Int /\ b.timeout \in Int
    BY <2>1, <2>2, <2>3, <2>4
  <2>6. b.binary \in Text \union {Unset}  BY <1>3, <2>2, <2>3, <2>4
  <2>7. b.dry \in BOOLEAN
    <3>1. b.dry = IF t["dry-run"] # Unset THEN t["dry-run"] \in True ELSE a.dry
      BY <2>3
    <3>2. CASE t["dry-run"] # Unset
      <4>1. b.dry = (t["dry-run"] \in True)  BY <3>1, <3>2
      <4>2. (t["dry-run"] \in True) \in BOOLEAN  OBVIOUS
      <4> QED  BY <4>1, <4>2
    <3>3. CASE t["dry-run"] = Unset  BY <3>1, <3>3, <2>4
    <3> QED  BY <3>2, <3>3
  <2> QED  BY <2>3, <2>5, <2>6, <2>7 DEF Settled
<1>6. c \in Settled
  <2>1. 5 * Second \in Int /\ 60 * Minute \in Int  BY <1>2
  <2> HIDE DEF b
  <2>2. /\ b.max \in Int /\ b.poll \in Int /\ b.timeout \in Int
        /\ b.binary \in Text \union {Unset} /\ b.dry \in BOOLEAN
    BY <1>5 DEF Settled
  <2> DEFINE m == IF b.max <= 0 THEN 1 ELSE b.max
             i == IF b.poll <= 0 THEN 5 * Second ELSE b.poll
             o == IF b.timeout <= 0 THEN 60 * Minute ELSE b.timeout
             y == IF b.binary = Empty THEN Unset ELSE b.binary
  <2>3. /\ m \in Int /\ i \in Int /\ o \in Int /\ y \in Text \union {Unset}
    BY <2>1, <2>2
  <2>4. c = [b EXCEPT !.max = m, !.poll = i, !.timeout = o, !.binary = y]
    BY DEF WithDefaults
  <2> HIDE DEF c, m, i, o, y
  <2> QED  BY <1>5, <2>3, <2>4 DEF Settled
<1>7. FlagsAgain(c, f) \in Settled
  <2> HIDE DEF c
  <2> QED  BY <1>1, <1>6 DEF FlagsAgain, Settled
<1> QED  BY <1>7 DEF Effective

\* What the settings owe, where a table and what was told agree.
LEMMA EffectiveHonours ==
    ASSUME NEW f \in Flag, NEW t \in Table, NEW u \in Table, NEW sure \in SUBSET Key,
           \A k \in sure : t[k] = u[k]
    PROVE  Honours(Effective(f, t), f, u, sure)
<1> DEFINE a == FromFlags(f)
           b == Overlay(a, t)
           c == WithDefaults(b)
           s == Effective(f, t)
<1>1. f.max \in Int /\ f.poll \in Int /\ f.dry \in BOOLEAN  BY DEF Flag
<1>2. /\ Second \in Nat \ {0} /\ Minute \in Nat \ {0} /\ Empty \in Text \ DOMAIN Atoi
      /\ Unset \notin Text
      /\ DOMAIN Atoi \subseteq Text
      /\ \A v \in DOMAIN Atoi : Atoi[v] \in Int
  BY SettingsAssumption
<1>3. s = FlagsAgain(c, f)  BY DEF Effective
<1>4. s \in Settled  BY EffectiveType
<1>5. /\ s.max = IF f.max > 0 THEN f.max ELSE c.max
      /\ s.dry = (c.dry \/ f.dry)
      /\ s.poll = c.poll /\ s.timeout = c.timeout /\ s.binary = c.binary
  BY <1>3 DEF FlagsAgain, WithDefaults, Overlay, FromFlags
<1>6. /\ c.max = IF b.max <= 0 THEN 1 ELSE b.max
      /\ c.poll = IF b.poll <= 0 THEN 5 * Second ELSE b.poll
      /\ c.timeout = IF b.timeout <= 0 THEN 60 * Minute ELSE b.timeout
      /\ c.binary = IF b.binary = Empty THEN Unset ELSE b.binary
      /\ c.dry = b.dry
  BY DEF WithDefaults, Overlay, FromFlags
<1>7. /\ b.max = IF IsNumber(t["max-parallelism"])
                 THEN Atoi[t["max-parallelism"]] ELSE a.max
      /\ b.poll = IF IsNumber(t["poll-interval-sec"])
                  THEN Times(Atoi[t["poll-interval-sec"]], Second) ELSE a.poll
      /\ b.timeout = IF IsNumber(t["worker-timeout-min"])
                     THEN Times(Atoi[t["worker-timeout-min"]], Minute) ELSE 0
      /\ b.binary = IF t["claude-binary"] # Unset THEN t["claude-binary"] ELSE Empty
      /\ b.dry = IF t["dry-run"] # Unset THEN t["dry-run"] \in True ELSE f.dry
  BY DEF Overlay, FromFlags
<1>8. /\ a.max = IF f.max > 0 THEN f.max ELSE 0
      /\ a.poll = IF f.poll > 0 THEN Times(f.poll, Second) ELSE 0
  BY DEF FromFlags
<1>9. \A v : IsNumber(v) => Atoi[v] \in Int  BY <1>2 DEF IsNumber
<1>10. /\ s.max \in Int /\ s.poll \in Int /\ s.timeout \in Int
  BY <1>4 DEF Settled
<1> HIDE DEF a, b, c, s
<1>11. s.max > 0
  BY <1>1, <1>5, <1>6, <1>7, <1>8, <1>9, <1>10
<1>12. s.poll > 0
  <2>1. CASE b.poll <= 0  BY <2>1, <1>2, <1>5, <1>6
  <2>2. CASE ~ (b.poll <= 0)  BY <2>2, <1>5, <1>6, <1>10
  <2> QED  BY <2>1, <2>2
<1>13. s.timeout > 0
  <2>1. CASE b.timeout <= 0  BY <2>1, <1>2, <1>5, <1>6
  <2>2. CASE ~ (b.timeout <= 0)  BY <2>2, <1>5, <1>6, <1>10
  <2> QED  BY <2>1, <2>2
<1>14. s.binary # Empty
  BY <1>2, <1>5, <1>6
<1>15. f.max > 0 => s.max = f.max  BY <1>5
<1>16. f.max <= 0 /\ "max-parallelism" \in sure =>
          LET v == u["max-parallelism"] IN
          s.max = IF IsNumber(v) THEN Units(Atoi[v], 1, 1) ELSE 1
  <2> SUFFICES ASSUME f.max <= 0, "max-parallelism" \in sure
               PROVE  LET v == u["max-parallelism"] IN
                      s.max = IF IsNumber(v) THEN Units(Atoi[v], 1, 1) ELSE 1
    OBVIOUS
  <2> DEFINE v == u["max-parallelism"]
  <2>1. t["max-parallelism"] = v  OBVIOUS
  <2>2. s.max = c.max /\ a.max = 0  BY <1>1, <1>5, <1>8
  <2> HIDE DEF v
  <2>3. CASE IsNumber(v)
    <3>1. s.max = IF Atoi[v] <= 0 THEN 1 ELSE Atoi[v]
      BY <2>1, <2>2, <2>3, <1>6, <1>7
    <3>2. s.max = Units(Atoi[v], 1, 1)  BY <3>1, <2>3, <1>9 DEF Units
    <3> QED  BY <3>2, <2>3 DEF v
  <2>4. CASE ~ IsNumber(v)
    <3>1. s.max = 1  BY <2>1, <2>2, <2>4, <1>6, <1>7
    <3> QED  BY <3>1, <2>4 DEF v
  <2> QED  BY <2>3, <2>4
<1>17. "poll-interval-sec" \in sure =>
          LET asked == Intervals(f, u["poll-interval-sec"]) IN
          (\A n \in asked : Fits(n, Second)) =>
              s.poll \in {Units(n, Second, 5 * Second) : n \in asked}
  <2> DEFINE v == u["poll-interval-sec"]
             asked == Intervals(f, v)
  <2> SUFFICES ASSUME "poll-interval-sec" \in sure, \A n \in asked : Fits(n, Second)
               PROVE  s.poll \in {Units(n, Second, 5 * Second) : n \in asked}
    OBVIOUS
  <2>1. t["poll-interval-sec"] = v  OBVIOUS
  <2> HIDE DEF v
  <2>2. /\ IsNumber(v) => Atoi[v] \in asked /\ Atoi[v] \in Int
        /\ ~ IsNumber(v) /\ f.poll > 0 => f.poll \in asked
        /\ ~ IsNumber(v) /\ f.poll <= 0 => 0 \in asked
    BY <1>1, <1>9 DEF Intervals, IsNumber
  <2>3. s.poll = IF b.poll <= 0 THEN 5 * Second ELSE b.poll  BY <1>5, <1>6
  <2> HIDE DEF asked
  <2>4. ASSUME NEW n \in Int, n \in asked, b.poll = Times(n, Second)
        PROVE  s.poll = Units(n, Second, 5 * Second)
    <3>1. b.poll = n * Second  BY <2>4, <1>2, TimesFits
    <3>2. n > 0 => n * Second > 0  BY <2>4, <1>2, ProductSign
    <3>3. n <= 0 => n * Second <= 0  BY <2>4, <1>2, ProductSign
    <3>4. n * Second \in Int  BY <2>4, <1>2, ProductType
    <3>5. CASE n > 0  BY <3>1, <3>2, <3>4, <3>5, <2>3 DEF Units
    <3>6. CASE ~ (n > 0)  BY <3>1, <3>3, <3>4, <3>6, <2>3, <2>4 DEF Units
    <3> QED  BY <3>5, <3>6
  <2>5. CASE IsNumber(v)
    <3>1. b.poll = Times(Atoi[v], Second)  BY <2>1, <2>5, <1>7
    <3>2. s.poll = Units(Atoi[v], Second, 5 * Second)  BY <2>2, <2>4, <2>5, <3>1
    <3> QED  BY <2>2, <2>5, <3>2
  <2>6. CASE ~ IsNumber(v) /\ f.poll > 0
    <3>1. b.poll = Times(f.poll, Second)  BY <2>1, <2>6, <1>7, <1>8
    <3>2. s.poll = Units(f.poll, Second, 5 * Second)
      BY <1>1, <2>2, <2>4, <2>6, <3>1
    <3> QED  BY <2>2, <2>6, <3>2
  <2>7. CASE ~ IsNumber(v) /\ ~ (f.poll > 0)
    <3>1. b.poll = 0  BY <2>1, <2>7, <1>7, <1>8
    <3>2. s.poll = Units(0, Second, 5 * Second)  BY <2>3, <3>1 DEF Units
    <3>3. 0 \in asked  BY <1>1, <2>2, <2>7
    <3> QED  BY <3>2, <3>3
  <2> QED  BY <2>5, <2>6, <2>7
<1>18. "worker-timeout-min" \in sure =>
          LET v == u["worker-timeout-min"]
              n == IF IsNumber(v) THEN Atoi[v] ELSE 0 IN
          Fits(n, Minute) => s.timeout = Units(n, Minute, 60 * Minute)
  <2> SUFFICES ASSUME "worker-timeout-min" \in sure
               PROVE  LET v == u["worker-timeout-min"]
                          n == IF IsNumber(v) THEN Atoi[v] ELSE 0 IN
                      Fits(n, Minute) => s.timeout = Units(n, Minute, 60 * Minute)
    OBVIOUS
  <2> DEFINE v == u["worker-timeout-min"]
             n == IF IsNumber(v) THEN Atoi[v] ELSE 0
  <2>1. t["worker-timeout-min"] = v  OBVIOUS
  <2>2. n \in Int  BY <1>9
  <2>3. ASSUME Fits(n, Minute)  PROVE  s.timeout = Units(n, Minute, 60 * Minute)
    <3>1. Times(n, Minute) = n * Minute  BY <2>2, <2>3, <1>2, TimesFits
    <3>2. b.timeout = n * Minute \/ (n <= 0 /\ b.timeout = 0)
      <4>1. CASE IsNumber(v)  BY <4>1, <3>1, <2>1, <1>7
      <4>2. CASE ~ IsNumber(v)  BY <4>2, <2>1, <1>7
      <4> QED  BY <4>1, <4>2
    <3> HIDE DEF n
    <3>3. n > 0 => n * Minute > 0  BY <2>2, <1>2, ProductSign
    <3>4. n <= 0 => n * Minute <= 0  BY <2>2, <1>2, ProductSign
    <3>5. n * Minute \in Int  BY <2>2, <1>2, ProductType
    <3>6. s.timeout = IF b.timeout <= 0 THEN 60 * Minute ELSE b.timeout
      BY <1>5, <1>6
    <3>7. CASE n > 0
      <4>1. b.timeout = n * Minute  BY <3>2, <3>7, <2>2
      <4>2. ~ (b.timeout <= 0)  BY <4>1, <3>3, <3>5, <3>7
      <4> QED  BY <4>1, <4>2, <3>6, <3>7 DEF Units
    <3>8. CASE ~ (n > 0)
      <4>1. b.timeout <= 0  BY <3>2, <3>4, <3>8, <2>2
      <4> QED  BY <4>1, <3>6, <3>8 DEF Units
    <3> QED  BY <3>7, <3>8
  <2> QED  BY <2>3
<1>19. "claude-binary" \in sure =>
          s.binary = IF u["claude-binary"] = Empty THEN Unset
                     ELSE u["claude-binary"]
  BY <1>2, <1>5, <1>6, <1>7
<1>20. f.dry => s.dry  BY <1>5
<1>21. ~ f.dry /\ "dry-run" \in sure => s.dry = (u["dry-run"] \in True)
  <2> SUFFICES ASSUME ~ f.dry, "dry-run" \in sure
               PROVE  s.dry = (u["dry-run"] \in True)
    OBVIOUS
  <2>1. t["dry-run"] = u["dry-run"]  OBVIOUS
  <2>2. Unset \notin True  BY SettingsAssumption
  <2>3. s.dry = (b.dry \/ f.dry)  BY <1>5, <1>6
  <2>4. CASE t["dry-run"] = Unset
    <3>1. s.dry = (f.dry \/ f.dry)  BY <2>3, <2>4, <1>7
    <3> QED  BY <3>1, <2>1, <2>2, <2>4, <1>1
  <2>5. CASE t["dry-run"] # Unset
    <3>1. s.dry = ((t["dry-run"] \in True) \/ f.dry)  BY <2>3, <2>5, <1>7
    <3> QED  BY <3>1, <2>1, <1>1
  <2> QED  BY <2>4, <2>5
<1>22. Honours(s, f, u, sure)
  BY <1>11, <1>12, <1>13, <1>14, <1>15, <1>16, <1>17, <1>18, <1>19, <1>20, <1>21
  DEF Honours
<1> QED  BY <1>22 DEF s

-----------------------------------------------------------------------------
(* Types.                                                                   *)

ProcType ==
    /\ pc \in [Proc -> Step]
    /\ job \in [Proc -> Job \union {NoJob}]
    /\ at \in [Proc -> Dir \union {None}]
    /\ order \in [Proc -> Seq(STRING)]
    /\ DOMAIN handles = Proc
    /\ open \in [Proc -> SUBSET (STRING \X Dir)]
    /\ settings \in [Proc -> Settled]

CallType ==
    /\ host \in [Call -> Proc \union {None}]
    /\ left \in [Call -> Bodies]

TableType ==
    /\ conf \in [Dir -> Table]
    /\ told \in [Dir -> Table]
    /\ doubt \in [Dir -> SUBSET Key]

DiskType ==
    /\ file \in [Dir -> {"absent", "empty", "whole"}]
    /\ has \in [Dir -> SUBSET Schema]
    /\ rows \in [Dir -> SUBSET Name]

HistoryType ==
    /\ made \in [Dir -> Name \union {None}]
    /\ raced \in [Dir -> BOOLEAN]
    /\ kept \in [Dir -> BOOLEAN]

SpentType == spent \in [Event -> Nat]

LEMMA TypesApart ==
    TypeOK <=> /\ ProcType /\ CallType /\ TableType
               /\ DiskType /\ HistoryType /\ SpentType
  BY DEF TypeOK, ProcType, CallType, TableType, DiskType, HistoryType, SpentType

LEMMA TypesApartNext ==
    TypeOK' <=> /\ ProcType' /\ CallType' /\ TableType'
                /\ DiskType' /\ HistoryType' /\ SpentType'
  BY DEF TypeOK, ProcType, CallType, TableType, DiskType, HistoryType, SpentType

LEMMA NoSettingsType == NoSettings \in Settled
  BY SettingsAssumption DEF NoSettings, Settled

LEMMA SpendType ==
    ASSUME TypeOK, NEW e \in Event, Spend(e)
    PROVE  SpentType'
  BY DEF TypeOK, Spend, SpentType

LEMMA OwedType ==
    ASSUME TypeOK, NEW p \in Proc
    PROVE  Owed(p) \subseteq Key
  BY BodiesType DEF TypeOK, Owed, HandledBy

LEMMA GoneType ==
    ASSUME TypeOK, NEW p \in Proc, Gone(p)
    PROVE  ProcType' /\ CallType' /\ TableType'
<1>1. ProcType'
  BY NoSettingsType DEF TypeOK, Gone, Goes, ProcType, Step
<1>2. CallType'
  <2>1. host' \in [Call -> Proc \union {None}]  BY DEF TypeOK, Gone
  <2>2. left' \in [Call -> Bodies]  BY BodiesType DEF TypeOK, Gone
  <2> QED  BY <2>1, <2>2 DEF CallType
<1>3. TableType'
  <2>1. doubt' \in [Dir -> SUBSET Key]  BY OwedType DEF TypeOK, Gone
  <2> QED  BY <2>1 DEF TypeOK, Gone, TableType
<1> QED  BY <1>1, <1>2, <1>3

LEMMA LeftOpenType ==
    ASSUME NEW p \in Proc
    PROVE  LeftOpen(p) \subseteq open[p]
  BY DEF LeftOpen

LEMMA RegistryFailsType ==
    ASSUME TypeOK, NEW p \in Proc, RegistryFails(p)
    PROVE  ProcType' /\ CallType' /\ TableType'
<1>1. CallType' /\ TableType'
  BY DEF TypeOK, RegistryFails, CallType, TableType, callVars, tableVars
<1>2. open' \in [Proc -> SUBSET (STRING \X Dir)]
  BY LeftOpenType DEF TypeOK, RegistryFails
<1>3. pc' \in [Proc -> Step]
  BY DEF TypeOK, RegistryFails, Goes, Step
<1> QED  BY <1>1, <1>2, <1>3 DEF TypeOK, RegistryFails, ProcType

LEMMA GivesUpType ==
    ASSUME TypeOK, NEW p \in Proc, GivesUp(p)
    PROVE  ProcType' /\ CallType' /\ TableType'
  BY GoneType, RegistryFailsType DEF GivesUp

\* An entry and its name.
LEMMA EntriesType ==
    ASSUME TypeOK, NEW p \in Proc, job[p].op = "daemon"
    PROVE  /\ Entries(p) \in Seq(Entry)
           /\ Len(Entries(p)) = Len(job[p].list)
           /\ DOMAIN Entries(p) = 1 .. Len(Entries(p))
<1>1. job[p] \in Job  BY NoJobType DEF TypeOK
<1>2. job[p].list \in Seq(Entry)  BY <1>1, JobType
<1> DEFINE l == job[p].list
<1>3. \A e \in Entry : Named(e) \in Entry
  BY SetupAssumption DEF Named, Entry
<1>4. Entries(p) = [i \in 1 .. Len(l) |-> Named(l[i])]  BY <1>2 DEF Entries
<1>5. \A i \in 1 .. Len(l) : Named(l[i]) \in Entry  BY <1>2, <1>3
<1>6. Len(l) \in Nat  BY <1>2
<1> HIDE DEF l
<1>7. Entries(p) \in [1 .. Len(l) -> Entry]  BY <1>4, <1>5
<1>8. Entries(p) \in Seq(Entry)  BY <1>6, <1>7
<1>9. Len(Entries(p)) = Len(l)  BY <1>4, <1>6
<1> QED  BY <1>7, <1>8, <1>9 DEF l

\* The entry a registry is at.
LEMMA CurrentType ==
    ASSUME TypeOK, NEW p \in Proc, job[p].op = "daemon",
           Len(order[p]) < Len(Entries(p))
    PROVE  /\ Len(order[p]) \in Nat
           /\ Current(p) \in Entry
           /\ Current(p).slug \in STRING /\ Current(p).dir \in Dir
<1>1. Entries(p) \in Seq(Entry)  BY EntriesType
<1>2. Len(order[p]) \in Nat  BY DEF TypeOK
<1>3. Current(p) \in Entry  BY <1>1, <1>2 DEF Current
<1> QED  BY <1>2, <1>3 DEF Entry

-----------------------------------------------------------------------------

LEMMA LaunchTypes ==
    ASSUME TypeOK, NEW p \in Proc, NEW j \in Job, Launch(p, j)
    PROVE  TypeOK'
<1>1. j.dir \in Dir /\ j.op \in {"init", "serve", "start", "set", "daemon"}
  BY JobType
<1>2. SpentType'  BY SpendType DEF Launch, Event
<1>3. ProcType'
  BY <1>1 DEF TypeOK, ProcType, Launch, Goes, FirstStep, Step, regVars
<1>4. CallType' /\ TableType' /\ DiskType' /\ HistoryType'
  BY DEF TypeOK, CallType, TableType, DiskType, HistoryType, Launch, callVars,
         tableVars, diskVars, initVars
<1> QED  BY <1>2, <1>3, <1>4, TypesApartNext

LEMMA RegistryTypes ==
    ASSUME Consistent, NEW p \in Proc,
           \/ ListIsRead(p) \/ EntryIsFound(p) \/ EntryIsRegistered(p) \/ Leave(p)
    PROVE  TypeOK'
<1> USE DEF Consistent
<1>1. DiskType' /\ HistoryType' /\ SpentType'
  BY DEF TypeOK, DiskType, HistoryType, SpentType, ListIsRead, EntryIsFound,
         EntryIsRegistered, Leave, diskVars, initVars
<1>2. ASSUME UNCHANGED <<callVars, tableVars>>  PROVE CallType' /\ TableType'
  BY <1>2 DEF TypeOK, CallType, TableType, callVars, tableVars
<1>3. CASE ListIsRead(p)
  <2>1. CASE Gone(p)  BY <2>1, <1>1, GoneType, TypesApartNext
  <2>2. CASE ~ Gone(p)
    <3>1. ProcType'
      BY <1>3, <2>2 DEF ListIsRead, TypeOK, ProcType, Goes, Step, Registering,
                        regVars
    <3>2. UNCHANGED <<callVars, tableVars>>  BY <1>3, <2>2 DEF ListIsRead
    <3> QED  BY <1>1, <1>2, <3>1, <3>2, TypesApartNext
  <2> QED  BY <2>1, <2>2
<1>4. CASE EntryIsFound(p)
  <2>1. CASE RegistryFails(p)
    BY <2>1, <1>1, RegistryFailsType, TypesApartNext
  <2>2. CASE ~ RegistryFails(p)
    <3>1. job[p].op = "daemon" /\ Len(order[p]) < Len(Entries(p))
      BY <1>4 DEF EntryIsFound, StepsFit, RegistryGrows
    <3>2. Current(p).dir \in Dir  BY <3>1, CurrentType
    <3>3. ProcType'
      BY <1>4, <2>2, <3>2 DEF EntryIsFound, TypeOK, ProcType, Goes, Step,
                              Registering, regVars
    <3>4. UNCHANGED <<callVars, tableVars>>  BY <1>4, <2>2 DEF EntryIsFound
    <3> QED  BY <1>1, <1>2, <3>3, <3>4, TypesApartNext
  <2> QED  BY <2>1, <2>2
<1>5. CASE EntryIsRegistered(p)
  <2>1. CASE RegistryFails(p)
    BY <2>1, <1>1, RegistryFailsType, TypesApartNext
  <2>2. CASE ~ RegistryFails(p)
    <3>1. job[p].op = "daemon" /\ Len(order[p]) < Len(Entries(p))
      BY <1>5 DEF EntryIsRegistered, StepsFit, RegistryGrows
    <3>2. Current(p).slug \in STRING  BY <3>1, CurrentType
    <3>3. order' \in [Proc -> Seq(STRING)] /\ DOMAIN handles' = Proc
      <4>1. order' = [order EXCEPT ![p] = Append(order[p], Current(p).slug)]
        BY <1>5, <2>2 DEF EntryIsRegistered
      <4>2. order \in [Proc -> Seq(STRING)] /\ DOMAIN handles = Proc
        BY DEF TypeOK
      <4>3. Append(order[p], Current(p).slug) \in Seq(STRING)  BY <3>2, <4>2
      <4>4. DOMAIN handles' = DOMAIN handles
        BY <1>5, <2>2 DEF EntryIsRegistered
      <4> QED  BY <4>1, <4>2, <4>3, <4>4
    <3>4. ProcType'
      BY <1>5, <2>2, <3>3 DEF EntryIsRegistered, TypeOK, ProcType, Goes, Step,
                              Registering, Up
    <3>5. UNCHANGED <<callVars, tableVars>>  BY <1>5, <2>2 DEF EntryIsRegistered
    <3> QED  BY <1>1, <1>2, <3>4, <3>5, TypesApartNext
  <2> QED  BY <2>1, <2>2
<1>6. CASE Leave(p)
  BY <1>6, <1>1, GoneType, TypesApartNext DEF Leave
<1> QED  BY <1>3, <1>4, <1>5, <1>6

LEMMA FileTypes ==
    ASSUME Consistent, NEW p \in Proc,
           \/ Stat(p) \/ Truncate(p) \/ Write(p) \/ FindProjectRoot(p) \/ Load(p)
    PROVE  TypeOK'
<1> USE DEF Consistent
<1>1. SpentType'
  BY DEF TypeOK, SpentType, Stat, Truncate, Write, FindProjectRoot, Load
<1>2. ASSUME UNCHANGED <<callVars, tableVars>>  PROVE CallType' /\ TableType'
  BY <1>2 DEF TypeOK, CallType, TableType, callVars, tableVars
<1>3. CASE Stat(p)
  <2>1. DiskType'  BY <1>3 DEF Stat, TypeOK, DiskType, diskVars
  <2>2. HistoryType'  BY <1>3 DEF Stat, TypeOK, HistoryType
  <2>3. CASE Gone(p)  BY <2>1, <2>2, <2>3, <1>1, GoneType, TypesApartNext
  <2>4. CASE ~ Gone(p)
    <3>1. ProcType'
      BY <1>3, <2>4 DEF Stat, TypeOK, ProcType, Goes, Step, Past, regVars
    <3>2. UNCHANGED <<callVars, tableVars>>  BY <1>3, <2>4 DEF Stat
    <3> QED  BY <1>1, <1>2, <2>1, <2>2, <3>1, <3>2, TypesApartNext
  <2> QED  BY <2>3, <2>4
<1>4. CASE Truncate(p) \/ Write(p)
  <2>1. DiskType'  BY <1>4 DEF Truncate, Write, TypeOK, DiskType
  <2>2. HistoryType'
    BY <1>4 DEF Truncate, Write, TypeOK, HistoryType, initVars
  <2>3. ProcType'
    BY <1>4 DEF Truncate, Write, TypeOK, ProcType, Goes, Step, Past, regVars
  <2>4. UNCHANGED <<callVars, tableVars>>  BY <1>4 DEF Truncate, Write
  <2> QED  BY <1>1, <1>2, <2>1, <2>2, <2>3, <2>4, TypesApartNext
<1>5. CASE FindProjectRoot(p)
  <2>1. DiskType' /\ HistoryType'
    BY <1>5 DEF FindProjectRoot, TypeOK, DiskType, HistoryType, diskVars, initVars
  <2>2. CASE Gone(p)  BY <2>1, <2>2, <1>1, GoneType, TypesApartNext
  <2>3. CASE ~ Gone(p)
    <3>1. PICK r \in Dir :
            /\ at' = [at EXCEPT ![p] = r]
            /\ Goes(p, "load")
            /\ UNCHANGED <<tableVars, job, regVars, settings, callVars>>
      BY <1>5, <2>3 DEF FindProjectRoot
    <3>2. ProcType'
      BY <3>1 DEF TypeOK, ProcType, Goes, Step, Registering, regVars
    <3> QED  BY <1>1, <1>2, <2>1, <3>1, <3>2, TypesApartNext
  <2> QED  BY <2>2, <2>3
<1>6. CASE Load(p)
  <2>1. DiskType' /\ HistoryType'
    BY <1>6 DEF Load, TypeOK, DiskType, HistoryType, diskVars, initVars
  <2>2. CASE GivesUp(p)  BY <2>1, <2>2, <1>1, GivesUpType, TypesApartNext
  <2>3. CASE ~ GivesUp(p)
    <3>1. at[p] \in Dir  BY <1>6 DEF Load, StepsFit
    <3>2. open' \in [Proc -> SUBSET (STRING \X Dir)]
      <4>1. CASE job[p].op = "daemon"
        <5>1. Len(order[p]) < Len(Entries(p))
          BY <1>6, <4>1 DEF Load, RegistryGrows
        <5>2. Current(p).slug \in STRING  BY <4>1, <5>1, CurrentType
        <5>3. Connection(p) \in STRING \X Dir  BY <3>1, <5>2 DEF Connection
        <5>4. open' = [open EXCEPT ![p] = open[p] \union {Connection(p)}]
          BY <1>6, <2>3, <4>1 DEF Load
        <5>5. open \in [Proc -> SUBSET (STRING \X Dir)]  BY DEF TypeOK
        <5>6. open[p] \union {Connection(p)} \in SUBSET (STRING \X Dir)
          BY <5>3, <5>5
        <5> QED  BY <5>4, <5>5, <5>6
      <4>2. CASE job[p].op # "daemon"
        BY <1>6, <2>3, <4>2 DEF Load, TypeOK
      <4> QED  BY <4>1, <4>2
    <3>3. ProcType'
      BY <1>6, <2>3, <3>2 DEF Load, TypeOK, ProcType, Goes, Step, Past
    <3>4. UNCHANGED <<callVars, tableVars>>  BY <1>6, <2>3 DEF Load
    <3> QED  BY <1>1, <1>2, <2>1, <3>3, <3>4, TypesApartNext
  <2> QED  BY <2>2, <2>3
<1> QED  BY <1>3, <1>4, <1>5, <1>6

LEMMA OpenTypes ==
    ASSUME Consistent, NEW p \in Proc,
           \/ CreateTables(p) \/ CreateRest(p) \/ CreateProject(p) \/ Report(p)
           \/ Configure(p) \/ Stop(p) \/ Fails(p)
    PROVE  TypeOK'
<1> USE DEF Consistent
<1>2. ASSUME UNCHANGED <<callVars, tableVars>>  PROVE CallType' /\ TableType'
  BY <1>2 DEF TypeOK, CallType, TableType, callVars, tableVars
<1>3. CASE CreateTables(p)
  <2>1. at[p] \in Dir  BY <1>3 DEF CreateTables, StepsFit
  <2>2. DiskType'
    BY <1>3, <2>1 DEF CreateTables, TypeOK, DiskType, Schema
  <2>3. ProcType'
    BY <1>3 DEF CreateTables, TypeOK, ProcType, Goes, Step, Past, regVars
  <2>4. HistoryType' /\ SpentType' /\ UNCHANGED <<callVars, tableVars>>
    BY <1>3 DEF CreateTables, TypeOK, HistoryType, SpentType, initVars
  <2> QED  BY <1>2, <2>2, <2>3, <2>4, TypesApartNext
<1>4. CASE CreateRest(p)
  <2>1. at[p] \in Dir  BY <1>4 DEF CreateRest, StepsFit
  <2>2. DiskType'
    <3>1. has' = has \/ has' = [has EXCEPT ![at[p]] = @ \union {"rest", "persona"}]
      BY <1>4 DEF CreateRest
    <3>2. has \in [Dir -> SUBSET Schema] /\ {"rest", "persona"} \subseteq Schema
      BY DEF TypeOK, Schema
    <3>3. has[at[p]] \union {"rest", "persona"} \in SUBSET Schema
      BY <2>1, <3>2
    <3>4. has' \in [Dir -> SUBSET Schema]  BY <3>1, <3>2, <3>3
    <3> QED  BY <1>4, <3>4 DEF CreateRest, TypeOK, DiskType
  <2>3. HistoryType' /\ SpentType'
    BY <1>4 DEF CreateRest, TypeOK, HistoryType, SpentType, initVars
  <2>4. CASE GivesUp(p)  BY <2>2, <2>3, <2>4, GivesUpType, TypesApartNext
  <2>5. CASE ~ GivesUp(p)
    <3>1. ProcType'
      BY <1>4, <2>5 DEF CreateRest, TypeOK, ProcType, Goes, AfterOpen, Step, Past,
                        Registering, Up, regVars
    <3>2. UNCHANGED <<callVars, tableVars>>  BY <1>4, <2>5 DEF CreateRest
    <3> QED  BY <1>2, <2>2, <2>3, <3>1, <3>2, TypesApartNext
  <2> QED  BY <2>4, <2>5
<1>5. CASE CreateProject(p)
  <2>1. at[p] \in Dir  BY <1>5 DEF CreateProject, StepsFit
  <2>2. job[p].name \in Name
    <3>1. job[p].op = "init"  BY <1>5 DEF CreateProject, StepsFit
    <3>2. job[p] \in Job  BY <3>1, NoJobType DEF TypeOK
    <3> QED  BY <3>2, JobType
  <2>3. DiskType'
    <3>1. rows' = rows \/ rows' = [rows EXCEPT ![at[p]] = @ \union {job[p].name}]
      BY <1>5 DEF CreateProject
    <3>2. rows[at[p]] \union {job[p].name} \in SUBSET Name
      BY <2>1, <2>2 DEF TypeOK
    <3>3. rows' \in [Dir -> SUBSET Name]  BY <3>1, <3>2 DEF TypeOK
    <3> QED  BY <1>5, <3>3 DEF CreateProject, TypeOK, DiskType
  <2>4. HistoryType' /\ SpentType'
    BY <1>5 DEF CreateProject, TypeOK, HistoryType, SpentType, initVars
  <2>5. CASE Gone(p)  BY <2>3, <2>4, <2>5, GoneType, TypesApartNext
  <2>6. CASE ~ Gone(p)
    <3>1. ProcType'
      BY <1>5, <2>6 DEF CreateProject, TypeOK, ProcType, Goes, Step, Past, regVars
    <3>2. UNCHANGED <<callVars, tableVars>>  BY <1>5, <2>6 DEF CreateProject
    <3> QED  BY <1>2, <2>3, <2>4, <3>1, <3>2, TypesApartNext
  <2> QED  BY <2>5, <2>6
<1>6. CASE Report(p)
  <2>1. job[p].name \in Name
    <3>1. job[p].op = "init"  BY <1>6 DEF Report, StepsFit
    <3>2. job[p] \in Job  BY <3>1, NoJobType DEF TypeOK
    <3> QED  BY <3>2, JobType
  <2>2. DiskType' /\ HistoryType' /\ SpentType'
    BY <1>6, <2>1 DEF Report, TypeOK, DiskType, HistoryType, SpentType, diskVars
  <2> QED  BY <1>6, <2>2, GoneType, TypesApartNext DEF Report
<1>7. CASE Configure(p)
  <2>1. job[p].op \notin {"init", "daemon"} /\ at[p] \in Dir
    BY <1>7 DEF Configure, StepsFit
  <2>2. job[p] \in Job \/ job[p] = NoJob  BY DEF TypeOK
  <2>3. job[p].flags \in Flag
    <3>1. NoJob.flags \in Flag  BY DEF NoJob, Flag
    <3> QED  BY <2>2, <3>1, JobType
  <2>4. conf[at[p]] \in Table  BY <2>1 DEF TypeOK
  <2>5. Effective(job[p].flags, conf[at[p]]) \in Settled
    BY <2>3, <2>4, EffectiveType
  <2>6. settings' \in [Proc -> Settled]  BY <1>7, <2>5 DEF Configure, TypeOK
  <2>7. ProcType'
    BY <1>7, <2>6 DEF Configure, TypeOK, ProcType, Goes, Step, Up, regVars
  <2>8. DiskType' /\ HistoryType' /\ SpentType'
    BY <1>7 DEF Configure, TypeOK, DiskType, HistoryType, SpentType, diskVars,
                initVars
  <2>9. UNCHANGED <<callVars, tableVars>>  BY <1>7 DEF Configure
  <2> QED  BY <1>2, <2>7, <2>8, <2>9, TypesApartNext
<1>8. CASE Stop(p)
  <2>1. DiskType' /\ HistoryType' /\ SpentType'
    BY <1>8 DEF Stop, TypeOK, DiskType, HistoryType, SpentType, diskVars, initVars
  <2> QED  BY <1>8, <2>1, GoneType, TypesApartNext DEF Stop
<1>9. CASE Fails(p)
  <2>1. DiskType' /\ HistoryType'
    BY <1>9 DEF Fails, TypeOK, DiskType, HistoryType, diskVars, initVars
  <2>2. SpentType'  BY <1>9, SpendType DEF Fails, Event
  <2> QED  BY <1>9, <2>1, <2>2, GoneType, GivesUpType, TypesApartNext DEF Fails
<1> QED  BY <1>3, <1>4, <1>5, <1>6, <1>7, <1>8, <1>9

LEMMA IsToldType ==
    ASSUME TypeOK, NEW c, NEW d \in Dir, NEW b \in Bodies, IsTold(c, d, b)
    PROVE  told' \in [Dir -> Table] /\ doubt' \in [Dir -> SUBSET Key]
<1>1. DOMAIN b \subseteq Key  BY BodiesType
<1>2. Over(told[d], b) \in Table  BY OverType DEF TypeOK
<1> QED  BY <1>1, <1>2 DEF IsTold, TypeOK

LEMMA TableTypes ==
    ASSUME Consistent,
           \/ \E p \in Proc : ConfigSet(p)
           \/ \E c \in Call : \/ \E p \in Proc, b \in Body : Accept(c, p, b)
                              \/ Put(c) \/ PutFails(c)
    PROVE  TypeOK'
<1> USE DEF Consistent
<1>1. CASE \E p \in Proc : ConfigSet(p)
  <2>1. PICK p \in Proc : ConfigSet(p)  BY <1>1
  <2>2. at[p] \in Dir  BY <2>1 DEF ConfigSet, StepsFit
  <2>3. job[p].body \in Bodies
    BY JobType, BodiesType DEF TypeOK, NoJob
  <2>4. told' \in [Dir -> Table] /\ doubt' \in [Dir -> SUBSET Key]
    BY <2>1, <2>2, <2>3, IsToldType DEF ConfigSet
  <2>5. Over(conf[at[p]], job[p].body) \in Table
    BY <2>2, <2>3, OverType DEF TypeOK
  <2>6. TableType'
    BY <2>1, <2>4, <2>5 DEF ConfigSet, TypeOK, TableType
  <2>7. ProcType'
    BY <2>1 DEF ConfigSet, TypeOK, ProcType, Goes, Step, regVars
  <2>8. CallType' /\ DiskType' /\ HistoryType' /\ SpentType'
    BY <2>1 DEF ConfigSet, TypeOK, CallType, DiskType, HistoryType, SpentType,
                callVars, diskVars, initVars
  <2> QED  BY <2>6, <2>7, <2>8, TypesApartNext
<1>2. ASSUME NEW c \in Call, NEW p \in Proc, NEW b \in Body, Accept(c, p, b)
      PROVE  TypeOK'
  <2>1. at[p] \in Dir  BY <1>2 DEF Accept, StepsFit
  <2>2. b \in Bodies  BY BodiesType
  <2>3. told' \in [Dir -> Table] /\ doubt' \in [Dir -> SUBSET Key]
    BY <1>2, <2>1, <2>2, IsToldType DEF Accept
  <2>4. TableType'  BY <1>2, <2>3 DEF Accept, TypeOK, TableType
  <2>5. CallType'  BY <1>2, <2>2 DEF Accept, TypeOK, CallType
  <2>6. ProcType' /\ DiskType' /\ HistoryType'
    BY <1>2 DEF Accept, TypeOK, ProcType, DiskType, HistoryType, procVars,
                regVars, diskVars, initVars
  <2>7. SpentType'  BY <1>2, SpendType DEF Accept, Event
  <2> QED  BY <2>4, <2>5, <2>6, <2>7, TypesApartNext
<1>3. ASSUME NEW c \in Call, Put(c)  PROVE TypeOK'
  <2>1. host[c] \in Proc /\ pc[host[c]] = "serving"
    BY <1>3 DEF Put, TypeOK, CallsAreHandled
  <2>2. at[host[c]] \in Dir  BY <2>1 DEF StepsFit
  <2> DEFINE d == at[host[c]]
  <2>3. PICK k \in DOMAIN left[c] :
          /\ conf' = [conf EXCEPT ![d][k] = left[c][k]]
          /\ left' = [left EXCEPT ![c] = Without(@, k)]
    BY <1>3 DEF Put
  <2>4. left[c] \in Bodies  BY DEF TypeOK
  <2>5. k \in Key /\ left[c][k] \in Text  BY <2>3, <2>4, BodiesType
  <2>6. conf' \in [Dir -> Table]
    <3>1. conf[d] \in Table  BY <2>2 DEF TypeOK
    <3>2. [conf[d] EXCEPT ![k] = left[c][k]] \in Table
      BY <2>5, <3>1 DEF Table
    <3>3. conf' = [conf EXCEPT ![d] = [conf[d] EXCEPT ![k] = left[c][k]]]
      BY <2>3
    <3> HIDE DEF d
    <3> QED  BY <3>2, <3>3 DEF TypeOK
  <2>7. Without(left[c], k) \in Bodies  BY <2>4, WithoutType
  <2>8. left' \in [Call -> Bodies]  BY <2>3, <2>7 DEF TypeOK
  <2>9. CallType'
    <3>1. host' \in [Call -> Proc \union {None}]  BY <1>3 DEF Put, TypeOK
    <3> QED  BY <2>8, <3>1 DEF CallType
  <2>10. TableType'  BY <1>3, <2>6 DEF Put, TypeOK, TableType
  <2>11. ProcType' /\ DiskType' /\ HistoryType' /\ SpentType'
    BY <1>3 DEF Put, TypeOK, ProcType, DiskType, HistoryType, SpentType,
                procVars, regVars, diskVars, initVars
  <2> QED  BY <2>9, <2>10, <2>11, TypesApartNext
<1>4. ASSUME NEW c \in Call, PutFails(c)  PROVE TypeOK'
  <2>1. DOMAIN left[c] \subseteq Key  BY BodiesType DEF TypeOK
  <2>2. TableType'  BY <1>4, <2>1 DEF PutFails, TypeOK, TableType
  <2>3. CallType'  BY <1>4, BodiesType DEF PutFails, TypeOK, CallType
  <2>4. ProcType' /\ DiskType' /\ HistoryType'
    BY <1>4 DEF PutFails, TypeOK, ProcType, DiskType, HistoryType, procVars,
                regVars, diskVars, initVars
  <2>5. SpentType'  BY <1>4, SpendType DEF PutFails, Event
  <2> QED  BY <2>2, <2>3, <2>4, <2>5, TypesApartNext
<1> QED  BY <1>1, <1>2, <1>3, <1>4

LEMMA RemovalTypes ==
    ASSUME Consistent, NEW d \in Dir, RemoveConfig(d) \/ RemoveDatabase(d)
    PROVE  TypeOK'
<1> USE DEF Consistent
<1>1. SpentType'  BY SpendType DEF RemoveConfig, RemoveDatabase, Event
<1>2. ProcType' /\ CallType'
  BY DEF RemoveConfig, RemoveDatabase, TypeOK, ProcType, CallType, procVars,
         regVars, callVars
<1>3. DiskType'  BY DEF RemoveConfig, RemoveDatabase, TypeOK, DiskType
<1>4. HistoryType'  BY DEF RemoveConfig, RemoveDatabase, TypeOK, HistoryType
<1>5. TableType'
  <2>1. CASE RemoveConfig(d)
    BY <2>1 DEF RemoveConfig, TypeOK, TableType, tableVars
  <2>2. CASE RemoveDatabase(d)
    <3>1. conf' = [conf EXCEPT ![d] = Blank] /\ told' = [told EXCEPT ![d] = Blank]
          /\ doubt' = [doubt EXCEPT ![d] = {}]
      BY <2>2 DEF RemoveDatabase
    <3> QED  BY <3>1, BlankType DEF TypeOK, TableType
  <2> QED  BY <2>1, <2>2
<1> QED  BY <1>1, <1>2, <1>3, <1>4, <1>5, TypesApartNext

LEMMA TypeStep ==
    ASSUME Consistent, Next
    PROVE  TypeOK'
<1>1. TypeOK  BY DEF Consistent
<1> QED  BY <1>1, LaunchTypes, RegistryTypes, FileTypes, OpenTypes, TableTypes,
            RemovalTypes DEF Next

-----------------------------------------------------------------------------
(* What a step leaves alone.                                                *)

ProcStep(p) ==
    \/ \E j \in Job : Launch(p, j)
    \/ ListIsRead(p) \/ EntryIsFound(p) \/ EntryIsRegistered(p) \/ Leave(p)
    \/ Stat(p) \/ Truncate(p) \/ Write(p)
    \/ FindProjectRoot(p) \/ Load(p)
    \/ CreateTables(p) \/ CreateRest(p)
    \/ CreateProject(p) \/ Report(p) \/ Configure(p) \/ ConfigSet(p)
    \/ Stop(p) \/ Fails(p)

CallStep ==
    \E c \in Call : \/ \E p \in Proc, b \in Body : Accept(c, p, b)
                    \/ Put(c) \/ PutFails(c)

RemovalStep == \E d \in Dir : RemoveConfig(d) \/ RemoveDatabase(d)

LEMMA Kinds == Next <=> (\E p \in Proc : ProcStep(p)) \/ CallStep \/ RemovalStep
  BY Zenon DEF Next, ProcStep, CallStep, RemovalStep

\* The other processes and their registries.
OthersStand(p) ==
    \A q \in Proc \ {p} :
        /\ pc'[q] = pc[q] /\ job'[q] = job[q] /\ at'[q] = at[q]
        /\ order'[q] = order[q] /\ handles'[q] = handles[q] /\ open'[q] = open[q]

\* All processes and registries.
AllStand == UNCHANGED <<procVars, regVars>>

LEMMA GoneEffect ==
    ASSUME TypeOK, NEW p \in Proc, Gone(p)
    PROVE  /\ OthersStand(p)
           /\ pc'[p] = "idle" /\ job'[p] = NoJob /\ at'[p] = None
           /\ order'[p] = <<>> /\ handles'[p] = Nothing /\ open'[p] = {}
  BY DEF TypeOK, Gone, Goes, OthersStand

LEMMA RegistryFailsEffect ==
    ASSUME TypeOK, NEW p \in Proc, RegistryFails(p)
    PROVE  /\ OthersStand(p)
           /\ pc'[p] = "failed" /\ job'[p] = job[p] /\ at'[p] = at[p]
           /\ order'[p] = order[p] /\ handles'[p] = handles[p]
  BY DEF TypeOK, RegistryFails, Goes, OthersStand

LEMMA GivesUpEffect ==
    ASSUME TypeOK, NEW p \in Proc, GivesUp(p)
    PROVE  /\ OthersStand(p)
           /\ \/ Gone(p)
              \/ /\ RegistryFails(p)
                 /\ job[p].op = "daemon" /\ pc[p] \in Registering
  BY GoneEffect, RegistryFailsEffect DEF GivesUp

LEMMA OthersStandStep ==
    ASSUME TypeOK, NEW p \in Proc, ProcStep(p)
    PROVE  OthersStand(p)
<1>1. CASE Gone(p) \/ RegistryFails(p) \/ GivesUp(p)
  BY <1>1, GoneEffect, RegistryFailsEffect, GivesUpEffect
<1>2. CASE ~ (Gone(p) \/ RegistryFails(p) \/ GivesUp(p))
  <2> USE DEF TypeOK, OthersStand, Goes, regVars
  <2>1. CASE \E j \in Job : Launch(p, j)  BY <2>1 DEF Launch
  <2>2. CASE ListIsRead(p)  BY <2>2, <1>2 DEF ListIsRead
  <2>3. CASE EntryIsFound(p)  BY <2>3, <1>2 DEF EntryIsFound
  <2>4. CASE EntryIsRegistered(p)  BY <2>4, <1>2 DEF EntryIsRegistered
  <2>5. CASE Leave(p)  BY <2>5, <1>2 DEF Leave
  <2>6. CASE Stat(p)  BY <2>6, <1>2 DEF Stat
  <2>7. CASE Truncate(p)  BY <2>7, <1>2 DEF Truncate
  <2>8. CASE Write(p)  BY <2>8, <1>2 DEF Write
  <2>9. CASE FindProjectRoot(p)  BY <2>9, <1>2 DEF FindProjectRoot
  <2>10. CASE Load(p)  BY <2>10, <1>2 DEF Load
  <2>11. CASE CreateTables(p)  BY <2>11, <1>2 DEF CreateTables
  <2>12. CASE CreateRest(p)  BY <2>12, <1>2 DEF CreateRest
  <2>13. CASE CreateProject(p)  BY <2>13, <1>2 DEF CreateProject
  <2>14. CASE Report(p)  BY <2>14, <1>2 DEF Report
  <2>15. CASE Configure(p)  BY <2>15, <1>2 DEF Configure
  <2>16. CASE ConfigSet(p)  BY <2>16, <1>2 DEF ConfigSet
  <2>17. CASE Stop(p)  BY <2>17, <1>2 DEF Stop
  <2>18. CASE Fails(p)  BY <2>18, <1>2 DEF Fails
  <2> QED
    BY <2>1, <2>2, <2>3, <2>4, <2>5, <2>6, <2>7, <2>8, <2>9, <2>10, <2>11, <2>12, <2>13, <2>14, <2>15, <2>16, <2>17, <2>18 DEF ProcStep
<1> QED  BY <1>1, <1>2

LEMMA CallsStand ==
    ASSUME CallStep
    PROVE  AllStand /\ UNCHANGED <<diskVars, settings, initVars>>
  BY DEF CallStep, Accept, Put, PutFails, AllStand

LEMMA RemovalsStand ==
    ASSUME RemovalStep
    PROVE  AllStand /\ UNCHANGED <<settings, callVars>> /\ Quiet
  BY DEF RemovalStep, RemoveConfig, RemoveDatabase, AllStand

\* A process never takes anything out of a database.
LEMMA DatabasesGrow ==
    ASSUME Consistent, NEW p \in Proc, ProcStep(p)
    PROVE  \A d \in Dir : has[d] \subseteq has'[d] /\ rows[d] \subseteq rows'[d]
<1> USE DEF Consistent, TypeOK
<1>1. CASE \E j \in Job : Launch(p, j)  BY <1>1 DEF Launch, diskVars
<1>2. CASE ListIsRead(p)  BY <1>2 DEF ListIsRead, diskVars
<1>3. CASE EntryIsFound(p)  BY <1>3 DEF EntryIsFound, diskVars
<1>4. CASE EntryIsRegistered(p)  BY <1>4 DEF EntryIsRegistered, diskVars
<1>5. CASE Leave(p)  BY <1>5 DEF Leave, diskVars
<1>6. CASE Stat(p)  BY <1>6 DEF Stat, diskVars
<1>7. CASE Truncate(p)  BY <1>7 DEF Truncate, diskVars
<1>8. CASE Write(p)  BY <1>8 DEF Write, diskVars
<1>9. CASE FindProjectRoot(p)  BY <1>9 DEF FindProjectRoot, diskVars
<1>10. CASE Load(p)  BY <1>10 DEF Load, diskVars
<1>11. CASE CreateTables(p)
  <2>1. at[p] \in Dir  BY <1>11 DEF CreateTables, StepsFit
  <2>2. PICK x : has' = [has EXCEPT ![at[p]] = has[at[p]] \union x]
    <3>1. has' = [has EXCEPT ![at[p]] = has[at[p]] \union
                    ({"projects", "features"} \union
                       (IF "features" \in has[at[p]] THEN {} ELSE {"persona"}))]
      BY <1>11 DEF CreateTables
    <3> QED  BY <3>1
  <2> QED  BY <1>11, <2>1, <2>2 DEF CreateTables
<1>12. CASE CreateRest(p)
  <2>1. has' = has \/ has' = [has EXCEPT ![at[p]] = has[at[p]] \union {"rest", "persona"}]
    BY <1>12 DEF CreateRest
  <2>2. has \in [Dir -> SUBSET Schema]  OBVIOUS
  <2>3. ASSUME NEW d \in Dir  PROVE has[d] \subseteq has'[d]
    <3> DEFINE more == has[at[p]] \union {"rest", "persona"}
    <3>1. has[at[p]] \subseteq more  OBVIOUS
    <3>2. has' = has \/ has' = [has EXCEPT ![at[p]] = more]  BY <2>1
    <3> HIDE DEF more
    <3>3. has'[d] = has[d] \/ (d = at[p] /\ has'[d] = more)  BY <3>2, <2>2
    <3> QED  BY <3>1, <3>3
  <2>4. rows' = rows  BY <1>12 DEF CreateRest
  <2> QED  BY <2>3, <2>4
<1>13. CASE CreateProject(p)
  <2>1. rows' = rows \/ rows' = [rows EXCEPT ![at[p]] = rows[at[p]] \union {job[p].name}]
    BY <1>13 DEF CreateProject
  <2>2. ASSUME NEW d \in Dir  PROVE rows[d] \subseteq rows'[d]
    <3> DEFINE more == rows[at[p]] \union {job[p].name}
    <3>1. rows[at[p]] \subseteq more  OBVIOUS
    <3>2. rows' = rows \/ rows' = [rows EXCEPT ![at[p]] = more]  BY <2>1
    <3> HIDE DEF more
    <3>3. rows'[d] = rows[d] \/ (d = at[p] /\ rows'[d] = more)  BY <3>2
    <3> QED  BY <3>1, <3>3
  <2>3. has' = has  BY <1>13 DEF CreateProject
  <2> QED  BY <2>2, <2>3
<1>14. CASE Report(p)  BY <1>14 DEF Report, diskVars
<1>15. CASE Configure(p)  BY <1>15 DEF Configure, diskVars
<1>16. CASE ConfigSet(p)  BY <1>16 DEF ConfigSet, diskVars
<1>17. CASE Stop(p)  BY <1>17 DEF Stop, diskVars
<1>18. CASE Fails(p)  BY <1>18 DEF Fails, diskVars
<1> QED
  BY <1>1, <1>2, <1>3, <1>4, <1>5, <1>6, <1>7, <1>8, <1>9, <1>10, <1>11, <1>12, <1>13, <1>14, <1>15, <1>16, <1>17, <1>18 DEF ProcStep

-----------------------------------------------------------------------------
(* Who stands where.                                                        *)

FitsAt(q) ==
    /\ pc[q] \in {"stat", "truncate", "write", "insert", "report"} =>
          job[q].op = "init"
    /\ pc[q] \in {"list", "entry", "get", "listening", "failed"} =>
          job[q].op = "daemon"
    /\ pc[q] \in {"find", "configure", "running", "serving", "set"} =>
          job[q].op \notin {"init", "daemon"}
    /\ pc[q] = "load" => job[q].op # "init"
    /\ pc[q] = "idle" => at[q] = None /\ job[q] = NoJob
    /\ pc[q] # "idle" => job[q] \in Job
    /\ pc[q] \notin {"idle", "find", "list", "entry", "failed"} =>
          at[q] \in Dir

LEMMA FitsAtAll ==
    /\ StepsFit <=> \A q \in Proc : FitsAt(q)
    /\ StepsFit' <=> \A q \in Proc : FitsAt(q)'
  BY DEF StepsFit, FitsAt

LEMMA FitsStep ==
    ASSUME Consistent, NEW p \in Proc, ProcStep(p)
    PROVE  FitsAt(p)'
<1> USE DEF Consistent
<1>1. FitsAt(p)  BY FitsAtAll
<1>2. CASE Gone(p)  BY <1>2, GoneEffect DEF FitsAt
<1>3. CASE RegistryFails(p) /\ job[p].op = "daemon"
  <2>1. job[p] \in Job  BY <1>3, NoJobType DEF TypeOK
  <2> QED  BY <1>1, <1>3, <2>1, RegistryFailsEffect DEF FitsAt
<1>4. CASE GivesUp(p)  BY <1>2, <1>3, <1>4, GivesUpEffect
<1>5. CASE ~ Gone(p) /\ ~ (RegistryFails(p) /\ job[p].op = "daemon") /\ ~ GivesUp(p)
  <2> USE DEF TypeOK, FitsAt, Goes
  <2>1. CASE \E j \in Job : Launch(p, j)
    <3>1. PICK j \in Job : Launch(p, j)  BY <2>1
    <3>2. j.op \in {"init", "serve", "start", "set", "daemon"} /\ j.dir \in Dir
      BY JobType
    <3>3. pc'[p] = FirstStep(j.op) /\ job'[p] = j
          /\ at'[p] = IF j.op = "init" THEN j.dir ELSE None
      BY <3>1 DEF Launch
    <3> QED  BY <3>2, <3>3 DEF FirstStep
  <2>2. CASE ListIsRead(p)  BY <2>2, <1>1, <1>5 DEF ListIsRead
  <2>3. CASE EntryIsFound(p)
    <3>1. job[p].op = "daemon" /\ Len(order[p]) < Len(Entries(p))
      BY <2>3, <1>1 DEF EntryIsFound, RegistryGrows
    <3>2. Current(p).dir \in Dir  BY <3>1, CurrentType
    <3> QED  BY <2>3, <1>1, <1>5, <3>1, <3>2 DEF EntryIsFound
  <2>4. CASE EntryIsRegistered(p)  BY <2>4, <1>1, <1>5 DEF EntryIsRegistered
  <2>5. CASE Leave(p)  BY <2>5, <1>1, <1>5 DEF Leave
  <2>6. CASE Stat(p)  BY <2>6, <1>1, <1>5 DEF Stat
  <2>7. CASE Truncate(p)  BY <2>7, <1>1, <1>5 DEF Truncate
  <2>8. CASE Write(p)  BY <2>8, <1>1, <1>5 DEF Write
  <2>9. CASE FindProjectRoot(p)  BY <2>9, <1>1, <1>5 DEF FindProjectRoot
  <2>10. CASE Load(p)  BY <2>10, <1>1, <1>5 DEF Load
  <2>11. CASE CreateTables(p)  BY <2>11, <1>1, <1>5 DEF CreateTables
  <2>12. CASE CreateRest(p)
    <3>1. pc'[p] = AfterOpen(job[p].op) /\ job'[p] = job[p] /\ at'[p] = at[p]
      BY <2>12, <1>5 DEF CreateRest
    <3>2. at[p] \in Dir  BY <2>12, <1>1 DEF CreateRest
    <3>3. job[p].op \in {"none", "init", "serve", "start", "set", "daemon"}
      BY JobType, NoJobType
    <3>4. job[p] \in Job  BY <2>12, <1>1 DEF CreateRest
    <3>5. job[p].op # "none"  BY <3>4, JobType
    <3> QED  BY <3>1, <3>2, <3>3, <3>4, <3>5 DEF AfterOpen
  <2>13. CASE CreateProject(p)  BY <2>13, <1>1, <1>5 DEF CreateProject
  <2>14. CASE Report(p)  BY <2>14, <1>1, <1>5 DEF Report
  <2>15. CASE Configure(p)  BY <2>15, <1>1, <1>5 DEF Configure
  <2>16. CASE ConfigSet(p)  BY <2>16, <1>1, <1>5 DEF ConfigSet
  <2>17. CASE Stop(p)  BY <2>17, <1>1, <1>5 DEF Stop
  <2>18. CASE Fails(p)  BY <2>18, <1>1, <1>5 DEF Fails
  <2> QED
    BY <2>1, <2>2, <2>3, <2>4, <2>5, <2>6, <2>7, <2>8, <2>9, <2>10, <2>11, <2>12, <2>13, <2>14, <2>15, <2>16, <2>17, <2>18 DEF ProcStep
<1> QED  BY <1>2, <1>3, <1>4, <1>5

LEMMA StepsFitStep ==
    ASSUME Consistent, Next
    PROVE  StepsFit'
<1> USE DEF Consistent
<1>1. SUFFICES ASSUME NEW q \in Proc  PROVE FitsAt(q)'
  BY FitsAtAll
<1>2. FitsAt(q)  BY FitsAtAll
<1>3. CASE AllStand  BY <1>2, <1>3 DEF AllStand, FitsAt, procVars
<1>4. ASSUME NEW p \in Proc, ProcStep(p)  PROVE FitsAt(q)'
  <2>1. CASE q = p  BY <2>1, <1>4, FitsStep
  <2>2. CASE q # p
    <3>1. OthersStand(p)  BY <1>4, OthersStandStep
    <3> QED  BY <1>2, <2>2, <3>1 DEF OthersStand, FitsAt
  <2> QED  BY <2>1, <2>2
<1> QED  BY <1>3, <1>4, Kinds, CallsStand, RemovalsStand

-----------------------------------------------------------------------------
(* The schema of who uses a database.                                       *)

Users == {"insert", "report", "get", "serving", "configure", "running", "set"}

SchemaAt(q) ==
    /\ pc[q] = "rest" => {"projects", "features"} \subseteq has[at[q]]
    /\ pc[q] \in Users => has[at[q]] = Schema

LEMMA SchemaAtAll ==
    /\ UsersHaveSchema <=> \A q \in Proc : SchemaAt(q)
    /\ UsersHaveSchema' <=> \A q \in Proc : SchemaAt(q)'
  BY DEF UsersHaveSchema, SchemaAt, Users

LEMMA SchemaStep ==
    ASSUME Consistent, NEW p \in Proc, ProcStep(p)
    PROVE  SchemaAt(p)'
<1> USE DEF Consistent
<1>1. SchemaAt(p)  BY SchemaAtAll
<1>2. FitsAt(p)  BY FitsAtAll
<1>3. TypeOK' /\ \A d \in Dir : has[d] \subseteq has'[d]
  BY TypeStep, Kinds, DatabasesGrow
<1>4. CASE Gone(p)  BY <1>4, GoneEffect DEF SchemaAt, Users
<1>5. CASE RegistryFails(p)  BY <1>5, RegistryFailsEffect DEF SchemaAt, Users
<1>6. CASE GivesUp(p)  BY <1>4, <1>5, <1>6, GivesUpEffect
<1>7. CASE ~ Gone(p) /\ ~ RegistryFails(p) /\ ~ GivesUp(p)
  <2> USE DEF TypeOK, SchemaAt, Goes, Users
  <2>1. CASE \E j \in Job : Launch(p, j)
    <3>1. PICK j \in Job : pc'[p] = FirstStep(j.op)  BY <2>1 DEF Launch
    <3> QED  BY <3>1 DEF FirstStep
  <2>2. CASE ListIsRead(p)  BY <2>2, <1>7 DEF ListIsRead
  <2>3. CASE EntryIsFound(p)  BY <2>3, <1>7 DEF EntryIsFound
  <2>4. CASE EntryIsRegistered(p)  BY <2>4, <1>7 DEF EntryIsRegistered
  <2>5. CASE Leave(p)  BY <2>5, <1>7 DEF Leave
  <2>6. CASE Stat(p)  BY <2>6, <1>7 DEF Stat
  <2>7. CASE Truncate(p)  BY <2>7 DEF Truncate
  <2>8. CASE Write(p)  BY <2>8 DEF Write
  <2>9. CASE FindProjectRoot(p)  BY <2>9, <1>7 DEF FindProjectRoot
  <2>10. CASE Load(p)  BY <2>10, <1>7 DEF Load
  <2>11. CASE CreateTables(p)
    <3>1. at[p] \in Dir  BY <2>11, <1>2 DEF CreateTables, FitsAt
    <3>2. pc'[p] = "rest" /\ at'[p] = at[p]  BY <2>11 DEF CreateTables
    <3>3. has'[at[p]] = has[at[p]] \union {"projects", "features"} \union
                    (IF "features" \in has[at[p]] THEN {} ELSE {"persona"})
      BY <2>11, <3>1 DEF CreateTables
    <3>4. {"projects", "features"} \subseteq has'[at'[p]]  BY <3>2, <3>3
    <3> QED  BY <3>2, <3>4
  <2>12. CASE CreateRest(p)
    <3>1. at[p] \in Dir  BY <2>12, <1>2 DEF CreateRest, FitsAt
    <3>2. at'[p] = at[p] /\ pc[p] = "rest" /\ pc'[p] = AfterOpen(job[p].op)
      BY <2>12, <1>7 DEF CreateRest
    <3>3. has' = [has EXCEPT ![at[p]] = has[at[p]] \union {"rest", "persona"}]
      BY <2>12, <1>7 DEF CreateRest
    <3>4. has'[at[p]] = Schema
      <4>1. has'[at[p]] = has[at[p]] \union {"rest", "persona"}
        BY <3>1, <3>3
      <4>2. {"projects", "features"} \subseteq has[at[p]]  BY <1>1, <3>2
      <4>3. has[at[p]] \subseteq Schema  BY <3>1
      <4> QED  BY <4>1, <4>2, <4>3 DEF Schema
    <3>5. AfterOpen(job[p].op) # "rest"  BY DEF AfterOpen
    <3> QED  BY <3>2, <3>4, <3>5
  <2>13. CASE CreateProject(p)
    <3>1. pc[p] = "insert" /\ pc'[p] = "report" /\ at'[p] = at[p] /\ has' = has
      BY <2>13, <1>7 DEF CreateProject
    <3> QED  BY <3>1, <1>1
  <2>14. CASE Report(p)  BY <2>14, <1>7 DEF Report
  <2>15. CASE Configure(p)
    <3>1. pc[p] = "configure" /\ pc'[p] = "running" /\ at'[p] = at[p] /\ has' = has
      BY <2>15 DEF Configure, diskVars
    <3> QED  BY <3>1, <1>1
  <2>16. CASE ConfigSet(p)  BY <2>16 DEF ConfigSet
  <2>17. CASE Stop(p)  BY <2>17, <1>7 DEF Stop
  <2>18. CASE Fails(p)  BY <2>18, <1>7 DEF Fails
  <2> QED
    BY <2>1, <2>2, <2>3, <2>4, <2>5, <2>6, <2>7, <2>8, <2>9, <2>10, <2>11, <2>12, <2>13, <2>14, <2>15, <2>16, <2>17, <2>18 DEF ProcStep
<1> QED  BY <1>4, <1>5, <1>6, <1>7

LEMMA UsersHaveSchemaStep ==
    ASSUME Consistent, Next
    PROVE  UsersHaveSchema'
<1> USE DEF Consistent
<1>1. SUFFICES ASSUME NEW q \in Proc  PROVE SchemaAt(q)'
  BY SchemaAtAll
<1>2. SchemaAt(q) /\ FitsAt(q)  BY SchemaAtAll, FitsAtAll
<1>3. CASE CallStep
  BY <1>2, <1>3, CallsStand DEF AllStand, SchemaAt, procVars, diskVars
<1>4. CASE RemovalStep
  BY <1>4, RemovalsStand DEF AllStand, SchemaAt, Users, Quiet, procVars
<1>5. ASSUME NEW p \in Proc, ProcStep(p)  PROVE SchemaAt(q)'
  <2>1. CASE q = p  BY <2>1, <1>5, SchemaStep
  <2>2. CASE q # p
    <3>1. OthersStand(p)  BY <1>5, OthersStandStep
    <3>2. pc'[q] = pc[q] /\ at'[q] = at[q]  BY <2>2, <3>1 DEF OthersStand
    <3>3. \A d \in Dir : has[d] \subseteq has'[d] /\ has'[d] \subseteq Schema
      BY <1>5, DatabasesGrow, TypeStep, Kinds DEF TypeOK
    <3>4. pc[q] = "rest" \/ pc[q] \in Users => at[q] \in Dir
      BY <1>2 DEF FitsAt, Users
    <3> QED  BY <1>2, <3>2, <3>3, <3>4 DEF SchemaAt
  <2> QED  BY <2>1, <2>2
<1> QED  BY <1>3, <1>4, <1>5, Kinds

-----------------------------------------------------------------------------
(* Requests and the table.                                                  *)

\* What a process does to them.
LEMMA CallsOfProcStep ==
    ASSUME TypeOK, NEW p \in Proc, ProcStep(p)
    PROVE  \/ Gone(p)
           \/ /\ UNCHANGED callVars
              /\ pc[p] # "serving"
              /\ ConfigSet(p) \/ UNCHANGED tableVars
<1>1. CASE Gone(p)  BY <1>1
<1>2. ASSUME RegistryFails(p)  PROVE UNCHANGED <<callVars, tableVars>>
  BY <1>2 DEF RegistryFails
<1>3. CASE ~ Gone(p)
  <2>1. GivesUp(p) => UNCHANGED <<callVars, tableVars>>
    BY <1>2, <1>3 DEF GivesUp
  <2>2. CASE \E j \in Job : Launch(p, j)  BY <2>2 DEF Launch
  <2>3. CASE ListIsRead(p)  BY <2>3, <1>3 DEF ListIsRead
  <2>4. CASE EntryIsFound(p)  BY <2>4, <1>2 DEF EntryIsFound
  <2>5. CASE EntryIsRegistered(p)  BY <2>5, <1>2 DEF EntryIsRegistered
  <2>6. CASE Leave(p)  BY <2>6, <1>3 DEF Leave
  <2>7. CASE Stat(p)  BY <2>7, <1>3 DEF Stat
  <2>8. CASE Truncate(p)  BY <2>8 DEF Truncate
  <2>9. CASE Write(p)  BY <2>9 DEF Write
  <2>10. CASE FindProjectRoot(p)  BY <2>10, <1>3 DEF FindProjectRoot
  <2>11. CASE Load(p)  BY <2>11, <2>1 DEF Load
  <2>12. CASE CreateTables(p)  BY <2>12 DEF CreateTables
  <2>13. CASE CreateRest(p)  BY <2>13, <2>1 DEF CreateRest
  <2>14. CASE CreateProject(p)  BY <2>14, <1>3 DEF CreateProject
  <2>15. CASE Report(p)  BY <2>15, <1>3 DEF Report
  <2>16. CASE Configure(p)  BY <2>16 DEF Configure
  <2>17. CASE ConfigSet(p)  BY <2>17 DEF ConfigSet
  <2>18. CASE Stop(p)  BY <2>18, <1>3 DEF Stop
  <2>19. CASE Fails(p)  BY <2>19, <1>3, <2>1 DEF Fails, Up
  <2> QED
    BY <2>2, <2>3, <2>4, <2>5, <2>6, <2>7, <2>8, <2>9, <2>10, <2>11, <2>12, <2>13, <2>14, <2>15, <2>16, <2>17, <2>18, <2>19 DEF ProcStep
<1> QED  BY <1>1, <1>3

LEMMA CallsAreHandledStep ==
    ASSUME Consistent, Next
    PROVE  CallsAreHandled'
<1> USE DEF Consistent, CallsAreHandled
<1>1. CASE \E p \in Proc : ProcStep(p)
  <2>1. PICK p \in Proc : ProcStep(p)  BY <1>1
  <2>2. OthersStand(p)  BY <2>1, OthersStandStep
  <2>3. CASE Gone(p)
    <3>1. \A c \in Call : /\ host'[c] = IF host[c] = p THEN None ELSE host[c]
                          /\ left'[c] = IF host[c] = p THEN Nothing ELSE left[c]
      BY <2>3 DEF Gone
    <3>2. \A c \in Call : host[c] \in Proc \union {None}  BY DEF TypeOK
    <3> QED  BY <2>2, <3>1, <3>2 DEF OthersStand
  <2>4. CASE UNCHANGED callVars /\ pc[p] # "serving"
    <3>1. \A c \in Call : host[c] \in Proc \union {None}  BY DEF TypeOK
    <3> QED  BY <2>2, <2>4, <3>1 DEF OthersStand, callVars
  <2> QED  BY <2>1, <2>3, <2>4, CallsOfProcStep
<1>2. ASSUME NEW c \in Call, NEW p \in Proc, NEW b \in Body, Accept(c, p, b)
      PROVE  CallsAreHandled'
  <2>1. b # Nothing /\ p # None  BY BodiesType, NoneIsNone
  <2>2. /\ pc' = pc /\ pc[p] = "serving"
        /\ host' = [host EXCEPT ![c] = p] /\ left' = [left EXCEPT ![c] = b]
    BY <1>2 DEF Accept, procVars
  <2> QED  BY <2>1, <2>2 DEF TypeOK
<1>3. ASSUME NEW c \in Call, Put(c)  PROVE CallsAreHandled'
  <2>1. PICK k \in DOMAIN left[c] : left' = [left EXCEPT ![c] = Without(@, k)]
    BY <1>3 DEF Put
  <2>2. pc' = pc
        /\ host' = IF left'[c] = Nothing THEN [host EXCEPT ![c] = None] ELSE host
    BY <1>3 DEF Put, procVars
  <2>3. \A x \in Call \ {c} : left'[x] = left[x] /\ host'[x] = host[x]
    BY <2>1, <2>2 DEF TypeOK
  <2>4. host[c] # None /\ pc[host[c]] = "serving"  BY <1>3 DEF Put
  <2>5. host'[c] = IF left'[c] = Nothing THEN None ELSE host[c]
    BY <2>2 DEF TypeOK
  <2> QED  BY <2>2, <2>3, <2>4, <2>5
<1>4. ASSUME NEW c \in Call, PutFails(c)  PROVE CallsAreHandled'
  BY <1>4 DEF PutFails, procVars, TypeOK
<1>5. CASE RemovalStep
  BY <1>5, RemovalsStand DEF AllStand, procVars, callVars
<1> QED  BY <1>1, <1>2, <1>3, <1>4, <1>5, Kinds DEF CallStep

\* What is to be stored, and where.
LEMMA PendingIs ==
    ASSUME TypeOK, NEW c \in Call, NEW d \in Dir
    PROVE  /\ host[c] = None => Pending(c, d) = {}
           /\ host[c] # None /\ at[host[c]] # d => Pending(c, d) = {}
           /\ host[c] # None /\ at[host[c]] = d => Pending(c, d) = DOMAIN left[c]
  BY DEF Pending

\* Steps of processes that end or are not servers.
LEMMA PendingStands ==
    ASSUME TypeOK, CallsAreHandled, NEW p \in Proc, ProcStep(p),
           NEW c \in Call, NEW d \in Dir
    PROVE  /\ Gone(p) /\ host[c] = p => Pending(c, d)' = {}
           /\ ~ (Gone(p) /\ host[c] = p) =>
                 Pending(c, d)' = Pending(c, d) /\ left'[c] = left[c]
<1>1. OthersStand(p)  BY OthersStandStep
<1>2. host[c] \in Proc \union {None}  BY DEF TypeOK
<1>3. CASE Gone(p)
  <2>1. /\ host'[c] = IF host[c] = p THEN None ELSE host[c]
        /\ left'[c] = IF host[c] = p THEN Nothing ELSE left[c]
    BY <1>3 DEF Gone
  <2> QED  BY <1>1, <1>2, <1>3, <2>1 DEF OthersStand, Pending
<1>4. CASE ~ Gone(p)
  <2>1. UNCHANGED callVars /\ pc[p] # "serving"  BY <1>4, CallsOfProcStep
  <2>2. host[c] # p  BY <2>1, NoneIsNone DEF CallsAreHandled
  <2> QED  BY <1>1, <1>2, <2>1, <2>2, <1>4 DEF OthersStand, Pending, callVars
<1> QED  BY <1>3, <1>4

\* What Sure says, key by key.
LEMMA SureIs ==
    ASSUME NEW d, NEW k
    PROVE  /\ Sure(d, k) <=> k \notin doubt[d] /\ \A c \in Call : k \notin Pending(c, d)
           /\ Sure(d, k)' <=> k \notin doubt'[d] /\ \A c \in Call : k \notin Pending(c, d)'
  BY DEF Sure

\* The two facts about the table, at one key.
TableAt(d, k) ==
    /\ Sure(d, k) => conf[d][k] = told[d][k]
    /\ \A c \in Call : k \in Pending(c, d) /\ k \notin doubt[d] =>
          left[c][k] = told[d][k]

LEMMA TableAtAll ==
    ASSUME Consistent, PostsAreWhole
    PROVE  \A d \in Dir, k \in Key : TableAt(d, k)
  BY DEF Consistent, PendingIsTold, PostsAreWhole, TableAt

\* The table does not change, and what is owed there leaves the key in doubt.
LEMMA TableStands ==
    ASSUME NEW d \in Dir, NEW k \in Key, TableAt(d, k),
           conf'[d][k] = conf[d][k], told'[d][k] = told[d][k],
           k \in doubt[d] => k \in doubt'[d],
           \A c \in Call :
              \/ Pending(c, d)' = Pending(c, d) /\ left'[c] = left[c]
              \/ k \notin Pending(c, d) /\ k \notin Pending(c, d)'
              \/ k \in doubt'[d]
    PROVE  TableAt(d, k)'
<1>1. CASE k \in doubt'[d]  BY <1>1, SureIs DEF TableAt
<1>2. CASE k \notin doubt'[d]
  <2>1. k \notin doubt[d]  BY <1>2
  <2>2. \A c \in Call : k \in Pending(c, d)' <=> k \in Pending(c, d)  BY <1>2
  <2>3. Sure(d, k)' <=> Sure(d, k)  BY <1>2, <2>1, <2>2, SureIs
  <2>4. Sure(d, k)' => conf'[d][k] = told'[d][k]  BY <2>3 DEF TableAt
  <2>5. ASSUME NEW c \in Call, k \in Pending(c, d)'
        PROVE  left'[c][k] = told'[d][k]
    <3>1. k \in Pending(c, d)  BY <2>2, <2>5
    <3>2. left[c][k] = told[d][k]  BY <3>1, <2>1 DEF TableAt
    <3>3. left'[c] = left[c]  BY <1>2, <2>5, <3>1
    <3> QED  BY <3>2, <3>3
  <2> QED  BY <2>4, <2>5 DEF TableAt
<1> QED  BY <1>1, <1>2

\* A key is given a text.
LEMMA IsToldEffect ==
    ASSUME TypeOK, NEW c, NEW e \in Dir, NEW b \in Bodies, IsTold(c, e, b),
           NEW d \in Dir, NEW k \in Key
    PROVE  /\ d # e \/ k \notin DOMAIN b =>
                 told'[d][k] = told[d][k] /\ (k \in doubt'[d] <=> k \in doubt[d])
           /\ d = e /\ k \in DOMAIN b =>
                 /\ told'[d][k] = b[k]
                 /\ \A x \in Call \ {c} : k \in Pending(x, d) => k \in doubt'[d]
<1>1. told' = [told EXCEPT ![e] = Over(told[e], b)]  BY DEF IsTold
<1> DEFINE more == {j \in DOMAIN b : \E x \in Call \ {c} : j \in Pending(x, e)}
           now == (doubt[e] \ DOMAIN b) \union more
<1>2. doubt' = [doubt EXCEPT ![e] = now]  BY DEF IsTold
<1>3. told[e] \in Table  BY DEF TypeOK
<1>4. Over(told[e], b)[k] = IF k \in DOMAIN b THEN b[k] ELSE told[e][k]
  BY <1>3, OverType
<1>5. told'[d][k] = IF d = e /\ k \in DOMAIN b THEN b[k] ELSE told[d][k]
  BY <1>1, <1>4 DEF TypeOK
<1>6. k \notin DOMAIN b => (k \in now <=> k \in doubt[e])  OBVIOUS
<1>7. k \in DOMAIN b =>
        \A x \in Call \ {c} : k \in Pending(x, e) => k \in now
  OBVIOUS
<1> HIDE DEF now
<1>8. doubt'[d] = IF d = e THEN now ELSE doubt[d]  BY <1>2 DEF TypeOK
<1> QED  BY <1>5, <1>6, <1>7, <1>8

LEMMA TableGone ==
    ASSUME Consistent, PostsAreWhole, NEW p \in Proc, ProcStep(p), Gone(p),
           NEW d \in Dir, NEW k \in Key
    PROVE  TableAt(d, k)'
<1> USE DEF Consistent
<1>1. TableAt(d, k)  BY TableAtAll
<1>2. conf' = conf /\ told' = told  BY DEF Gone
<1>3. doubt'[d] = IF d = at[p] THEN doubt[d] \union Owed(p) ELSE doubt[d]
  BY DEF Gone
<1>4. k \in doubt[d] => k \in doubt'[d]  BY <1>3
<1>5. ASSUME NEW c \in Call
      PROVE  \/ Pending(c, d)' = Pending(c, d) /\ left'[c] = left[c]
             \/ k \notin Pending(c, d) /\ k \notin Pending(c, d)'
             \/ k \in doubt'[d]
  <2>1. CASE host[c] # p  BY <2>1, PendingStands
  <2>2. CASE host[c] = p
    <3>1. Pending(c, d)' = {}  BY <2>2, PendingStands
    <3>2. CASE k \in Pending(c, d)
      <4>1. d = at[p] /\ k \in DOMAIN left[c]
        BY <2>2, <3>2, PendingIs, NoneIsNone
      <4>2. k \in Owed(p)  BY <2>2, <4>1 DEF Owed, HandledBy
      <4> QED  BY <1>3, <4>1, <4>2
    <3> QED  BY <3>1, <3>2
  <2> QED  BY <2>1, <2>2
<1> QED  BY <1>1, <1>2, <1>4, <1>5, TableStands

LEMMA TableSet ==
    ASSUME Consistent, PostsAreWhole, NEW p \in Proc, ProcStep(p), ConfigSet(p),
           ~ Gone(p), NEW d \in Dir, NEW k \in Key
    PROVE  TableAt(d, k)'
<1> USE DEF Consistent
<1> DEFINE e == at[p]
           b == job[p].body
<1>1. TableAt(d, k)  BY TableAtAll
<1>2. e \in Dir  BY DEF ConfigSet, StepsFit
<1>3. b \in Bodies  BY JobType, BodiesType DEF TypeOK, NoJob
<1>4. IsTold(None, e, b) /\ conf' = [conf EXCEPT ![e] = Over(conf[e], b)]
  BY DEF ConfigSet
<1>5. conf[e] \in Table  BY <1>2 DEF TypeOK
<1> HIDE DEF e, b
<1>6. Over(conf[e], b)[k] = IF k \in DOMAIN b THEN b[k] ELSE conf[e][k]
  BY <1>3, <1>5, OverType
<1>7. conf'[d][k] = IF d = e /\ k \in DOMAIN b THEN b[k] ELSE conf[d][k]
  BY <1>4, <1>6 DEF TypeOK
<1>8. \A c \in Call : Pending(c, d)' = Pending(c, d) /\ left'[c] = left[c]
  BY PendingStands
<1>9. CASE d = e /\ k \in DOMAIN b
  <2>1. told'[d][k] = b[k]
    BY <1>2, <1>3, <1>4, <1>9, IsToldEffect
  <2>2. \A x \in Call : k \in Pending(x, d) => k \in doubt'[d]
    BY <1>2, <1>3, <1>4, <1>9, IsToldEffect, NoneIsNone
  <2> QED  BY <1>7, <1>8, <1>9, <2>1, <2>2 DEF TableAt
<1>10. CASE d # e \/ k \notin DOMAIN b
  <2>1. told'[d][k] = told[d][k] /\ (k \in doubt'[d] <=> k \in doubt[d])
    BY <1>2, <1>3, <1>4, <1>10, IsToldEffect
  <2>2. conf'[d][k] = conf[d][k]  BY <1>7, <1>10
  <2> QED  BY <1>1, <1>8, <2>1, <2>2, TableStands
<1> QED  BY <1>9, <1>10

LEMMA TableAccept ==
    ASSUME Consistent, PostsAreWhole, NEW c \in Call, NEW p \in Proc,
           NEW b \in Body, Accept(c, p, b), NEW d \in Dir, NEW k \in Key
    PROVE  TableAt(d, k)'
<1> USE DEF Consistent
<1> DEFINE e == at[p]
<1>1. TableAt(d, k)  BY TableAtAll
<1>2. e \in Dir  BY DEF Accept, StepsFit
<1>3. b \in Bodies  BY BodiesType
<1>4. IsTold(c, e, b) /\ conf' = conf /\ at' = at /\ host[c] = None
      /\ host' = [host EXCEPT ![c] = p] /\ left' = [left EXCEPT ![c] = b]
  BY DEF Accept, procVars
<1>5. \A x \in Call \ {c} : Pending(x, d)' = Pending(x, d) /\ left'[x] = left[x]
  BY <1>4 DEF Pending, TypeOK
<1>6. Pending(c, d) = {}  BY <1>4, PendingIs
<1>7. Pending(c, d)' = (IF d = e THEN DOMAIN b ELSE {}) /\ left'[c] = b
  BY <1>4, NoneIsNone DEF Pending, TypeOK
<1> HIDE DEF e
<1>8. CASE d = e /\ k \in DOMAIN b
  <2>1. told'[d][k] = b[k]
    BY <1>2, <1>3, <1>4, <1>8, IsToldEffect
  <2>2. \A x \in Call \ {c} : k \in Pending(x, d) => k \in doubt'[d]
    BY <1>2, <1>3, <1>4, <1>8, IsToldEffect
  <2>3. ~ Sure(d, k)'  BY <1>7, <1>8, SureIs
  <2>4. ASSUME NEW x \in Call, k \in Pending(x, d)', k \notin doubt'[d]
        PROVE  left'[x][k] = told'[d][k]
    <3>1. CASE x = c  BY <3>1, <1>7, <2>1
    <3>2. CASE x # c  BY <3>2, <2>4, <1>5, <2>2
    <3> QED  BY <3>1, <3>2
  <2> QED  BY <2>3, <2>4 DEF TableAt
<1>9. CASE d # e \/ k \notin DOMAIN b
  <2>1. told'[d][k] = told[d][k] /\ (k \in doubt'[d] <=> k \in doubt[d])
    BY <1>2, <1>3, <1>4, <1>9, IsToldEffect
  <2>2. \A x \in Call :
          \/ Pending(x, d)' = Pending(x, d) /\ left'[x] = left[x]
          \/ k \notin Pending(x, d) /\ k \notin Pending(x, d)'
    BY <1>5, <1>6, <1>7, <1>9
  <2>3. conf'[d][k] = conf[d][k]  BY <1>4
  <2> QED  BY <1>1, <2>1, <2>2, <2>3, TableStands
<1> QED  BY <1>8, <1>9

LEMMA TablePut ==
    ASSUME Consistent, PostsAreWhole, NEW c \in Call, Put(c),
           NEW d \in Dir, NEW k \in Key
    PROVE  TableAt(d, k)'
<1> USE DEF Consistent
<1> DEFINE e == at[host[c]]
<1>1. TableAt(d, k)  BY TableAtAll
<1>2. host[c] \in Proc /\ pc[host[c]] = "serving" /\ host[c] # None
  BY NoneIsNone DEF Put, TypeOK, CallsAreHandled
<1>3. e \in Dir  BY <1>2 DEF StepsFit
<1>4. PICK j \in DOMAIN left[c] :
        /\ conf' = [conf EXCEPT ![e][j] = left[c][j]]
        /\ left' = [left EXCEPT ![c] = Without(left[c], j)]
  BY DEF Put
<1>5. /\ host' = IF left'[c] = Nothing THEN [host EXCEPT ![c] = None] ELSE host
      /\ told' = told /\ doubt' = doubt /\ at' = at
  BY DEF Put, procVars
<1>6. left[c] \in Bodies  BY DEF TypeOK
<1>7. /\ left'[c] = Without(left[c], j)
      /\ \A x \in Call \ {c} : left'[x] = left[x] /\ host'[x] = host[x]
  BY <1>4, <1>5 DEF TypeOK
<1>8. /\ DOMAIN left'[c] = DOMAIN left[c] \ {j}
      /\ \A x \in DOMAIN left[c] \ {j} : left'[c][x] = left[c][x]
  <2> DEFINE old == left[c]
  <2>1. /\ DOMAIN Without(old, j) = DOMAIN old \ {j}
        /\ \A x \in DOMAIN old \ {j} : Without(old, j)[x] = old[x]
    <3> HIDE DEF old
    <3> QED  BY <1>6, WithoutType DEF old
  <2>2. left'[c] = Without(old, j)  BY <1>7
  <2> HIDE DEF old
  <2>3. /\ DOMAIN left'[c] = DOMAIN old \ {j}
        /\ \A x \in DOMAIN old \ {j} : left'[c][x] = old[x]
    BY <2>1, <2>2
  <2> QED  BY <2>3 DEF old
<1>9. \A x \in Call \ {c} : Pending(x, d)' = Pending(x, d)
  BY <1>5, <1>7 DEF Pending
<1>10. Pending(c, d)' = Pending(c, d) \ {j}
  <2>1. CASE left'[c] = Nothing
    <3>1. host'[c] = None  BY <2>1, <1>5 DEF TypeOK
    <3>2. Pending(c, d)' = {}  BY <3>1 DEF Pending
    <3>3. DOMAIN left[c] \ {j} = {}  BY <2>1, <1>8, NothingIsEmpty
    <3> QED  BY <3>2, <3>3, PendingIs
  <2>2. CASE left'[c] # Nothing
    <3>1. host' = host  BY <2>2, <1>5
    <3> QED  BY <3>1, <1>5, <1>8 DEF Pending
  <2> QED  BY <2>1, <2>2
<1>11. j \in Key  BY <1>4, <1>6, BodiesType
<1>12. conf'[d][k] = IF d = e /\ k = j THEN left[c][j] ELSE conf[d][k]
  <2>1. conf[e] \in Table  BY <1>3 DEF TypeOK
  <2>2. DOMAIN conf[e] = Key  BY <2>1 DEF Table
  <2>3. conf' = [conf EXCEPT ![e] = [conf[e] EXCEPT ![j] = left[c][j]]]  BY <1>4
  <2>4. [conf[e] EXCEPT ![j] = left[c][j]][k] =
           IF k = j THEN left[c][j] ELSE conf[e][k]
    BY <2>2
  <2> HIDE DEF e
  <2> QED  BY <2>3, <2>4 DEF TypeOK
<1>13. Pending(c, d) = IF d = e THEN DOMAIN left[c] ELSE {}
  BY <1>2, PendingIs
<1> HIDE DEF e
<1>14. CASE d = e /\ k = j
  <2>1. k \in Pending(c, d)  BY <1>4, <1>13, <1>14
  <2>2. k \notin doubt[d] => left[c][k] = told[d][k]  BY <1>1, <2>1 DEF TableAt
  <2>3. Sure(d, k)' => conf'[d][k] = told'[d][k]
    BY <1>5, <1>12, <1>14, <2>2, SureIs
  <2>4. ASSUME NEW x \in Call, k \in Pending(x, d)', k \notin doubt'[d]
        PROVE  left'[x][k] = told'[d][k]
    <3>1. x # c  BY <2>4, <1>10, <1>14
    <3> QED  BY <3>1, <2>4, <1>1, <1>5, <1>7, <1>9 DEF TableAt
  <2> QED  BY <2>3, <2>4 DEF TableAt
<1>15. CASE d = e /\ k # j
  <2>1. conf'[d][k] = conf[d][k]  BY <1>12, <1>15
  <2>2. \A x \in Call : k \in Pending(x, d)' <=> k \in Pending(x, d)
    BY <1>9, <1>10, <1>15
  <2>3. Sure(d, k)' <=> Sure(d, k)  BY <1>5, <2>2, SureIs
  <2>4. ASSUME NEW x \in Call, k \in Pending(x, d)', k \notin doubt'[d]
        PROVE  left'[x][k] = told'[d][k]
    <3>1. k \in Pending(x, d) /\ k \notin doubt[d]  BY <2>2, <2>4, <1>5
    <3>2. left[x][k] = told[d][k]  BY <3>1, <1>1 DEF TableAt
    <3>3. CASE x = c
      <4>1. k \in DOMAIN left[c] \ {j}  BY <3>1, <3>3, <1>13, <1>15
      <4> QED  BY <3>2, <3>3, <4>1, <1>5, <1>8
    <3>4. CASE x # c  BY <3>2, <3>4, <1>5, <1>7
    <3> QED  BY <3>3, <3>4
  <2> QED  BY <1>1, <1>5, <2>1, <2>3, <2>4 DEF TableAt
<1>16. CASE d # e
  <2>1. conf'[d][k] = conf[d][k]  BY <1>12, <1>16
  <2>2. \A x \in Call :
          \/ Pending(x, d)' = Pending(x, d) /\ left'[x] = left[x]
          \/ k \notin Pending(x, d) /\ k \notin Pending(x, d)'
    BY <1>7, <1>9, <1>10, <1>13, <1>16
  <2> QED  BY <1>1, <1>5, <2>1, <2>2, TableStands
<1> QED  BY <1>14, <1>15, <1>16

LEMMA TablePutFails ==
    ASSUME Consistent, PostsAreWhole, NEW c \in Call, PutFails(c),
           NEW d \in Dir, NEW k \in Key
    PROVE  TableAt(d, k)'
<1> USE DEF Consistent
<1> DEFINE e == at[host[c]]
           more == doubt[e] \union DOMAIN left[c]
<1>1. TableAt(d, k)  BY TableAtAll
<1>2. host[c] # None
      /\ doubt' = [doubt EXCEPT ![e] = more]
      /\ host' = [host EXCEPT ![c] = None] /\ left' = [left EXCEPT ![c] = Nothing]
      /\ conf' = conf /\ told' = told /\ at' = at
  BY DEF PutFails, procVars
<1>3. doubt[e] \subseteq more /\ DOMAIN left[c] \subseteq more  OBVIOUS
<1>4. Pending(c, d) = IF d = e THEN DOMAIN left[c] ELSE {}
  BY <1>2, PendingIs
<1>5. Pending(c, d)' = {}  BY <1>2 DEF Pending, TypeOK
<1>6. \A x \in Call \ {c} : Pending(x, d)' = Pending(x, d) /\ left'[x] = left[x]
  BY <1>2 DEF Pending, TypeOK
<1> HIDE DEF e, more
<1>7. doubt'[d] = IF d = e THEN more ELSE doubt[d]  BY <1>2 DEF TypeOK
<1>8. k \in doubt[d] => k \in doubt'[d]  BY <1>3, <1>7
<1>9. \A x \in Call :
         \/ Pending(x, d)' = Pending(x, d) /\ left'[x] = left[x]
         \/ k \notin Pending(x, d) /\ k \notin Pending(x, d)'
         \/ k \in doubt'[d]
  BY <1>3, <1>4, <1>5, <1>6, <1>7
<1>10. conf'[d][k] = conf[d][k] /\ told'[d][k] = told[d][k]  BY <1>2
<1> QED  BY <1>1, <1>8, <1>9, <1>10, TableStands

LEMMA TableRemoval ==
    ASSUME Consistent, PostsAreWhole, RemovalStep, NEW d \in Dir, NEW k \in Key
    PROVE  TableAt(d, k)'
<1> USE DEF Consistent
<1>1. TableAt(d, k)  BY TableAtAll
<1>2. AllStand /\ UNCHANGED callVars /\ Quiet  BY RemovalsStand
<1>3. \A c \in Call : host[c] = None
  BY <1>2, NoneIsNone DEF Quiet, CallsAreHandled, TypeOK
<1>4. \A c \in Call : Pending(c, d) = {} /\ Pending(c, d)' = {} /\ left'[c] = left[c]
  BY <1>2, <1>3 DEF Pending, callVars
<1>5. PICK e \in Dir : RemoveConfig(e) \/ RemoveDatabase(e)  BY DEF RemovalStep
<1>6. CASE UNCHANGED tableVars
  <2>1. conf'[d][k] = conf[d][k] /\ told'[d][k] = told[d][k] /\ doubt' = doubt
    BY <1>6 DEF tableVars
  <2> QED  BY <1>1, <1>4, <2>1, TableStands
<1>7. CASE RemoveDatabase(e)
  <2>1. conf' = [conf EXCEPT ![e] = Blank] /\ told' = [told EXCEPT ![e] = Blank]
        /\ doubt' = [doubt EXCEPT ![e] = {}]
    BY <1>7 DEF RemoveDatabase
  <2>2. CASE d = e
    <3>1. conf'[d] = told'[d]  BY <2>1, <2>2 DEF TypeOK
    <3> QED  BY <3>1, <1>4 DEF TableAt
  <2>3. CASE d # e
    <3>1. conf'[d][k] = conf[d][k] /\ told'[d][k] = told[d][k] /\ doubt'[d] = doubt[d]
      BY <2>1, <2>3 DEF TypeOK
    <3> QED  BY <1>1, <1>4, <3>1, TableStands
  <2> QED  BY <2>2, <2>3
<1> QED  BY <1>5, <1>6, <1>7 DEF RemoveConfig

LEMMA TableStep ==
    ASSUME Consistent, PostsAreWhole, Next
    PROVE  PendingIsTold' /\ PostsAreWhole'
<1> USE DEF Consistent
<1>1. ASSUME NEW d \in Dir, NEW k \in Key  PROVE TableAt(d, k)'
  <2>1. ASSUME NEW p \in Proc, ProcStep(p)  PROVE TableAt(d, k)'
    <3>1. CASE Gone(p)  BY <2>1, <3>1, TableGone
    <3>2. CASE ~ Gone(p) /\ ConfigSet(p)  BY <2>1, <3>2, TableSet
    <3>3. CASE ~ Gone(p) /\ UNCHANGED tableVars
      <4>1. TableAt(d, k)  BY TableAtAll
      <4>2. \A c \in Call : Pending(c, d)' = Pending(c, d) /\ left'[c] = left[c]
        BY <2>1, <3>3, PendingStands
      <4>3. conf'[d][k] = conf[d][k] /\ told'[d][k] = told[d][k] /\ doubt' = doubt
        BY <3>3 DEF tableVars
      <4> QED  BY <4>1, <4>2, <4>3, TableStands
    <3> QED  BY <2>1, <3>1, <3>2, <3>3, CallsOfProcStep
  <2>2. CASE CallStep
    BY <2>2, TableAccept, TablePut, TablePutFails DEF CallStep
  <2>3. CASE RemovalStep  BY <2>3, TableRemoval
  <2> QED  BY <2>1, <2>2, <2>3, Kinds
<1>2. PostsAreWhole'  BY <1>1 DEF TableAt, PostsAreWhole
<1>3. PendingIsTold'
  <2>1. TypeOK'  BY TypeStep
  <2>2. ASSUME NEW d \in Dir, NEW c \in Call, NEW k, k \in Pending(c, d)'
        PROVE  k \in Key
    <3>1. left'[c] \in Bodies  BY <2>1 DEF TypeOK
    <3>2. DOMAIN left'[c] \subseteq Key  BY <3>1, BodiesType
    <3> QED  BY <2>2, <3>2 DEF Pending
  <2> QED  BY <1>1, <2>2 DEF TableAt, PendingIsTold
<1> QED  BY <1>2, <1>3

-----------------------------------------------------------------------------
(* The registry: RegistryGrows for one daemon, of the values it is about.   *)

\* es: the entries; s, a: where the daemon stands and works; ord, hnd, opn: its
\* registry; hs, rs: what the databases have.
DaemonIs(es, s, a, ord, hnd, opn, hs, rs) ==
    LET n == Len(ord) IN
    /\ Distinct(es)
    /\ ord = [i \in 1 .. n |-> es[i].slug]
    /\ DOMAIN hnd = {es[i].slug : i \in 1 .. n}
    /\ \A i \in 1 .. n :
          /\ hnd[es[i].slug] = es[i].dir
          /\ hs[es[i].dir] = Schema
          /\ rs[es[i].dir] # {}
    /\ s = "listening" => n = Len(es)
    /\ s # "listening" => n < Len(es)
    /\ s \in {"load", "tables", "rest", "get"} => a = es[n + 1].dir
    /\ s \in {"entry", "load", "listening"} =>
          opn = {<<es[i].slug, es[i].dir>> : i \in 1 .. n}
    /\ s \in {"tables", "rest", "get"} =>
          opn = {<<es[i].slug, es[i].dir>> : i \in 1 .. (n + 1)}
    /\ s = "failed" => opn \subseteq {<<es[n + 1].slug, es[n + 1].dir>>}

RegistryAt(q) ==
    /\ job[q].op # "daemon" \/ pc[q] = "list" =>
          order[q] = <<>> /\ handles[q] = Nothing /\ open[q] = {}
    /\ job[q].op = "daemon" /\ pc[q] # "list" =>
          DaemonIs(Entries(q), pc[q], at[q], order[q], handles[q], open[q],
                   has, rows)

LEMMA RegistryAtAll ==
    /\ RegistryGrows <=> \A q \in Proc : RegistryAt(q)
    /\ RegistryGrows' <=> \A q \in Proc : RegistryAt(q)'
<1>1. RegistryGrows <=> \A q \in Proc : RegistryAt(q)
  BY DEF RegistryGrows, RegistryAt, DaemonIs, Registered, Connections, Current
<1>2. RegistryGrows' <=> \A q \in Proc : RegistryAt(q)'
  BY DEF RegistryGrows, RegistryAt, DaemonIs, Registered, Connections, Current
<1> QED  BY <1>1, <1>2

LEMMA DaemonGrows ==
    ASSUME NEW es \in Seq(Entry), NEW s, NEW a, NEW ord \in Seq(STRING), NEW hnd,
           NEW opn, NEW hs, NEW rs, NEW hs2 \in [Dir -> SUBSET Schema], NEW rs2,
           DaemonIs(es, s, a, ord, hnd, opn, hs, rs),
           \A d \in Dir : hs[d] \subseteq hs2[d] /\ rs[d] \subseteq rs2[d]
    PROVE  DaemonIs(es, s, a, ord, hnd, opn, hs2, rs2)
<1> DEFINE n == Len(ord)
<1>1. n \in Nat /\ n <= Len(es) /\ Len(es) \in Nat  BY DEF DaemonIs
<1>2. ASSUME NEW i \in 1 .. n
      PROVE  hs2[es[i].dir] = Schema /\ rs2[es[i].dir] # {}
  <2>1. hs[es[i].dir] = Schema /\ rs[es[i].dir] # {}  BY DEF DaemonIs
  <2>2. es[i] \in Entry  BY <1>1
  <2>3. es[i].dir \in Dir  BY <2>2 DEF Entry
  <2> DEFINE d == es[i].dir
  <2> HIDE DEF d
  <2>4. hs[d] \subseteq hs2[d] /\ rs[d] \subseteq rs2[d] /\ hs2[d] \subseteq Schema
    BY <2>3 DEF d
  <2> QED  BY <2>1, <2>4 DEF d
<1> QED  BY <1>2 DEF DaemonIs

LEMMA DaemonFails ==
    ASSUME NEW es \in Seq(Entry), NEW s, NEW a, NEW ord \in Seq(STRING), NEW hnd,
           NEW opn, NEW hs, NEW rs, NEW a2, NEW opn2,
           DaemonIs(es, s, a, ord, hnd, opn, hs, rs), s \in Registering,
           opn2 \subseteq {x \in opn : ~ (x[1] \in DOMAIN hnd /\ hnd[x[1]] = x[2])}
    PROVE  DaemonIs(es, "failed", a2, ord, hnd, opn2, hs, rs)
<1> DEFINE n == Len(ord)
<1>1. n \in Nat /\ n < Len(es) /\ Len(es) \in Nat
  BY DEF DaemonIs, Registering
<1>2. ASSUME NEW x \in opn2  PROVE x = <<es[n + 1].slug, es[n + 1].dir>>
  <2>1. x \in opn /\ ~ (x[1] \in DOMAIN hnd /\ hnd[x[1]] = x[2])  OBVIOUS
  <2>2. opn \subseteq {<<es[i].slug, es[i].dir>> : i \in 1 .. (n + 1)}
    BY <1>1 DEF DaemonIs, Registering
  <2>3. PICK i \in 1 .. (n + 1) : x = <<es[i].slug, es[i].dir>>
    BY <2>1, <2>2
  <2>4. CASE i \in 1 .. n
    <3>1. es[i].slug \in DOMAIN hnd /\ hnd[es[i].slug] = es[i].dir
      BY <2>4 DEF DaemonIs
    <3>2. x[1] = es[i].slug /\ x[2] = es[i].dir  BY <2>3
    <3> QED  BY <2>1, <3>1, <3>2
  <2>5. CASE i = n + 1  BY <2>3, <2>5
  <2> QED  BY <1>1, <2>4, <2>5
<1>3. opn2 \subseteq {<<es[n + 1].slug, es[n + 1].dir>>}  BY <1>2
<1> QED  BY <1>1, <1>3 DEF DaemonIs

LEMMA DaemonLoads ==
    ASSUME NEW es \in Seq(Entry), NEW a, NEW ord \in Seq(STRING), NEW hnd,
           NEW opn, NEW hs, NEW rs,
           DaemonIs(es, "load", a, ord, hnd, opn, hs, rs)
    PROVE  DaemonIs(es, "tables", a, ord, hnd,
                    opn \union {<<es[Len(ord) + 1].slug, a>>}, hs, rs)
<1> DEFINE n == Len(ord)
           now == opn \union {<<es[n + 1].slug, a>>}
<1>1. n \in Nat /\ n < Len(es) /\ a = es[n + 1].dir
      /\ opn = {<<es[i].slug, es[i].dir>> : i \in 1 .. n}
  BY DEF DaemonIs
<1>2. 1 .. (n + 1) = (1 .. n) \union {n + 1}  BY <1>1
<1>3. now = {<<es[i].slug, es[i].dir>> : i \in 1 .. (n + 1)}
  BY <1>1, <1>2
<1> QED  BY <1>1, <1>3 DEF DaemonIs

LEMMA DaemonRegisters ==
    ASSUME NEW es \in Seq(Entry), NEW s, NEW a, NEW ord \in Seq(STRING), NEW hnd,
           NEW opn, NEW hs, NEW rs, NEW hnd2,
           DaemonIs(es, "get", a, ord, hnd, opn, hs, rs),
           hs[a] = Schema, rs[a] # {},
           hnd2 = [x \in DOMAIN hnd \union {es[Len(ord) + 1].slug} |->
                     IF x = es[Len(ord) + 1].slug THEN a ELSE hnd[x]],
           s = IF Len(ord) + 1 = Len(es) THEN "listening" ELSE "entry"
    PROVE  DaemonIs(es, s, a, Append(ord, es[Len(ord) + 1].slug), hnd2, opn, hs, rs)
<1> DEFINE n == Len(ord)
           last == es[n + 1]
           ord2 == Append(ord, last.slug)
<1>1. n \in Nat /\ n < Len(es) /\ Len(es) \in Nat /\ Distinct(es) /\ a = last.dir
      /\ ord = [i \in 1 .. n |-> es[i].slug]
      /\ DOMAIN hnd = {es[i].slug : i \in 1 .. n}
      /\ opn = {<<es[i].slug, es[i].dir>> : i \in 1 .. (n + 1)}
  BY DEF DaemonIs
<1>2. n + 1 \in DOMAIN es /\ \A i \in 1 .. n : i \in DOMAIN es
  BY <1>1
<1>3. last.slug \in STRING
  <2>1. last \in Entry  BY <1>2
  <2> HIDE DEF last
  <2> QED  BY <2>1 DEF Entry
<1>4. ord2 \in Seq(STRING) /\ Len(ord2) = n + 1  BY <1>3
<1>5. ord2 = [i \in 1 .. (n + 1) |-> es[i].slug]  BY <1>1, <1>3
<1>6. 1 .. (n + 1) = (1 .. n) \union {n + 1}  BY <1>1
<1>7. DOMAIN hnd2 = {es[i].slug : i \in 1 .. (n + 1)}
  BY <1>1, <1>6
<1>8. ASSUME NEW i \in 1 .. (n + 1)
      PROVE  hnd2[es[i].slug] = es[i].dir /\ hs[es[i].dir] = Schema
             /\ rs[es[i].dir] # {}
  <2>1. CASE i \in 1 .. n
    <3>1. es[i].slug # last.slug  BY <1>1, <1>2, <2>1 DEF Distinct
    <3>2. /\ es[i].slug \in DOMAIN hnd /\ hnd[es[i].slug] = es[i].dir
          /\ hs[es[i].dir] = Schema /\ rs[es[i].dir] # {}
      BY <2>1 DEF DaemonIs
    <3>3. hnd2[es[i].slug] = hnd[es[i].slug]  BY <3>1, <3>2
    <3> QED  BY <3>2, <3>3
  <2>2. CASE i = n + 1
    <3>1. hnd2[last.slug] = a  OBVIOUS
    <3> QED  BY <2>2, <3>1, <1>1
  <2> QED  BY <1>6, <2>1, <2>2
<1>9. s = "listening" => n + 1 = Len(es)  OBVIOUS
<1>10. s # "listening" => n + 1 < Len(es) /\ s = "entry"  BY <1>1
<1> HIDE DEF n, last, ord2
<1>11. DaemonIs(es, s, a, ord2, hnd2, opn, hs, rs)
  BY <1>1, <1>4, <1>5, <1>7, <1>8, <1>9, <1>10 DEF DaemonIs
<1> QED  BY <1>11 DEF ord2, last, n

\* A process that is no daemon, and goes on as none.
LEMMA NoDaemon ==
    ASSUME NEW p \in Proc, RegistryAt(p), job[p].op # "daemon",
           job'[p].op # "daemon",
           order'[p] = order[p], handles'[p] = handles[p], open'[p] = open[p]
    PROVE  RegistryAt(p)'
  BY DEF RegistryAt

\* A daemon that goes on with its registry as it is.
LEMMA DaemonStands ==
    ASSUME Consistent, Next, NEW p \in Proc,
           \A d \in Dir : has[d] \subseteq has'[d] /\ rows[d] \subseteq rows'[d],
           RegistryAt(p), job[p].op = "daemon", job'[p] = job[p], pc[p] # "list",
           order'[p] = order[p], handles'[p] = handles[p], open'[p] = open[p],
           \/ pc'[p] = pc[p] /\ at'[p] = at[p]
           \/ pc[p] = "entry" /\ pc'[p] = "load" /\ at'[p] = Current(p).dir
           \/ pc[p] = "tables" /\ pc'[p] = "rest" /\ at'[p] = at[p]
           \/ pc[p] = "rest" /\ pc'[p] = "get" /\ at'[p] = at[p]
    PROVE  RegistryAt(p)'
<1> DEFINE es == Entries(p)
<1>1. Entries(p)' = es  BY DEF Entries
<1>2. TypeOK /\ TypeOK' /\ es \in Seq(Entry)  BY TypeStep, EntriesType DEF Consistent
<1>3. order[p] \in Seq(STRING) /\ has' \in [Dir -> SUBSET Schema]  BY <1>2 DEF TypeOK
<1>4. DaemonIs(es, pc[p], at[p], order[p], handles[p], open[p], has, rows)
  BY DEF RegistryAt
<1>5. DaemonIs(es, pc[p], at[p], order[p], handles[p], open[p], has', rows')
  BY <1>2, <1>3, <1>4, DaemonGrows
<1>6. Current(p).dir = es[Len(order[p]) + 1].dir  BY DEF Current
<1> HIDE DEF es
<1>7. DaemonIs(es, pc'[p], at'[p], order'[p], handles'[p], open'[p], has', rows')
  BY <1>5, <1>6 DEF DaemonIs
<1> QED  BY <1>1, <1>7 DEF RegistryAt

\* A daemon that fails.
LEMMA DaemonGivesUp ==
    ASSUME Consistent, Next, NEW p \in Proc,
           \A d \in Dir : has[d] \subseteq has'[d] /\ rows[d] \subseteq rows'[d],
           RegistryAt(p), job[p].op = "daemon", pc[p] \in Registering,
           RegistryFails(p)
    PROVE  RegistryAt(p)'
<1> DEFINE es == Entries(p)
<1>1. TypeOK /\ TypeOK' /\ es \in Seq(Entry)  BY TypeStep, EntriesType DEF Consistent
<1>2. pc'[p] = "failed" /\ job'[p] = job[p] /\ order'[p] = order[p]
      /\ handles'[p] = handles[p]
  BY <1>1, RegistryFailsEffect
<1>3. Entries(p)' = es  BY <1>2 DEF Entries
<1>4. order[p] \in Seq(STRING) /\ has' \in [Dir -> SUBSET Schema]  BY <1>1 DEF TypeOK
<1>5. DaemonIs(es, pc[p], at[p], order[p], handles[p], open[p], has, rows)
  BY DEF RegistryAt, Registering
<1>6. DaemonIs(es, pc[p], at[p], order[p], handles[p], open[p], has', rows')
  BY <1>1, <1>4, <1>5, DaemonGrows
<1>7. open'[p] \subseteq LeftOpen(p)  BY <1>1 DEF RegistryFails, TypeOK
<1>8. open'[p] \subseteq {x \in open[p] : ~ (x[1] \in DOMAIN handles[p] /\ handles[p][x[1]] = x[2])}
  BY <1>7 DEF LeftOpen
<1>9. DaemonIs(es, "failed", at'[p], order[p], handles[p], open'[p], has', rows')
  BY <1>1, <1>4, <1>6, <1>8, DaemonFails
<1> QED  BY <1>2, <1>3, <1>9 DEF RegistryAt

LEMMA RegistryStep ==
    ASSUME Consistent, NEW p \in Proc, ProcStep(p)
    PROVE  RegistryAt(p)'
<1>1. /\ TypeOK /\ TypeOK' /\ Next /\ FitsAt(p) /\ RegistryAt(p) /\ SchemaAt(p)
      /\ FitsAt(p)'
      /\ \A d \in Dir : has[d] \subseteq has'[d] /\ rows[d] \subseteq rows'[d]
  BY Kinds, TypeStep, FitsAtAll, FitsStep, RegistryAtAll, SchemaAtAll, DatabasesGrow
     DEF Consistent
<1>2. CASE Gone(p)
  <2>1. job'[p].op # "daemon" /\ order'[p] = <<>> /\ handles'[p] = Nothing
        /\ open'[p] = {}
    BY <1>1, <1>2, GoneEffect, NoJobType
  <2> QED  BY <2>1 DEF RegistryAt
<1>3. CASE RegistryFails(p) /\ job[p].op = "daemon" /\ pc[p] \in Registering
  BY <1>1, <1>3, DaemonGivesUp
<1>4. CASE GivesUp(p)  BY <1>1, <1>2, <1>3, <1>4, GivesUpEffect
<1>5. CASE \E j \in Job : Launch(p, j)
  <2>1. PICK j \in Job : pc'[p] = FirstStep(j.op) /\ job'[p] = j
    BY <1>1, <1>5 DEF Launch, Goes, TypeOK
  <2>2. pc[p] = "idle" /\ UNCHANGED regVars  BY <1>5 DEF Launch
  <2>3. job[p].op # "daemon"  BY <1>1, <2>2, NoJobType DEF FitsAt
  <2>4. order'[p] = <<>> /\ handles'[p] = Nothing /\ open'[p] = {}
    BY <1>1, <2>2, <2>3 DEF RegistryAt, regVars
  <2>5. j.op = "daemon" => pc'[p] = "list"  BY <2>1 DEF FirstStep
  <2> QED  BY <2>1, <2>4, <2>5 DEF RegistryAt
<1>6. CASE ListIsRead(p) /\ ~ Gone(p)
  <2>1. pc[p] = "list" /\ pc'[p] = "entry" /\ job'[p] = job[p]
        /\ UNCHANGED regVars /\ Entries(p) # <<>> /\ Distinct(Entries(p))
    BY <1>1, <1>6 DEF ListIsRead, Goes, TypeOK
  <2>2. job[p].op = "daemon"  BY <1>1, <2>1 DEF FitsAt
  <2>3. order'[p] = <<>> /\ handles'[p] = Nothing /\ open'[p] = {}
    BY <1>1, <2>1 DEF RegistryAt, regVars
  <2> DEFINE es == Entries(p)
  <2>4. es \in Seq(Entry) /\ Entries(p)' = es
    BY <1>1, <2>1, <2>2, EntriesType DEF Entries
  <2>5. Len(es) > 0 /\ Distinct(es)  BY <2>1, <2>4
  <2> HIDE DEF es
  <2>6. DaemonIs(es, "entry", at'[p], <<>>, Nothing, {}, has', rows')
    BY <2>4, <2>5, NothingIsEmpty DEF DaemonIs
  <2> QED  BY <2>1, <2>2, <2>3, <2>4, <2>6 DEF RegistryAt
<1>7. CASE EntryIsFound(p) /\ ~ RegistryFails(p)
  <2>1. pc[p] = "entry" /\ pc'[p] = "load" /\ job'[p] = job[p] /\ UNCHANGED regVars
        /\ at'[p] = Current(p).dir
    BY <1>1, <1>7 DEF EntryIsFound, Goes, TypeOK
  <2>2. job[p].op = "daemon"  BY <1>1, <2>1 DEF FitsAt
  <2>3. order'[p] = order[p] /\ handles'[p] = handles[p] /\ open'[p] = open[p]
    BY <2>1 DEF regVars
  <2> QED  BY <1>1, <2>1, <2>2, <2>3, DaemonStands
<1>8. CASE (EntryIsFound(p) \/ EntryIsRegistered(p)) /\ RegistryFails(p)
  <2>1. pc[p] \in {"entry", "get"}  BY <1>8 DEF EntryIsFound, EntryIsRegistered
  <2>2. job[p].op = "daemon" /\ pc[p] \in Registering
    BY <1>1, <2>1 DEF FitsAt, Registering
  <2> QED  BY <1>3, <1>8, <2>2
<1>9. CASE EntryIsRegistered(p) /\ ~ RegistryFails(p)
  <2> DEFINE es == Entries(p)
             n == Len(order[p])
  <2>1. /\ pc[p] = "get" /\ rows[at[p]] # {} /\ job'[p] = job[p]
        /\ at'[p] = at[p] /\ open'[p] = open[p]
        /\ order' = [order EXCEPT ![p] = Append(order[p], Current(p).slug)]
        /\ handles' = [handles EXCEPT ![p] =
                 [s \in DOMAIN handles[p] \union {Current(p).slug} |->
                    IF s = Current(p).slug THEN at[p] ELSE handles[p][s]]]
        /\ pc'[p] = IF n + 1 = Len(es) THEN "listening" ELSE "entry"
        /\ UNCHANGED diskVars
    BY <1>1, <1>9 DEF EntryIsRegistered, Goes, TypeOK
  <2>2. job[p].op = "daemon" /\ has[at[p]] = Schema
    BY <1>1, <2>1 DEF FitsAt, SchemaAt, Users
  <2>3. es \in Seq(Entry) /\ Entries(p)' = es
    BY <1>1, <2>1, <2>2, EntriesType DEF Entries
  <2>4. DaemonIs(es, "get", at[p], order[p], handles[p], open[p], has, rows)
    BY <1>1, <2>1, <2>2 DEF RegistryAt
  <2>5. Current(p).slug = es[n + 1].slug  BY DEF Current
  <2> DEFINE s == IF n + 1 = Len(es) THEN "listening" ELSE "entry"
             slug == es[n + 1].slug
             hnd == [x \in DOMAIN handles[p] \union {slug} |->
                       IF x = slug THEN at[p] ELSE handles[p][x]]
  <2>6. order'[p] = Append(order[p], slug)  BY <1>1, <2>1, <2>5 DEF TypeOK
  <2>7. handles'[p] = hnd
    <3>1. handles' = [handles EXCEPT ![p] = hnd]  BY <2>1, <2>5
    <3> HIDE DEF hnd
    <3> QED  BY <1>1, <3>1 DEF TypeOK
  <2>8. order[p] \in Seq(STRING)  BY <1>1 DEF TypeOK
  <2>9. DaemonIs(es, s, at[p], Append(order[p], slug), hnd, open[p], has, rows)
    <3> HIDE DEF es
    <3> QED  BY <2>1, <2>2, <2>3, <2>4, <2>8, DaemonRegisters
  <2>10. has' = has /\ rows' = rows  BY <2>1 DEF diskVars
  <2> HIDE DEF es, slug, hnd
  <2>11. DaemonIs(es, s, at'[p], order'[p], handles'[p], open'[p], has', rows')
    BY <2>1, <2>6, <2>7, <2>9, <2>10
  <2>12. pc'[p] = s /\ s # "list"  BY <2>1 DEF es
  <2> QED  BY <2>1, <2>2, <2>3, <2>11, <2>12 DEF RegistryAt
<1>10. CASE \/ Stat(p) \/ Truncate(p) \/ Write(p) \/ FindProjectRoot(p)
            \/ CreateProject(p) \/ Report(p) \/ Configure(p) \/ ConfigSet(p)
  <2>1. job[p].op # "daemon"
    BY <1>1, <1>10 DEF FitsAt, Stat, Truncate, Write, FindProjectRoot,
                       CreateProject, Report, Configure, ConfigSet
  <2>2. CASE ConfigSet(p)
    <3>1. job'[p] = NoJob /\ UNCHANGED regVars
      BY <1>1, <2>2 DEF ConfigSet, TypeOK
    <3> QED  BY <1>1, <2>1, <3>1, NoJobType, NoDaemon DEF regVars
  <2>3. CASE ~ Gone(p) /\ ~ ConfigSet(p)
    <3>1. job' = job /\ UNCHANGED regVars
      BY <1>10, <2>3 DEF Stat, Truncate, Write, FindProjectRoot, CreateProject,
                         Report, Configure
    <3> QED  BY <1>1, <2>1, <3>1, NoDaemon DEF regVars
  <2> QED  BY <1>2, <2>2, <2>3
<1>11. CASE Load(p) /\ ~ GivesUp(p)
  <2>1. pc[p] = "load" /\ pc'[p] = "tables" /\ job' = job /\ at' = at
        /\ order' = order /\ handles' = handles /\ UNCHANGED diskVars
        /\ open' = IF job[p].op = "daemon"
                   THEN [open EXCEPT ![p] = open[p] \union {Connection(p)}]
                   ELSE open
    BY <1>1, <1>11 DEF Load, Goes, TypeOK
  <2>2. CASE job[p].op # "daemon"  BY <1>1, <2>1, <2>2, NoDaemon
  <2>3. CASE job[p].op = "daemon"
    <3> DEFINE es == Entries(p)
               now == open[p] \union {<<es[Len(order[p]) + 1].slug, at[p]>>}
    <3>1. es \in Seq(Entry) /\ Entries(p)' = es
      BY <1>1, <2>1, <2>3, EntriesType DEF Entries
    <3>2. DaemonIs(es, "load", at[p], order[p], handles[p], open[p], has, rows)
      BY <1>1, <2>1, <2>3 DEF RegistryAt
    <3>3. order[p] \in Seq(STRING)  BY <1>1 DEF TypeOK
    <3>4. DaemonIs(es, "tables", at[p], order[p], handles[p], now, has, rows)
      <4> HIDE DEF es
      <4> QED  BY <3>1, <3>2, <3>3, DaemonLoads
    <3>5. open' = [open EXCEPT ![p] = now]
      BY <2>1, <2>3 DEF Connection, Current
    <3> HIDE DEF now
    <3>6. open'[p] = now  BY <1>1, <3>5 DEF TypeOK
    <3>7. has' = has /\ rows' = rows  BY <2>1 DEF diskVars
    <3> HIDE DEF es
    <3>8. DaemonIs(es, pc'[p], at'[p], order'[p], handles'[p], open'[p], has', rows')
      BY <2>1, <3>4, <3>6, <3>7
    <3> QED  BY <2>1, <2>3, <3>1, <3>8 DEF RegistryAt
  <2> QED  BY <2>2, <2>3
<1>12. CASE (CreateTables(p) \/ CreateRest(p)) /\ ~ GivesUp(p)
  <2>1. job' = job /\ at' = at /\ UNCHANGED regVars
        /\ \/ pc[p] = "tables" /\ pc'[p] = "rest"
           \/ pc[p] = "rest" /\ pc'[p] = AfterOpen(job[p].op)
    BY <1>1, <1>12 DEF CreateTables, CreateRest, Goes, TypeOK
  <2>2. job[p].op = "daemon" => AfterOpen(job[p].op) = "get"  BY DEF AfterOpen
  <2>3. order' = order /\ handles' = handles /\ open' = open  BY <2>1 DEF regVars
  <2>4. CASE job[p].op # "daemon"  BY <1>1, <2>1, <2>3, <2>4, NoDaemon
  <2>5. CASE job[p].op = "daemon"
    BY <1>1, <2>1, <2>2, <2>3, <2>5, DaemonStands
  <2> QED  BY <2>4, <2>5
<1>13. CASE Leave(p) \/ Stop(p)  BY <1>2, <1>13 DEF Leave, Stop
<1>14. CASE Fails(p)  BY <1>2, <1>4, <1>14 DEF Fails
<1> QED
  BY <1>2, <1>4, <1>5, <1>6, <1>7, <1>8, <1>9, <1>10, <1>11, <1>12, <1>13, <1>14
     DEF ProcStep

LEMMA RegistryGrowsStep ==
    ASSUME Consistent, Next
    PROVE  RegistryGrows'
<1>1. SUFFICES ASSUME NEW q \in Proc  PROVE RegistryAt(q)'
  BY RegistryAtAll
<1>2. RegistryAt(q) /\ TypeOK /\ FitsAt(q)
  BY RegistryAtAll, FitsAtAll DEF Consistent
<1>3. ASSUME AllStand, has' = has, rows' = rows  PROVE RegistryAt(q)'
  BY <1>2, <1>3 DEF AllStand, procVars, regVars, RegistryAt, Entries
<1>4. CASE CallStep  BY <1>3, <1>4, CallsStand DEF diskVars
<1>5. CASE RemovalStep
  <2>1. AllStand /\ pc[q] = "idle"  BY <1>5, RemovalsStand DEF Quiet
  <2>2. job[q].op # "daemon"  BY <1>2, <2>1, NoJobType DEF FitsAt
  <2> QED  BY <1>2, <2>1, <2>2, NoDaemon DEF AllStand, procVars, regVars
<1>6. ASSUME NEW p \in Proc, ProcStep(p)  PROVE RegistryAt(q)'
  <2>1. CASE q = p  BY <1>6, <2>1, RegistryStep
  <2>2. CASE q # p
    <3>1. OthersStand(p) /\ \A d \in Dir : has[d] \subseteq has'[d] /\ rows[d] \subseteq rows'[d]
      BY <1>2, <1>6, OthersStandStep, DatabasesGrow
    <3>2. pc'[q] = pc[q] /\ job'[q] = job[q] /\ at'[q] = at[q]
          /\ order'[q] = order[q] /\ handles'[q] = handles[q] /\ open'[q] = open[q]
      BY <2>2, <3>1 DEF OthersStand
    <3>3. CASE job[q].op = "daemon" /\ pc[q] # "list"
      BY <1>2, <3>1, <3>2, <3>3, DaemonStands
    <3>4. CASE ~ (job[q].op = "daemon" /\ pc[q] # "list")
      BY <1>2, <3>2, <3>4 DEF RegistryAt
    <3> QED  BY <3>3, <3>4
  <2> QED  BY <2>1, <2>2
<1> QED  BY <1>4, <1>5, <1>6, Kinds

-----------------------------------------------------------------------------
(* Inits.                                                                   *)

\* What holds of the init p of a directory.
AloneAt(p, d) ==
    /\ made[d] = None
    /\ pc[p] \in {"tables", "rest", "insert", "report"} => file[d] = "whole"
    /\ pc[p] # "report" => kept[d] \/ rows[d] = {}
    /\ pc[p] = "report" =>
          /\ job[p].name \in rows[d]
          /\ kept[d] \/ rows[d] = {job[p].name}

\* OneInit and InitHonest, for one directory.
DirAt(d) ==
    ~ raced[d] =>
        /\ \A p, q \in Proc : Initializing(p, d) /\ Initializing(q, d) => p = q
        /\ \A p \in Proc : Initializing(p, d) => AloneAt(p, d)
        /\ file[d] = "absent" => made[d] = None /\ (kept[d] \/ rows[d] = {})
        /\ made[d] # None =>
              /\ file[d] = "whole"
              /\ has[d] = Schema
              /\ made[d] \in rows[d]
              /\ ~ kept[d] => rows[d] = {made[d]}

LEMMA DirAtAll ==
    /\ OneInit /\ InitHonest <=> \A d \in Dir : DirAt(d)
    /\ (OneInit /\ InitHonest)' <=> \A d \in Dir : DirAt(d)'
<1>1. OneInit /\ InitHonest <=> \A d \in Dir : DirAt(d)
  BY Zenon DEF OneInit, InitHonest, DirAt, AloneAt
<1>2. (OneInit /\ InitHonest)' <=> \A d \in Dir : DirAt(d)'
  BY Zenon DEF OneInit, InitHonest, DirAt, AloneAt
<1> QED  BY <1>1, <1>2

\* A step of p that leaves the directory's files, its row and its history.
LEMMA DirStands ==
    ASSUME Consistent, NEW p \in Proc, ProcStep(p), NEW d \in Dir, DirAt(d),
           file'[d] = file[d], rows'[d] = rows[d],
           made'[d] = made[d], raced'[d] = raced[d], kept'[d] = kept[d],
           Initializing(p, d)' =>
              /\ Initializing(p, d) /\ job'[p] = job[p]
              /\ pc'[p] = "report" <=> pc[p] = "report"
              /\ pc'[p] \in {"tables", "rest", "insert"} =>
                    pc[p] \in {"tables", "rest", "insert"}
    PROVE  DirAt(d)'
<1>1. SUFFICES ASSUME ~ raced[d]  PROVE DirAt(d)'
  BY DEF DirAt
<1>2. OthersStand(p)  BY OthersStandStep DEF Consistent
<1>3. \A q \in Proc \ {p} : Initializing(q, d)' <=> Initializing(q, d)
  BY <1>2 DEF OthersStand, Initializing
<1>4. \A q, r \in Proc : Initializing(q, d)' /\ Initializing(r, d)' => q = r
  BY <1>1, <1>3 DEF DirAt
<1>5. ASSUME NEW q \in Proc, Initializing(q, d)'  PROVE AloneAt(q, d)'
  <2>1. Initializing(q, d)  BY <1>3, <1>5
  <2>2. AloneAt(q, d)  BY <1>1, <2>1 DEF DirAt
  <2>3. CASE q = p  BY <1>5, <2>2, <2>3 DEF AloneAt
  <2>4. CASE q # p  BY <1>2, <2>2, <2>4 DEF AloneAt, OthersStand
  <2> QED  BY <2>3, <2>4
<1>6. has[d] = Schema => has'[d] = Schema
  <2>1. TypeOK' /\ has[d] \subseteq has'[d]  BY TypeStep, Kinds, DatabasesGrow
  <2>2. has' \in [Dir -> SUBSET Schema]  BY <2>1 DEF TypeOK
  <2>3. has'[d] \subseteq Schema  BY <2>2
  <2> QED  BY <2>1, <2>3
<1> QED  BY <1>1, <1>4, <1>5, <1>6 DEF DirAt

LEMMA DirStep ==
    ASSUME Consistent, NEW p \in Proc, ProcStep(p), NEW d \in Dir, DirAt(d)
    PROVE  DirAt(d)'
<1>1. /\ TypeOK /\ FitsAt(p) /\ SchemaAt(p) /\ OthersStand(p)
  BY FitsAtAll, SchemaAtAll, OthersStandStep DEF Consistent
<1>2. \A q \in Proc \ {p} : Initializing(q, d)' <=> Initializing(q, d)
  BY <1>1 DEF OthersStand, Initializing
<1>3. Gone(p) => ~ Initializing(p, d)'
  BY <1>1, GoneEffect DEF Initializing, Past
<1>4. RegistryFails(p) => ~ Initializing(p, d)'
  BY <1>1, RegistryFailsEffect DEF Initializing, Past
<1>5. GivesUp(p) => ~ Initializing(p, d)'  BY <1>3, <1>4 DEF GivesUp
<1>6. CASE UNCHANGED <<file, rows, initVars>> /\ ~ Initializing(p, d)'
  BY <1>6, DirStands DEF initVars
<1>7. CASE Stat(p)
  <2>1. CASE Gone(p) \/ d # at[p]
    <3>1. file' = file /\ rows' = rows /\ made' = made /\ kept' = kept
          /\ raced'[d] = raced[d]
      BY <1>1, <1>7, <2>1, GoneEffect DEF Stat, TypeOK, diskVars, Goes
    <3>2. ~ Initializing(p, d)'
      <4>1. CASE ~ Gone(p)
        <5>1. at'[p] = at[p]  BY <1>7, <4>1 DEF Stat
        <5> QED  BY <2>1, <4>1, <5>1 DEF Initializing
      <4> QED  BY <1>3, <4>1
    <3> QED  BY <3>1, <3>2, DirStands
  <2>2. CASE ~ Gone(p) /\ d = at[p]
    <3>1. /\ file[d] = "absent" /\ pc'[p] = "truncate"
          /\ file' = file /\ rows' = rows /\ made' = made /\ kept' = kept
          /\ raced'[d] = (raced[d] \/ \E q \in Proc \ {p} : Initializing(q, d))
      BY <1>1, <1>7, <2>2 DEF Stat, Initialized, Goes, TypeOK, diskVars
    <3>2. SUFFICES ASSUME ~ raced'[d]  PROVE DirAt(d)'
      BY DEF DirAt
    <3>3. ~ raced[d] /\ \A q \in Proc \ {p} : ~ Initializing(q, d)
      BY <3>1, <3>2
    <3>4. made[d] = None /\ (kept[d] \/ rows[d] = {})
      BY <3>1, <3>3 DEF DirAt
    <3>5. \A q \in Proc \ {p} : ~ Initializing(q, d)'  BY <1>2, <3>3
    <3>6. AloneAt(p, d)'  BY <3>1, <3>4 DEF AloneAt
    <3> QED  BY <3>1, <3>4, <3>5, <3>6 DEF DirAt
  <2> QED  BY <2>1, <2>2
<1>8. CASE Truncate(p) \/ Write(p)
  <2>1. /\ pc[p] \in Past /\ job[p].op = "init" /\ at[p] \in Dir
        /\ pc[p] \notin {"tables", "rest", "insert", "report"}
    BY <1>1, <1>8 DEF FitsAt, Truncate, Write, Past
  <2>2. /\ file'[d] = IF d = at[p] THEN IF Truncate(p) THEN "empty" ELSE "whole"
                      ELSE file[d]
        /\ rows' = rows /\ made' = made /\ kept' = kept /\ raced' = raced
        /\ job' = job /\ at' = at /\ pc'[p] \in {"write", "tables"}
        /\ pc'[p] = "tables" => Write(p)
    BY <1>1, <1>8 DEF Truncate, Write, TypeOK, initVars, Goes
  <2>3. CASE d # at[p]
    <3>1. ~ Initializing(p, d)'  BY <2>2, <2>3 DEF Initializing
    <3> QED  BY <2>2, <2>3, <3>1, DirStands
  <2>4. CASE d = at[p]
    <3>1. SUFFICES ASSUME ~ raced[d]  PROVE DirAt(d)'
      BY <2>2 DEF DirAt
    <3>2. Initializing(p, d)  BY <2>1, <2>4 DEF Initializing
    <3>3. AloneAt(p, d) /\ \A q \in Proc \ {p} : ~ Initializing(q, d)
      BY <3>1, <3>2 DEF DirAt
    <3>4. \A q \in Proc \ {p} : ~ Initializing(q, d)'  BY <1>2, <3>3
    <3>5. made[d] = None /\ (kept[d] \/ rows[d] = {})
      BY <2>1, <3>3 DEF AloneAt
    <3>6. pc'[p] = "tables" => file'[d] = "whole"
      <4>1. ~ (Truncate(p) /\ Write(p))  BY DEF Truncate, Write
      <4> QED  BY <2>2, <2>4, <4>1
    <3>7. AloneAt(p, d)'  BY <2>2, <3>5, <3>6 DEF AloneAt
    <3>8. file'[d] # "absent"  BY <2>2, <2>4
    <3> QED  BY <2>2, <3>4, <3>5, <3>7, <3>8 DEF DirAt
  <2> QED  BY <2>3, <2>4
<1>9. CASE Load(p)
  <2>1. UNCHANGED <<file, rows, initVars>>  BY <1>9 DEF Load, diskVars
  <2>2. CASE GivesUp(p)  BY <1>5, <1>6, <2>1, <2>2
  <2>3. CASE ~ GivesUp(p)
    <3>1. job' = job /\ job[p].op # "init"  BY <1>1, <1>9, <2>3 DEF Load, FitsAt
    <3> QED  BY <1>6, <2>1, <3>1 DEF Initializing
  <2> QED  BY <2>2, <2>3
<1>10. CASE CreateTables(p) \/ CreateRest(p)
  <2>1. UNCHANGED <<file, rows, initVars>>
    BY <1>10 DEF CreateTables, CreateRest
  <2>2. CASE GivesUp(p)  BY <1>5, <1>6, <2>1, <2>2
  <2>3. CASE ~ GivesUp(p)
    <3>1. /\ job' = job /\ at' = at /\ pc[p] \in {"tables", "rest"}
          /\ pc'[p] = "rest" \/ pc'[p] = AfterOpen(job[p].op)
      BY <1>1, <1>10, <2>3 DEF CreateTables, CreateRest, Goes, TypeOK
    <3>2. job[p].op = "init" => AfterOpen(job[p].op) = "insert"  BY DEF AfterOpen
    <3>3. Initializing(p, d)' =>
             Initializing(p, d) /\ pc'[p] \in {"rest", "insert"}
      BY <3>1, <3>2 DEF Initializing, Past
    <3> QED  BY <2>1, <3>1, <3>3, DirStands DEF initVars
  <2> QED  BY <2>2, <2>3
<1>11. CASE CreateProject(p)
  <2>1. CASE Gone(p) /\ rows' = rows
    BY <1>3, <1>6, <1>11, <2>1 DEF CreateProject
  <2>2. CASE ~ (Gone(p) /\ rows' = rows)
    <3> DEFINE more == rows[at[p]] \union {job[p].name}
    <3>1. /\ pc[p] = "insert" /\ pc'[p] = "report" /\ job' = job /\ at' = at
          /\ rows' = [rows EXCEPT ![at[p]] = more]
          /\ file' = file /\ UNCHANGED initVars
      BY <1>1, <1>11, <2>2 DEF CreateProject, Goes, TypeOK
    <3>2. job[p].op = "init" /\ at[p] \in Dir  BY <1>1, <3>1 DEF FitsAt
    <3>3. rows'[d] = IF d = at[p] THEN more ELSE rows[d]
      <4> HIDE DEF more
      <4> QED  BY <1>1, <3>1 DEF TypeOK
    <3>4. CASE d # at[p]
      <4>1. ~ Initializing(p, d)'  BY <3>1, <3>4 DEF Initializing
      <4> QED  BY <3>1, <3>3, <3>4, <4>1, DirStands DEF initVars
    <3>5. CASE d = at[p]
      <4>1. SUFFICES ASSUME ~ raced[d]  PROVE DirAt(d)'
        BY <3>1 DEF DirAt, initVars
      <4>2. Initializing(p, d)  BY <3>1, <3>2, <3>5 DEF Initializing, Past
      <4>3. AloneAt(p, d) /\ \A q \in Proc \ {p} : ~ Initializing(q, d)
        BY <4>1, <4>2 DEF DirAt
      <4>4. \A q \in Proc \ {p} : ~ Initializing(q, d)'  BY <1>2, <4>3
      <4>5. made[d] = None /\ (kept[d] \/ rows[d] = {}) /\ file[d] = "whole"
        BY <3>1, <4>3 DEF AloneAt
      <4>6. /\ job[p].name \in rows'[d]
            /\ kept[d] \/ rows'[d] = {job[p].name}
        BY <3>3, <3>5, <4>5
      <4>7. AloneAt(p, d)'  BY <3>1, <4>5, <4>6 DEF AloneAt, initVars
      <4> QED  BY <3>1, <4>4, <4>5, <4>7 DEF DirAt, initVars
    <3> QED  BY <3>4, <3>5
  <2> QED  BY <2>1, <2>2
<1>12. CASE Report(p)
  <2>1. /\ pc[p] = "report" /\ Gone(p) /\ made' = [made EXCEPT ![at[p]] = job[p].name]
        /\ file' = file /\ has' = has /\ rows' = rows /\ raced' = raced /\ kept' = kept
    BY <1>12 DEF Report, diskVars
  <2>2. job[p].op = "init" /\ at[p] \in Dir /\ has[at[p]] = Schema
    BY <1>1, <2>1 DEF FitsAt, SchemaAt, Users
  <2>3. made'[d] = IF d = at[p] THEN job[p].name ELSE made[d]
    BY <1>1, <2>1 DEF TypeOK
  <2>4. ~ Initializing(p, d)'  BY <1>3, <2>1
  <2>5. CASE d # at[p]  BY <2>1, <2>3, <2>4, <2>5, DirStands
  <2>6. CASE d = at[p]
    <3>1. SUFFICES ASSUME ~ raced[d]  PROVE DirAt(d)'
      BY <2>1 DEF DirAt
    <3>2. Initializing(p, d)  BY <2>1, <2>2, <2>6 DEF Initializing, Past
    <3>3. AloneAt(p, d) /\ \A q \in Proc \ {p} : ~ Initializing(q, d)
      BY <3>1, <3>2 DEF DirAt
    <3>4. \A q \in Proc : ~ Initializing(q, d)'  BY <1>2, <2>4, <3>3
    <3>5. /\ file[d] = "whole" /\ job[p].name \in rows[d]
          /\ kept[d] \/ rows[d] = {job[p].name}
      BY <2>1, <3>3 DEF AloneAt
    <3> QED  BY <2>1, <2>2, <2>3, <2>6, <3>4, <3>5 DEF DirAt
  <2> QED  BY <2>5, <2>6
<1>13. CASE \E j \in Job : Launch(p, j)
  <2>1. UNCHANGED <<file, rows, initVars>>  BY <1>13 DEF Launch, diskVars
  <2>2. pc'[p] \notin Past
    <3>1. PICK j \in Job : pc'[p] = FirstStep(j.op)
      BY <1>1, <1>13 DEF Launch, Goes, TypeOK
    <3> QED  BY <3>1 DEF FirstStep, Past
  <2> QED  BY <1>6, <2>1, <2>2 DEF Initializing
<1>14. CASE ListIsRead(p) \/ EntryIsFound(p) \/ EntryIsRegistered(p) \/ Leave(p)
  <2>1. UNCHANGED <<file, rows, initVars>>
    BY <1>14 DEF ListIsRead, EntryIsFound, EntryIsRegistered, Leave, diskVars
  <2>2. CASE Gone(p) \/ RegistryFails(p)  BY <1>3, <1>4, <1>6, <2>1, <2>2
  <2>3. CASE ~ (Gone(p) \/ RegistryFails(p))
    <3>1. pc'[p] \in {"entry", "load", "listening"}
      BY <1>1, <1>14, <2>3 DEF ListIsRead, EntryIsFound, EntryIsRegistered, Leave,
                               Goes, TypeOK
    <3> QED  BY <1>6, <2>1, <3>1 DEF Initializing, Past
  <2> QED  BY <2>2, <2>3
<1>15. CASE FindProjectRoot(p) \/ Configure(p) \/ ConfigSet(p) \/ Stop(p)
  <2>1. UNCHANGED <<file, rows, initVars>>
    BY <1>15 DEF FindProjectRoot, Configure, ConfigSet, Stop, diskVars
  <2>2. CASE Gone(p)  BY <1>3, <1>6, <2>1, <2>2
  <2>3. CASE ~ Gone(p)
    <3>1. pc'[p] \in {"load", "running", "idle"} /\ (pc'[p] = "load" => job' = job)
      BY <1>1, <1>15, <2>3 DEF FindProjectRoot, Configure, ConfigSet, Stop, Goes,
                               TypeOK
    <3> QED  BY <1>6, <2>1, <3>1 DEF Initializing, Past
  <2> QED  BY <2>2, <2>3
<1>16. CASE Fails(p)
  <2>1. UNCHANGED <<file, rows, initVars>>  BY <1>16 DEF Fails, diskVars
  <2> QED  BY <1>3, <1>5, <1>6, <1>16, <2>1 DEF Fails
<1> QED
  BY <1>7, <1>8, <1>9, <1>10, <1>11, <1>12, <1>13, <1>14, <1>15, <1>16 DEF ProcStep

LEMMA InitStep ==
    ASSUME Consistent, InitHonest, Next
    PROVE  OneInit' /\ InitHonest'
<1>1. \A d \in Dir : DirAt(d)  BY DirAtAll DEF Consistent
<1>2. SUFFICES ASSUME NEW d \in Dir  PROVE DirAt(d)'
  BY DirAtAll
<1>3. DirAt(d)  BY <1>1
<1>4. ASSUME NEW p \in Proc, ProcStep(p)  PROVE DirAt(d)'
  BY <1>3, <1>4, DirStep
<1>5. CASE CallStep
  BY <1>3, <1>5, CallsStand
     DEF DirAt, AloneAt, Initializing, AllStand, procVars, diskVars, initVars
<1>6. CASE RemovalStep
  <2>1. \A p \in Proc : pc'[p] = "idle"
    BY <1>6, RemovalsStand DEF Quiet, AllStand, procVars
  <2>2. \A p \in Proc : ~ Initializing(p, d)'  BY <2>1 DEF Initializing, Past
  <2>3. PICK e \in Dir : RemoveConfig(e) \/ RemoveDatabase(e)
    BY <1>6 DEF RemovalStep
  <2>4. TypeOK  BY DEF Consistent
  <2>5. CASE d # e
    <3>1. /\ file'[d] = file[d] /\ rows'[d] = rows[d] /\ has'[d] = has[d]
          /\ made'[d] = made[d] /\ raced'[d] = raced[d] /\ kept'[d] = kept[d]
      BY <2>3, <2>4, <2>5 DEF RemoveConfig, RemoveDatabase, TypeOK
    <3> QED  BY <1>3, <2>2, <3>1 DEF DirAt
  <2>6. CASE d = e
    <3>1. made'[d] = None
      BY <2>3, <2>4, <2>6 DEF RemoveConfig, RemoveDatabase, TypeOK
    <3>2. kept'[d] \/ rows'[d] = {}
      <4>1. CASE RemoveConfig(e)
        <5>1. kept'[d] = (rows[d] # {}) /\ rows' = rows
          BY <2>4, <2>6, <4>1 DEF RemoveConfig, TypeOK
        <5> QED  BY <5>1
      <4>2. CASE RemoveDatabase(e)
        BY <2>4, <2>6, <4>2 DEF RemoveDatabase, TypeOK
      <4> QED  BY <2>3, <4>1, <4>2
    <3> QED  BY <2>2, <3>1, <3>2 DEF DirAt
  <2> QED  BY <2>5, <2>6
<1> QED  BY <1>4, <1>5, <1>6, Kinds

-----------------------------------------------------------------------------
(* The theorems.                                                            *)

\* Consistent is inductive together with the two properties that follow the
\* history of a directory.
Together == Consistent /\ InitHonest /\ PostsAreWhole

LEMMA AtFirst == Init => Together
<1> SUFFICES ASSUME Init  PROVE Together
  OBVIOUS
<1>1. /\ pc = [p \in Proc |-> "idle"]
      /\ job = [p \in Proc |-> NoJob]
      /\ at = [p \in Proc |-> None]
      /\ order = [p \in Proc |-> <<>>]
      /\ handles = [p \in Proc |-> Nothing]
      /\ open = [p \in Proc |-> {}]
      /\ settings = [p \in Proc |-> NoSettings]
      /\ host = [c \in Call |-> None]
      /\ left = [c \in Call |-> Nothing]
      /\ made = [d \in Dir |-> None]
      /\ raced = [d \in Dir |-> FALSE]
      /\ kept = [d \in Dir |-> FALSE]
      /\ told = conf
      /\ doubt = [d \in Dir |-> {}]
      /\ spent = [e \in Event |-> 0]
  BY DEF Init
<1>2. PICK is \in First :
          /\ file = [d \in Dir |->
                       IF is[d] = "nothing" THEN "absent" ELSE "whole"]
          /\ has = [d \in Dir |-> CASE is[d] = "nothing" -> {}
                                    [] is[d] = "old"     -> OldSchema
                                    [] is[d] = "project" -> Schema]
          /\ rows = [d \in Dir |->
                       IF is[d] = "nothing" THEN {} ELSE {FirstName}]
          /\ conf = [d \in Dir |->
                       IF is[d] = "project" THEN FirstTable ELSE Blank]
  BY DEF Init
<1>3. is \in [Dir -> {"nothing", "old", "project"}]  BY SetupAssumption
<1>4. TypeOK
  <2>1. ProcType
    BY <1>1, NoSettingsType DEF ProcType, Step
  <2>2. CallType  BY <1>1, BodiesType DEF CallType
  <2>3. TableType  BY <1>1, <1>2, BlankType, SetupAssumption DEF TableType
  <2>4. DiskType
    <3>1. file \in [Dir -> {"absent", "empty", "whole"}]  BY <1>2
    <3>2. rows \in [Dir -> SUBSET Name]  BY <1>2, SetupAssumption
    <3> DEFINE had(d) == CASE is[d] = "nothing" -> {}
                           [] is[d] = "old"     -> OldSchema
                           [] is[d] = "project" -> Schema
    <3>3. ASSUME NEW d \in Dir  PROVE had(d) \in SUBSET Schema
      <4>1. is[d] \in {"nothing", "old", "project"}  BY <1>3
      <4> QED  BY <4>1 DEF OldSchema
    <3>4. has \in [Dir -> SUBSET Schema]
      <4>1. has = [d \in Dir |-> had(d)]  BY <1>2
      <4> HIDE DEF had
      <4> QED  BY <3>3, <4>1
    <3> QED  BY <3>1, <3>2, <3>4 DEF DiskType
  <2>5. HistoryType  BY <1>1 DEF HistoryType
  <2>6. SpentType  BY <1>1 DEF SpentType
  <2> QED  BY <2>1, <2>2, <2>3, <2>4, <2>5, <2>6, TypesApart
<1>5. StepsFit  BY <1>1 DEF StepsFit
<1>6. UsersHaveSchema  BY <1>1 DEF UsersHaveSchema
<1>7. \A p \in Proc, d \in Dir : ~ Initializing(p, d)
  BY <1>1 DEF Initializing, Past
<1>8. OneInit /\ InitHonest
  <2>1. ASSUME NEW d \in Dir  PROVE DirAt(d)
    BY <1>1, <1>2, <1>7 DEF DirAt
  <2> QED  BY <2>1, DirAtAll
<1>9. RegistryGrows
  <2>1. ASSUME NEW p \in Proc  PROVE RegistryAt(p)
    BY <1>1, NoJobType DEF RegistryAt
  <2> QED  BY <2>1, RegistryAtAll
<1>10. CallsAreHandled  BY <1>1 DEF CallsAreHandled
<1>11. \A c \in Call, d \in Dir : Pending(c, d) = {}  BY <1>1 DEF Pending
<1>12. PendingIsTold  BY <1>11 DEF PendingIsTold
<1>13. PostsAreWhole  BY <1>1 DEF PostsAreWhole
<1> QED
  BY <1>4, <1>5, <1>6, <1>8, <1>9, <1>10, <1>12, <1>13 DEF Together, Consistent

LEMMA TogetherStep == Together /\ [Next]_vars => Together'
<1> SUFFICES ASSUME Together, [Next]_vars  PROVE Together'
  OBVIOUS
<1> USE DEF Together
<1>1. CASE Next
  BY <1>1, TypeStep, StepsFitStep, UsersHaveSchemaStep, InitStep, RegistryGrowsStep,
     CallsAreHandledStep, TableStep DEF Consistent
<1>2. CASE UNCHANGED vars
  <2>1. UNCHANGED <<diskVars, tableVars, procVars, regVars, settings, callVars,
                    initVars, spent>>
    BY <1>2 DEF vars
  <2>2. UNCHANGED <<file, has, rows, conf, told, doubt, pc, job, at, order, handles,
                    open, settings, host, left, made, raced, kept, spent>>
    BY <2>1 DEF diskVars, tableVars, procVars, regVars, callVars, initVars
  <2>3. TypeOK'  BY <2>2 DEF Consistent, TypeOK
  <2>4. StepsFit'  BY <2>2 DEF Consistent, StepsFit
  <2>5. UsersHaveSchema'  BY <2>2 DEF Consistent, UsersHaveSchema
  <2>6. OneInit' /\ InitHonest'
    BY <2>2 DEF Consistent, OneInit, InitHonest, Initializing
  <2>7. RegistryGrows'
    <3>1. ASSUME NEW p \in Proc  PROVE RegistryAt(p)'
      <4>1. RegistryAt(p)  BY RegistryAtAll DEF Consistent
      <4> QED  BY <2>2, <4>1 DEF RegistryAt, Entries
    <3> QED  BY <3>1, RegistryAtAll
  <2>8. CallsAreHandled'  BY <2>2 DEF Consistent, CallsAreHandled
  <2>9. PendingIsTold' /\ PostsAreWhole'
    BY <2>2 DEF Consistent, PendingIsTold, PostsAreWhole, Sure, Pending
  <2> QED  BY <2>3, <2>4, <2>5, <2>6, <2>7, <2>8, <2>9 DEF Consistent
<1> QED  BY <1>1, <1>2

LEMMA Always == Spec => []Together
<1>1. Init => Together  BY AtFirst
<1>2. Together /\ [Next]_vars => Together'  BY TogetherStep
<1> QED  BY <1>1, <1>2, PTL DEF Spec

\* Consistent holds for every set of directories, names, command lines and
\* bodies, and for every number of processes and requests: the types, who has
\* which part of a schema, how far each init and each registry has come, and
\* what each request still has to store.
THEOREM Inductive == Spec => []Consistent
<1>1. Together => Consistent  BY DEF Together
<1> QED  BY <1>1, Always, PTL

\* A project that `init` has reported is whole, whatever other inits, commands
\* and failures there were, unless two inits raced (cli/init.go).
THEOREM InitIsHonest == Spec => []InitHonest
<1>1. Together => InitHonest  BY DEF Together
<1> QED  BY <1>1, Always, PTL

\* RegistryWhole, for one process.
AsListed(p) ==
    /\ pc[p] = "listening" =>
          LET es == Entries(p) IN
          /\ order[p] = [i \in DOMAIN es |-> es[i].slug]
          /\ DOMAIN handles[p] = {es[i].slug : i \in DOMAIN es}
          /\ \A i \in DOMAIN es :
                /\ handles[p][es[i].slug] = es[i].dir
                /\ has[es[i].dir] = Schema
                /\ rows[es[i].dir] # {}
          /\ open[p] = {<<es[i].slug, es[i].dir>> : i \in DOMAIN es}
    /\ pc[p] = "failed" =>
          open[p] \subseteq {<<Current(p).slug, Current(p).dir>>}

\* A multi-project daemon that listens has every project of its list, and one
\* that fails has closed the others (daemon/server.go, NewRegistry).
THEOREM RegistryIsWhole == Spec => []RegistryWhole
<1>1. Consistent => RegistryWhole
  <2> SUFFICES ASSUME Consistent, NEW p \in Proc,
                      pc[p] \in {"listening", "failed"}
               PROVE  AsListed(p)
    BY DEF RegistryWhole, AsListed
  <2> DEFINE es == Entries(p)
  <2>1. TypeOK /\ job[p].op = "daemon"
    BY FitsAtAll DEF Consistent, FitsAt
  <2>2. DaemonIs(es, pc[p], at[p], order[p], handles[p], open[p], has, rows)
    BY <2>1, RegistryAtAll DEF Consistent, RegistryAt
  <2>3. DOMAIN es = 1 .. Len(es)  BY <2>1, EntriesType
  <2>4. CASE pc[p] = "listening"
    <3>1. Len(order[p]) = Len(es)  BY <2>2, <2>4 DEF DaemonIs
    <3> HIDE DEF es
    <3>2. /\ order[p] = [i \in DOMAIN es |-> es[i].slug]
          /\ DOMAIN handles[p] = {es[i].slug : i \in DOMAIN es}
          /\ \A i \in DOMAIN es :
                /\ handles[p][es[i].slug] = es[i].dir
                /\ has[es[i].dir] = Schema
                /\ rows[es[i].dir] # {}
          /\ open[p] = {<<es[i].slug, es[i].dir>> : i \in DOMAIN es}
      BY <2>2, <2>3, <2>4, <3>1 DEF DaemonIs
    <3> QED  BY <2>4, <3>2 DEF es, AsListed
  <2>5. CASE pc[p] = "failed"
    BY <2>2, <2>5 DEF DaemonIs, Current, AsListed
  <2> QED  BY <2>4, <2>5
<1> QED  BY <1>1, Inductive, PTL

\* A key of the config table holds what it was told last, unless a write of it
\* was lost or had another beside it (server.go, handleConfig).
THEOREM NoPostIsTorn == Spec => []PostsAreWhole
<1>1. Together => PostsAreWhole  BY DEF Together
<1> QED  BY <1>1, Always, PTL

\* `orchestrator start` runs with what its flags and people told it, over the
\* defaults; the dry run and the cap by the flags first, the poll interval by
\* one of them (cli/orchestrator.go, orchestrator.LoadConfigFromDB).
THEOREM StartHeedsWhatItIsTold == Spec => StartsAsTold
<1>1. Together /\ [Next]_vars =>
        [\A p \in Proc : pc[p] = "configure" /\ pc'[p] = "running" =>
           Honours(settings'[p], job[p].flags, told[at[p]],
                   {k \in Key : Sure(at[p], k)})]_vars
  <2> SUFFICES ASSUME Together, Next, NEW p \in Proc,
                      pc[p] = "configure", pc'[p] = "running"
               PROVE  Honours(settings'[p], job[p].flags, told[at[p]],
                              {k \in Key : Sure(at[p], k)})
    OBVIOUS
  <2>1. TypeOK /\ FitsAt(p) /\ PostsAreWhole
    BY FitsAtAll DEF Together, Consistent
  <2>2. PICK q \in Proc : ProcStep(q)
    <3>1. pc' # pc  OBVIOUS
    <3>2. ~ CallStep /\ ~ RemovalStep
      BY <3>1, CallsStand, RemovalsStand DEF AllStand, procVars
    <3> QED  BY <3>2, Kinds
  <2>3. q = p
    <3>1. CASE q # p  BY <2>1, <2>2, <3>1, OthersStandStep DEF OthersStand
    <3> QED  BY <3>1
  <2>4. job[p].op \notin {"init", "daemon"} /\ job[p] \in Job /\ at[p] \in Dir
    BY <2>1 DEF FitsAt
  <2>5. ~ Gone(p)  BY <2>1, GoneEffect
  <2>6. ~ GivesUp(p)  BY <2>1, <2>4, <2>5 DEF GivesUp
  <2>7. Configure(p)
    BY <2>1, <2>2, <2>3, <2>5, <2>6 DEF ProcStep, Launch, ListIsRead, EntryIsFound,
       EntryIsRegistered, Leave, Stat, Truncate, Write, FindProjectRoot, Load,
       CreateTables, CreateRest, CreateProject, Report, ConfigSet, Stop, Fails
  <2> DEFINE f == job[p].flags
             d == at[p]
             sure == {k \in Key : Sure(d, k)}
  <2>8. settings'[p] = Effective(f, conf[d])
    <3> DEFINE e == Effective(f, conf[d])
    <3>1. settings' = [settings EXCEPT ![p] = e]  BY <2>7 DEF Configure
    <3> HIDE DEF e
    <3>2. settings'[p] = e  BY <2>1, <3>1 DEF TypeOK
    <3> QED  BY <3>2 DEF e
  <2>9. f \in Flag /\ conf[d] \in Table /\ told[d] \in Table
    BY <2>1, <2>4, JobType DEF TypeOK
  <2>10. sure \in SUBSET Key /\ \A k \in sure : conf[d][k] = told[d][k]
    BY <2>1, <2>4 DEF PostsAreWhole
  <2> HIDE DEF f, d, sure
  <2>11. Honours(Effective(f, conf[d]), f, told[d], sure)
    BY <2>9, <2>10, EffectiveHonours
  <2>12. Honours(settings'[p], f, told[d], sure)  BY <2>8, <2>11
  <2> QED  BY <2>12 DEF f, d, sure
<1> QED  BY <1>1, Always, PTL DEF Spec, StartsAsTold
=============================================================================
