------------------------- MODULE ClientStateProofs -------------------------
(***************************************************************************)
(* What PrinterClient keeps between calls, for any number of sessions,      *)
(* commands, jobs and file operations: the telemetry cache (ClientCache),   *)
(* the sequence ids (SequenceIds), the file operations (ClientFiles), what  *)
(* is known of the running job (JobCache), the connection slots             *)
(* (ClientSlots) and the k-profile requests (KProfiles).                    *)
(***************************************************************************)
EXTENDS ClientCache, SequenceIds, ClientFiles, JobCache, ClientSlots, KProfiles,
        SequenceTheorems, TLAPS

-----------------------------------------------------------------------------
(* The telemetry cache                                                       *)

StampOf(V) == [v : V, gen : Opt(Nat), sess : Nat]
CacheType ==
  [home : StampOf({None, "homed bits"}), setFlag : StampOf(Opt(BOOLEAN)),
   cfg : Opt(BOOLEAN), reply : Opt(BOOLEAN), firmware : StampOf({None, "version"}),
   np : Opt(BOOLEAN), lights : SUBSET Light, complete : BOOLEAN]

CacheTypeOK ==
  /\ family \in [cfg : BOOLEAN, carried : BOOLEAN, np : BOOLEAN, supported : BOOLEAN]
  /\ live \in BOOLEAN /\ closing \in BOOLEAN
  /\ gen \in Nat /\ sess \in 0..CacheSessions
  /\ cache \in CacheType
  /\ told \in Opt(BOOLEAN)
  /\ lagging \in BOOLEAN /\ tainted \in BOOLEAN /\ sawFull \in BOOLEAN

\* The generation has room for the boundaries still to come, so that it does
\* not wrap; every stamp is of this generation or an earlier one, and a stamp of
\* this generation was made on the session that is up.
Stamped(s) == s.v # None => /\ s.gen \in Nat /\ s.gen <= gen
                            /\ live /\ s.gen = gen => s.sess = sess
GenInv ==
  /\ gen < CacheGenMod
  /\ ~live /\ ~closing /\ sess < CacheSessions => gen + 1 < CacheGenMod
  /\ closing => gen + 2 < CacheGenMod /\ ~live
  /\ Stamped(cache.home) /\ Stamped(cache.setFlag) /\ Stamped(cache.firmware)

\* Only a family that has a field has it in the cache.
CapabilityInv ==
  /\ cache.np = TRUE => family.np
  /\ cache.cfg # None => family.cfg
  /\ CapabilitiesSettle

CacheInv == CacheTypeOK /\ GenInv /\ CapabilityInv /\ SettingIsLatest

LEMMA CacheInitInv == CacheInit => CacheInv
  <1> SUFFICES ASSUME CacheInit PROVE CacheInv  OBVIOUS
  <1>1. NeverStamped \in StampOf({None, "homed bits"})
        /\ NeverStamped \in StampOf(Opt(BOOLEAN))
        /\ NeverStamped \in StampOf({None, "version"})
    BY DEF NeverStamped, StampOf, Opt
  <1>2. CacheTypeOK
    <2>1. cache \in CacheType
      BY <1>1 DEF CacheInit, CacheType, Opt
    <2>2. gen \in Nat /\ sess \in 0..CacheSessions
      BY CacheAssumption DEF CacheInit
    <2> QED BY <2>1, <2>2 DEF CacheInit, CacheTypeOK, Opt
  <1>3. GenInv
    BY CacheAssumption DEF CacheInit, GenInv, Stamped, NeverStamped
  <1>4. CapabilityInv
    BY NoneAssumption DEF CacheInit, CapabilityInv, CapabilitiesSettle
  <1>5. SettingIsLatest
    BY NoneAssumption DEF CacheInit, SettingIsLatest, SettingEnabled, ReadsFlag, NeverStamped
  <1> QED BY <1>2, <1>3, <1>4, <1>5 DEF CacheInv

\* Connection boundaries leave the cache alone.
LEMMA BoundaryInv ==
  ASSUME CacheInv, Install \/ StartDisconnect \/ FinishDisconnect \/ DropDisconnect
  PROVE  CacheInv'
  <1> USE CacheAssumption
  <1>1. family' = family /\ cache' = cache /\ told' = told /\ lagging' = lagging
        /\ tainted' = tainted /\ sawFull' = sawFull
    BY DEF Install, StartDisconnect, FinishDisconnect, DropDisconnect, CacheHistory
  <1>2. live \in BOOLEAN /\ closing \in BOOLEAN /\ gen \in Nat /\ sess \in 0..CacheSessions
        /\ gen < CacheGenMod
        /\ (~live /\ ~closing /\ sess < CacheSessions => gen + 1 < CacheGenMod)
        /\ (closing => gen + 2 < CacheGenMod /\ ~live)
    BY DEF CacheInv, CacheTypeOK, GenInv
  <1>m. \A n \in Nat : n + 1 < CacheGenMod => (n + 1) % CacheGenMod = n + 1
    OBVIOUS
  <1>3. /\ gen' \in Nat /\ sess' \in 0..CacheSessions
        /\ gen' < CacheGenMod
        /\ (~live' /\ ~closing' /\ sess' < CacheSessions => gen' + 1 < CacheGenMod)
        /\ (closing' => gen' + 2 < CacheGenMod /\ ~live')
        /\ gen <= gen' /\ (live' => gen < gen')
    <2>1. CASE Install
      <3>1. gen + 1 < CacheGenMod /\ gen' = gen + 1 /\ sess' = sess + 1 /\ sess < CacheSessions
            /\ live' = TRUE /\ closing' = FALSE
        BY <2>1, <1>2, <1>m DEF Install, BeginConnection
      <3> QED BY <3>1, <1>2
    <2>2. CASE StartDisconnect
      <3>1. gen + 2 < CacheGenMod /\ gen' = gen /\ sess' = sess /\ live' = FALSE /\ closing' = TRUE
        BY <2>2 DEF StartDisconnect
      <3> QED BY <3>1, <1>2
    <2>3. CASE FinishDisconnect
      <3>1. gen + 2 < CacheGenMod /\ gen' = (gen + 1) % CacheGenMod
            /\ sess' = sess /\ live' = FALSE /\ closing' = FALSE
        BY <2>3, <1>2 DEF FinishDisconnect, BeginConnection
      <3>2. gen' = gen + 1  BY <3>1, <1>2
      <3> QED BY <3>1, <3>2, <1>2
    <2>4. CASE DropDisconnect
      <3>1. gen + 2 < CacheGenMod /\ gen' = gen /\ sess' = sess /\ live' = FALSE /\ closing' = FALSE
        BY <2>4, <1>2 DEF DropDisconnect
      <3> QED BY <3>1, <1>2
    <2> QED BY <2>1, <2>2, <2>3, <2>4
  <1>b. live' \in BOOLEAN /\ closing' \in BOOLEAN
    BY <1>2 DEF Install, StartDisconnect, FinishDisconnect, DropDisconnect
  <1>4. CacheTypeOK'  BY <1>1, <1>3, <1>b DEF CacheInv, CacheTypeOK
  <1>5. \A s : Stamped(s) => (Stamped(s))'
    BY <1>2, <1>3 DEF Stamped
  <1>6. GenInv'
    BY <1>1, <1>2, <1>3, <1>5 DEF CacheInv, GenInv, Stamped
  <1>7. CapabilityInv' /\ SettingIsLatest'
    BY <1>1 DEF CacheInv, CapabilityInv, CapabilitiesSettle, SettingIsLatest, SettingEnabled, ReadsFlag
  <1> QED BY <1>4, <1>6, <1>7 DEF CacheInv

\* Updating every field a frame can change keeps the record's type.
LEMMA CacheRecord ==
  ASSUME NEW A, NEW B, NEW D, NEW E, NEW F, NEW G, NEW H, NEW I,
         NEW c \in [home : A, setFlag : B, cfg : D, reply : E, firmware : F,
                    np : G, lights : H, complete : I],
         NEW a \in A, NEW b \in B, NEW d \in D, NEW e \in E, NEW g \in G, NEW h \in H, NEW i \in I
  PROVE  [c EXCEPT !.reply = e, !.setFlag = b, !.lights = h, !.complete = i, !.home = a,
                   !.cfg = d, !.np = g]
           \in [home : A, setFlag : B, cfg : D, reply : E, firmware : F,
                np : G, lights : H, complete : I]
  OBVIOUS

\* What classify_message leaves in each field.
LEMMA PollReportFields ==
  ASSUME CacheTypeOK, NEW f \in Frame, PollReport(f)
  PROVE  /\ cache'.reply = ReplyAfter(f)
         /\ cache'.setFlag = IF TrustsFlag(f) THEN Stamp(f.flag) ELSE cache.setFlag
         /\ cache'.lights = cache.lights \cup f.lights
         /\ cache'.complete = LightsComplete(f)
         /\ cache'.home = IF f.flag # None THEN Stamp("homed bits") ELSE cache.home
         /\ cache'.cfg = KeepNew(cache.cfg, f.cfg)
         /\ cache'.np = NpFormat(f)
         /\ cache'.firmware = cache.firmware
         /\ cache' \in CacheType
  <1>1. cache \in CacheType  BY DEF CacheTypeOK
  <1> DEFINE S == StampOf(Opt(BOOLEAN))
             C == [cache EXCEPT
       !.reply = ReplyAfter(f),
       !.setFlag = IF TrustsFlag(f) THEN Stamp(f.flag) ELSE @,
       !.lights = @ \cup f.lights,
       !.complete = LightsComplete(f),
       !.home = IF f.flag # None THEN Stamp("homed bits") ELSE @,
       !.cfg = KeepNew(@, f.cfg),
       !.np = NpFormat(f)]
  <1>2. cache' = C  BY DEF PollReport
  <1>3. /\ C.reply = ReplyAfter(f)
        /\ C.setFlag = IF TrustsFlag(f) THEN Stamp(f.flag) ELSE cache.setFlag
        /\ C.lights = cache.lights \cup f.lights
        /\ C.complete = LightsComplete(f)
        /\ C.home = IF f.flag # None THEN Stamp("homed bits") ELSE cache.home
        /\ C.cfg = KeepNew(cache.cfg, f.cfg)
        /\ C.np = NpFormat(f)
        /\ C.firmware = cache.firmware
    BY <1>1 DEF CacheType
  <1> HIDE DEF C
  <1>5. /\ cache.home \in StampOf({None, "homed bits"}) /\ cache.setFlag \in S
        /\ cache.cfg \in Opt(BOOLEAN) /\ cache.reply \in Opt(BOOLEAN)
        /\ cache.firmware \in StampOf({None, "version"})
        /\ cache.np \in Opt(BOOLEAN) /\ cache.lights \in SUBSET Light /\ cache.complete \in BOOLEAN
    BY <1>1 DEF CacheType
  <1>6. /\ f.full \in BOOLEAN /\ f.flag \in Opt(BOOLEAN) /\ f.cfg \in Opt(BOOLEAN)
        /\ f.np \in BOOLEAN /\ f.lights \in {{}, {"chamber"}, Light}
    BY DEF Frame
  <1>7. gen \in Nat /\ sess \in Nat  BY CacheAssumption DEF CacheTypeOK
  <1>4. \A V : \A v \in V : Stamp(v) \in StampOf(V)
    BY <1>7 DEF Stamp, StampOf, Opt
  <1>8. C.home \in StampOf({None, "homed bits"})
    BY <1>3, <1>4, <1>5
  <1>9. C.setFlag \in S
    BY <1>3, <1>4, <1>5, <1>6
  <1>10. C.cfg \in Opt(BOOLEAN)
    BY <1>3, <1>5, <1>6 DEF KeepNew, Or
  <1>11. C.reply \in Opt(BOOLEAN)
    BY <1>3, <1>5 DEF ReplyAfter, Opt
  <1>12. C.np \in Opt(BOOLEAN)
    <2>1. CASE f.np  BY <2>1, <1>3 DEF NpFormat, Opt
    <2>2. CASE ~f.np /\ cache.np = None  BY <2>2, <1>3 DEF NpFormat, Opt
    <2>3. CASE ~f.np /\ cache.np # None  BY <2>3, <1>3, <1>5 DEF NpFormat
    <2> QED BY <2>1, <2>2, <2>3
  <1>13. C.lights \in SUBSET Light
    BY <1>3, <1>5, <1>6 DEF Light
  <1>14. C.complete \in BOOLEAN
    BY <1>3 DEF LightsComplete
  <1>15. C.firmware \in StampOf({None, "version"})
    BY <1>3, <1>5
  <1>16. C \in CacheType
    <2>2. C = [cache EXCEPT !.reply = C.reply, !.setFlag = C.setFlag, !.lights = C.lights,
                            !.complete = C.complete, !.home = C.home, !.cfg = C.cfg, !.np = C.np]
      BY <1>3 DEF C
    <2>3. [cache EXCEPT !.reply = C.reply, !.setFlag = C.setFlag, !.lights = C.lights,
                        !.complete = C.complete, !.home = C.home, !.cfg = C.cfg, !.np = C.np] \in CacheType
      BY <1>1, <1>8, <1>9, <1>10, <1>11, <1>12, <1>13, <1>14, CacheRecord DEF CacheType
    <2> QED BY <2>2, <2>3
  <1> QED BY <1>2, <1>3, <1>16

LEMMA PollReportInv ==
  ASSUME CacheInv, NEW f \in Frame, PollReport(f)
  PROVE  CacheInv'
  <1>0. CacheTypeOK  BY DEF CacheInv
  <1>1. /\ cache'.reply = ReplyAfter(f)
        /\ cache'.setFlag = IF TrustsFlag(f) THEN Stamp(f.flag) ELSE cache.setFlag
        /\ cache'.lights = cache.lights \cup f.lights
        /\ cache'.complete = LightsComplete(f)
        /\ cache'.home = IF f.flag # None THEN Stamp("homed bits") ELSE cache.home
        /\ cache'.cfg = KeepNew(cache.cfg, f.cfg)
        /\ cache'.np = NpFormat(f)
        /\ cache'.firmware = cache.firmware
        /\ cache' \in CacheType
    BY <1>0, PollReportFields
  <1>2. /\ live /\ Sendable(f)
        /\ told' = IF Says(f) THEN SettingIn(f) ELSE told
        /\ lagging' = IF Says(f) THEN FALSE
                ELSE lagging \/ (cache.reply # None /\ ReplyAfter(f) = None)
        /\ tainted' = IF TrustsFlag(f) THEN Heartbeat(f) ELSE tainted
        /\ sawFull' = (sawFull \/ f.full)
        /\ family' = family /\ live' = live /\ closing' = closing /\ gen' = gen /\ sess' = sess
    BY DEF PollReport
  <1>3. /\ f.full \in BOOLEAN /\ f.flag \in Opt(BOOLEAN) /\ f.cfg \in Opt(BOOLEAN)
        /\ f.np \in BOOLEAN /\ f.lights \in {{}, {"chamber"}, Light}
    BY DEF Frame
  <1>4. /\ family.cfg \in BOOLEAN /\ family.carried \in BOOLEAN /\ family.np \in BOOLEAN
        /\ told \in Opt(BOOLEAN) /\ lagging \in BOOLEAN /\ tainted \in BOOLEAN
        /\ sawFull \in BOOLEAN
    BY <1>0 DEF CacheTypeOK
  <1>5. CacheTypeOK'
    <2>1. told' \in Opt(BOOLEAN)
      BY <1>2, <1>3, <1>4 DEF SettingIn
    <2>2. lagging' \in BOOLEAN /\ sawFull' \in BOOLEAN /\ tainted' \in BOOLEAN
      BY <1>2, <1>3, <1>4 DEF Heartbeat
    <2> QED BY <1>0, <1>1, <1>2, <2>1, <2>2 DEF CacheTypeOK
  <1>6. GenInv'
    <2> DEFINE Ok(s) == s.v # None => /\ s.gen \in Nat /\ s.gen <= gen
                                      /\ live /\ s.gen = gen => s.sess = sess
    <2>1. \A v : Ok(Stamp(v))
      <3>1. gen \in Nat  BY <1>0 DEF CacheTypeOK
      <3> QED BY <3>1 DEF Stamp
    <2>2. Ok(cache.home) /\ Ok(cache.setFlag) /\ Ok(cache.firmware)
      BY DEF CacheInv, GenInv, Stamped
    <2> HIDE DEF Ok
    <2>3. Ok(cache'.home) /\ Ok(cache'.setFlag) /\ Ok(cache'.firmware)
      BY <1>1, <2>1, <2>2
    <2>4. Stamped(cache.home)' /\ Stamped(cache.setFlag)' /\ Stamped(cache.firmware)'
      BY <1>2, <2>3 DEF Stamped, Ok
    <2> QED BY <2>4, <1>2 DEF GenInv, CacheInv
  <1>7. CapabilityInv'
    <2>1. /\ cache.np = TRUE => family.np
          /\ cache.cfg # None => family.cfg
          /\ sawFull => cache.np = family.np
          /\ cache.complete => cache.lights = Light
      BY DEF CacheInv, CapabilityInv, CapabilitiesSettle
    <2>2. /\ f.np => family.np
          /\ f.cfg # None => family.cfg
          /\ f.full => f.np = family.np /\ f.lights = Light
      BY <1>2 DEF Sendable
    <2>3. cache.np \in Opt(BOOLEAN) /\ cache.lights \in SUBSET Light
      BY <1>0 DEF CacheTypeOK, CacheType
    <2>4. cache'.np = TRUE => family.np
      BY <1>1, <2>1, <2>2, <1>4 DEF NpFormat
    <2>5. cache'.cfg # None => family.cfg
      BY <1>1, <2>1, <2>2 DEF KeepNew, Or
    <2>6. ASSUME sawFull \/ f.full PROVE cache'.np = family.np
      <3>1. CASE f.np  BY <3>1, <2>2, <1>1, <1>3, <1>4 DEF NpFormat
      <3>2. CASE ~f.np /\ sawFull
        <4>1. cache.np = family.np /\ cache.np # None
          BY <3>2, <2>1, <1>4, NoneAssumption
        <4> QED BY <3>2, <4>1, <1>1 DEF NpFormat
      <3>3. CASE ~f.np /\ f.full
        <4>1. family.np = FALSE  BY <3>3, <2>2, <1>4
        <4>2. cache.np # TRUE  BY <4>1, <2>1
        <4>3. cache.np = None \/ cache.np = FALSE  BY <4>2, <2>3 DEF Opt
        <4> QED BY <3>3, <4>1, <4>3, <1>1 DEF NpFormat
      <3> QED BY <2>6, <3>1, <3>2, <3>3
    <2>7. cache'.complete => cache'.lights = Light
      <3>1. cache'.complete => cache.complete \/ f.full
        BY <1>1 DEF LightsComplete
      <3>2. f.lights \in SUBSET Light  BY <1>3 DEF Light
      <3> QED BY <3>1, <3>2, <2>1, <2>2, <2>3, <1>1
    <2> QED BY <2>4, <2>5, <2>6, <2>7, <1>2 DEF CapabilityInv, CapabilitiesSettle
  <1>8. SettingIsLatest'
    <2> SUFFICES ASSUME ~lagging', ~(tainted' /\ ReadsFlag') PROVE SettingEnabled' = told'
      BY DEF SettingIsLatest
    <2>1. ReadsFlag' = ~(family.carried /\ cache'.cfg # None)
      BY <1>2 DEF ReadsFlag
    <2>2. SettingEnabled' = IF cache'.reply # None THEN cache'.reply
                            ELSE IF ReadsFlag' THEN cache'.setFlag.v ELSE cache'.cfg
      BY DEF SettingEnabled
    <2>3. ~lagging /\ ~(tainted /\ ReadsFlag) => SettingEnabled = told
      BY DEF CacheInv, SettingIsLatest
    <2>4. cache.cfg # None => family.cfg
      BY DEF CacheInv, CapabilityInv
    <2>5. /\ cache'.reply = ReplyAfter(f)
          /\ cache'.setFlag.v = IF TrustsFlag(f) THEN f.flag ELSE cache.setFlag.v
          /\ cache'.cfg = IF f.cfg = None THEN cache.cfg ELSE f.cfg
      <3>1. cache'.setFlag.v = IF TrustsFlag(f) THEN f.flag ELSE cache.setFlag.v
        <4>1. Stamp(f.flag).v = f.flag  BY DEF Stamp
        <4> QED BY <1>1, <4>1
      <3>2. cache'.cfg = IF f.cfg = None THEN cache.cfg ELSE f.cfg
        BY <1>1 DEF KeepNew, Or
      <3> QED BY <1>1, <3>1, <3>2
    <2>6. /\ ~family.cfg => f.cfg = None
          /\ f.full => f.flag # None
          /\ f.full => (family.cfg => f.cfg # None)
      BY <1>2 DEF Sendable
    \* A frame that leaves the setting alone.
    <2>7. ASSUME ~Says(f), ~TrustsFlag(f), cache'.cfg = cache.cfg \/ ~family.carried
          PROVE  SettingEnabled' = told'
      <3>1. told' = told /\ tainted' = tainted /\ cache'.setFlag.v = cache.setFlag.v
            /\ ReadsFlag' = ReadsFlag
        BY <2>7, <2>1, <2>5, <1>2 DEF ReadsFlag
      <3>2. ~lagging /\ (cache.reply # None => ReplyAfter(f) # None)
        BY <2>7, <1>2
      <3>3. cache'.reply = cache.reply
        BY <3>2, <2>5 DEF ReplyAfter
      <3>4. SettingEnabled = told
        BY <3>1, <3>2, <2>3
      <3>5. ReadsFlag' \/ cache'.cfg = cache.cfg
        BY <2>7, <2>1
      <3> QED BY <3>1, <3>3, <3>4, <3>5, <2>2 DEF SettingEnabled
    <2>8. CASE family.cfg /\ family.carried
      <3>1. CASE f.cfg # None
        BY <3>1, <2>8, <2>1, <2>2, <2>5, <1>2 DEF Says, SettingIn, ReplyAfter
      <3>2. CASE f.cfg = None /\ TrustsFlag(f)
        <4>1. ~f.full  BY <3>2, <2>6, <2>8
        <4>2. cache.cfg = None /\ f.flag # None  BY <4>1, <3>2 DEF TrustsFlag
        <4>3. tainted'  BY <4>1, <4>2, <3>2, <2>8, <1>2 DEF Heartbeat
        <4>4. ReadsFlag'  BY <4>2, <3>2, <2>1, <2>5
        <4> QED BY <4>3, <4>4
      <3>3. CASE f.cfg = None /\ ~TrustsFlag(f)
        BY <3>3, <2>7, <2>5, <2>8 DEF Says, SettingIn
      <3> QED BY <3>1, <3>2, <3>3
    <2>9. CASE family.cfg /\ ~family.carried
      <3>1. CASE f.full
        <4>1. TrustsFlag(f) /\ f.flag # None  BY <3>1, <2>6 DEF TrustsFlag
        <4>2. Says(f) /\ SettingIn(f) = f.flag
          BY <3>1, <4>1, <2>9 DEF Says, SettingIn, Heartbeat
        <4> QED BY <4>1, <4>2, <2>9, <2>1, <2>2, <2>5, <1>2 DEF ReplyAfter
      <3>2. CASE ~f.full /\ TrustsFlag(f)
        BY <3>2, <2>9, <2>1, <1>2 DEF TrustsFlag, Heartbeat
      <3>3. CASE ~f.full /\ ~TrustsFlag(f)
        BY <3>3, <2>7, <2>9 DEF Says, SettingIn, Heartbeat
      <3> QED BY <3>1, <3>2, <3>3
    <2>10. CASE ~family.cfg
      <3>1. f.cfg = None /\ cache.cfg = None  BY <2>10, <2>4, <2>6
      <3>2. CASE f.flag # None
        <4>1. TrustsFlag(f)  BY <3>1, <3>2 DEF TrustsFlag
        <4>2. Says(f) /\ SettingIn(f) = f.flag
          BY <3>2, <2>10 DEF Says, SettingIn, Heartbeat
        <4> QED BY <3>1, <4>1, <4>2, <2>1, <2>2, <2>5, <1>2 DEF ReplyAfter
      <3>3. CASE f.flag = None
        BY <3>1, <3>3, <2>7, <2>5, <2>10 DEF Says, SettingIn, TrustsFlag
      <3> QED BY <3>2, <3>3
    <2> QED BY <2>8, <2>9, <2>10, <1>4
  <1> QED BY <1>5, <1>6, <1>7, <1>8 DEF CacheInv

LEMMA ReplyInv ==
  ASSUME CacheInv, NEW v \in BOOLEAN, PollReply(v) \/ AwaitAckReply(v)
  PROVE  CacheInv'
  <1>0. CacheTypeOK  BY DEF CacheInv
  <1>1. live /\ family' = family /\ live' = live /\ closing' = closing /\ gen' = gen
        /\ sess' = sess /\ tainted' = tainted /\ sawFull' = sawFull
    BY DEF PollReply, AwaitAckReply
  <1>2. cache \in CacheType /\ told \in Opt(BOOLEAN) /\ lagging \in BOOLEAN
        /\ family.supported \in BOOLEAN
    BY <1>0 DEF CacheTypeOK
  <1>3. \/ cache' = [cache EXCEPT !.reply = v] /\ told' = v
        \/ cache' = cache /\ told' = told /\ lagging' = lagging
        \/ cache' = cache /\ told' = v /\ lagging' = TRUE
    BY <1>2 DEF PollReply, AwaitAckReply
  <1>4. lagging' \in BOOLEAN /\ told' \in Opt(BOOLEAN)
    BY <1>2 DEF PollReply, AwaitAckReply, Opt
  <1>5. cache' \in CacheType
    BY <1>2, <1>3 DEF CacheType, Opt
  <1>6. cache'.home = cache.home /\ cache'.setFlag = cache.setFlag /\ cache'.cfg = cache.cfg
        /\ cache'.firmware = cache.firmware /\ cache'.np = cache.np
        /\ cache'.lights = cache.lights /\ cache'.complete = cache.complete
    BY <1>2, <1>3 DEF CacheType
  <1>7. CacheTypeOK'  BY <1>0, <1>1, <1>4, <1>5 DEF CacheTypeOK
  <1>8. GenInv'  BY <1>1, <1>6 DEF CacheInv, GenInv, Stamped
  <1>9. CapabilityInv'  BY <1>1, <1>6 DEF CacheInv, CapabilityInv, CapabilitiesSettle
  <1>10. SettingIsLatest'
    <2>1. CASE cache' = [cache EXCEPT !.reply = v] /\ told' = v
      <3>1. cache'.reply = v /\ v # None
        BY <2>1, <1>2, NoneAssumption DEF CacheType
      <3> QED BY <2>1, <3>1 DEF SettingIsLatest, SettingEnabled
    <2>2. CASE cache' = cache /\ told' = told /\ lagging' = lagging
      BY <2>2, <1>1 DEF CacheInv, SettingIsLatest, SettingEnabled, ReadsFlag
    <2>3. CASE lagging' = TRUE
      BY <2>3 DEF SettingIsLatest
    <2> QED BY <1>3, <2>1, <2>2, <2>3
  <1> QED BY <1>7, <1>8, <1>9, <1>10 DEF CacheInv

LEMMA GetVersionInv ==
  ASSUME CacheInv, GetVersion
  PROVE  CacheInv'
  <1>0. CacheTypeOK  BY DEF CacheInv
  <1>1. live /\ family' = family /\ live' = live /\ closing' = closing /\ gen' = gen
        /\ sess' = sess /\ tainted' = tainted /\ sawFull' = sawFull /\ told' = told
        /\ lagging' = lagging
    BY DEF GetVersion, CacheHistory
  <1>2. cache \in CacheType /\ gen \in Nat /\ sess \in Nat
    BY <1>0, CacheAssumption DEF CacheTypeOK
  <1>3. Stamp("version") \in StampOf({None, "version"})
    BY <1>2 DEF Stamp, StampOf, Opt
  <1>4. cache' = [cache EXCEPT !.firmware = Stamp("version")]
    BY DEF GetVersion
  <1>5. cache' \in CacheType
    BY <1>2, <1>3, <1>4 DEF CacheType
  <1>6. cache'.home = cache.home /\ cache'.setFlag = cache.setFlag /\ cache'.cfg = cache.cfg
        /\ cache'.reply = cache.reply /\ cache'.np = cache.np
        /\ cache'.lights = cache.lights /\ cache'.complete = cache.complete
        /\ cache'.firmware = Stamp("version")
    BY <1>2, <1>4 DEF CacheType
  <1>7. CacheTypeOK'  BY <1>0, <1>1, <1>5 DEF CacheTypeOK
  <1>8. GenInv'
    <2>1. Stamped(cache.firmware)'
      BY <1>1, <1>2, <1>6 DEF Stamped, Stamp
    <2> QED BY <2>1, <1>1, <1>6 DEF CacheInv, GenInv, Stamped
  <1>9. CapabilityInv' /\ SettingIsLatest'
    BY <1>1, <1>6 DEF CacheInv, CapabilityInv, CapabilitiesSettle, SettingIsLatest,
       SettingEnabled, ReadsFlag
  <1> QED BY <1>7, <1>8, <1>9 DEF CacheInv

LEMMA CacheStepInv == CacheInv /\ [CacheNext]_cacheVars => CacheInv'
  <1> SUFFICES ASSUME CacheInv, [CacheNext]_cacheVars PROVE CacheInv'  OBVIOUS
  <1>1. CASE Install \/ StartDisconnect \/ FinishDisconnect \/ DropDisconnect
    BY <1>1, BoundaryInv
  <1>2. ASSUME NEW f \in Frame, PollReport(f) PROVE CacheInv'
    BY <1>2, PollReportInv
  <1>3. ASSUME NEW v \in BOOLEAN, PollReply(v) \/ AwaitAckReply(v) PROVE CacheInv'
    BY <1>3, ReplyInv
  <1>4. CASE GetVersion  BY <1>4, GetVersionInv
  <1>5. CASE UNCHANGED cacheVars
    BY <1>5 DEF cacheVars, CacheInv, CacheTypeOK, GenInv, Stamped, CapabilityInv,
       CapabilitiesSettle, SettingIsLatest, SettingEnabled, ReadsFlag
  <1> QED BY <1>1, <1>2, <1>3, <1>4, <1>5 DEF CacheNext

LEMMA CacheInvInvariant == CacheSpec => []CacheInv
  <1> QED BY CacheInitInv, CacheStepInv, PTL DEF CacheSpec

\* What is_all_axes_homed, the firmware version and the settings' home_flag give
\* as this connection's was read on it, and np format and light list are right
\* once settled: for any number of reconnects, dropped disconnects and frames,
\* as long as connection_generation does not wrap.
THEOREM CacheCurrentTheorem == CacheSpec => []CacheCurrent
  <1>1. CacheInv => CacheCurrent
    <2> SUFFICES ASSUME CacheInv PROVE CacheCurrent  OBVIOUS
    <2>1. ConnectionScoped
      BY DEF CacheInv, GenInv, Stamped, ConnectionScoped, ThisConnection
    <2> QED BY <2>1 DEF CacheInv, CapabilityInv, CacheCurrent
  <1> QED BY <1>1, CacheInvInvariant, PTL

\* The setting getters give what the printer last said, in a frame or an accepted
\* reply, but for the two lags SettingIsLatest names; over any reconnects.
THEOREM SettingTheorem == CacheSpec => []SettingIsLatest
  <1>1. CacheInv => SettingIsLatest  BY DEF CacheInv
  <1> QED BY <1>1, CacheInvInvariant, PTL

\* From the first cfg on, update_telemetry_cache takes no heartbeat's partial
\* home_flag for the settings.
THEOREM NoNewTaintTheorem == CacheSpec => NoNewTaint
  <1>1. CacheInv /\ [CacheNext]_cacheVars
          => [cache.cfg # None /\ ~tainted => ~tainted']_cacheVars
    <2> SUFFICES ASSUME CacheInv, CacheNext, cache.cfg # None, ~tainted PROVE ~tainted'
      OBVIOUS
    <2>1. ASSUME NEW f \in Frame, PollReport(f) PROVE ~tainted'
      BY <2>1 DEF PollReport, TrustsFlag, Heartbeat
    <2>2. ASSUME NEW v \in BOOLEAN, PollReply(v) \/ AwaitAckReply(v) PROVE ~tainted'
      BY <2>2 DEF PollReply, AwaitAckReply
    <2>3. CASE Install \/ StartDisconnect \/ FinishDisconnect \/ DropDisconnect \/ GetVersion
      BY <2>3 DEF Install, StartDisconnect, FinishDisconnect, DropDisconnect, GetVersion,
         CacheHistory
    <2> QED BY <2>1, <2>2, <2>3 DEF CacheNext
  <1> QED BY <1>1, CacheInvInvariant, PTL DEF CacheSpec, NoNewTaint

-----------------------------------------------------------------------------
(* Sequence ids                                                              *)

\* RemoveAt, element by element.
LEMMA RemoveAtElements ==
  ASSUME NEW S, NEW s \in Seq(S), NEW i \in DOMAIN s
  PROVE  /\ RemoveAt(s, i) \in Seq(S)
         /\ Len(RemoveAt(s, i)) = Len(s) - 1
         /\ DOMAIN RemoveAt(s, i) = 1..(Len(s) - 1)
         /\ \A k \in 1..(Len(s) - 1) : RemoveAt(s, i)[k] = IF k < i THEN s[k] ELSE s[k + 1]
<1> DEFINE u == SubSeq(s, 1, i - 1)
           v == SubSeq(s, i + 1, Len(s))
           t == u \o v
<1>1. i \in 1..Len(s) /\ Len(s) \in Nat /\ DOMAIN s = 1..Len(s)
  BY LenProperties
<1>2. u \in Seq(S) /\ Len(u) = i - 1 /\ \A j \in 1..(i - 1) : u[j] = s[j]
  BY <1>1
<1>3. v \in Seq(S) /\ Len(v) = Len(s) - i /\ \A j \in 1..(Len(s) - i) : v[j] = s[j + i]
  BY <1>1
<1> HIDE DEF u, v
<1>4. /\ t \in Seq(S)
      /\ Len(t) = Len(u) + Len(v)
      /\ \A j \in 1..(Len(u) + Len(v)) : t[j] = IF j <= Len(u) THEN u[j] ELSE v[j - Len(u)]
  BY <1>2, <1>3, ConcatProperties
<1>5. Len(t) = Len(s) - 1
  BY <1>1, <1>2, <1>3, <1>4
<1>6. DOMAIN t = 1..(Len(s) - 1)
  BY <1>4, <1>5, LenProperties
<1> HIDE DEF t
<1>7. ASSUME NEW k \in 1..(Len(s) - 1) PROVE t[k] = IF k < i THEN s[k] ELSE s[k + 1]
  <2>1. t[k] = IF k <= Len(u) THEN u[k] ELSE v[k - Len(u)]
    BY <1>1, <1>2, <1>3, <1>4
  <2>2. CASE k < i
    BY <1>1, <1>2, <2>1, <2>2
  <2>3. CASE ~(k < i)
    <3>1. k - (i - 1) \in 1..(Len(s) - i) /\ (k - (i - 1)) + i = k + 1 /\ ~(k <= i - 1)
      BY <1>1, <2>3
    <3>2. t[k] = v[k - (i - 1)]
      BY <1>2, <2>1, <3>1
    <3>3. v[k - (i - 1)] = s[(k - (i - 1)) + i]
      BY <1>3, <3>1
    <3>4. QED
      BY <2>3, <3>1, <3>2, <3>3
  <2>4. QED
    BY <2>2, <2>3
<1>8. t = RemoveAt(s, i)
  BY DEF t, u, v, RemoveAt
<1>9. QED
  BY <1>4, <1>5, <1>6, <1>7, <1>8

\* A pending command or an echo.
IdCommand == [id : Nat, nr : Nat]

\* The id minted k commands ago, counting backwards over the wrap.
Minted(k) == IF sequenceCounter - k >= IdFloor THEN sequenceCounter - k
             ELSE sequenceCounter - k + (IdMax - IdFloor)

\* A command of this client, under the id it was given.
Own(c) == c.nr \in 1..issued /\ c.id = Minted(issued - c.nr)

NrsDistinct(q) == \A i, j \in DOMAIN q : q[i].nr = q[j].nr => i = j

IdTypeOK ==
  /\ sequenceCounter \in IdRange
  /\ idLive \in BOOLEAN /\ realClock \in BOOLEAN
  /\ issued \in 0..MaxIssued
  /\ awaiting \in Seq(IdCommand)
  /\ echoes \subseteq IdCommand
IdInv ==
  /\ IdTypeOK
  /\ \A i \in DOMAIN awaiting : Own(awaiting[i])
  /\ NrsDistinct(awaiting)
  /\ \A e \in echoes : Own(e) \/ (e.nr = 0 /\ e.id < IdFloor)
  /\ EchoResolvesItsCommand

\* The counter does not come round while a command is out: a client issues fewer
\* than 2^31 commands.  (An echo that were later than that would be taken for
\* the command that has its id now.)
IdRoom == MaxIssued <= IdMax - IdFloor

\* Within one cycle of the counter, ids tell commands apart.
LEMMA OwnTellsApart ==
  ASSUME IdRoom, IdTypeOK, NEW c \in IdCommand, NEW d \in IdCommand, Own(c), Own(d), c.id = d.id
  PROVE  c.nr = d.nr
  <1> USE IdAssumption
  <1>1. sequenceCounter \in Nat /\ IdFloor <= sequenceCounter /\ sequenceCounter < IdMax
        /\ issued \in Nat /\ issued <= IdMax - IdFloor
    BY DEF IdTypeOK, IdRange, IdRoom
  <1>2. c.nr \in 1..issued /\ d.nr \in 1..issued /\ Minted(issued - c.nr) = Minted(issued - d.nr)
    BY DEF Own
  <1> QED BY <1>1, <1>2 DEF Minted

LEMMA OwnInRange ==
  ASSUME IdRoom, IdTypeOK, NEW c \in IdCommand, Own(c)
  PROVE  c.id \in IdRange
  <1> USE IdAssumption
  <1>1. sequenceCounter \in Nat /\ IdFloor <= sequenceCounter /\ sequenceCounter < IdMax
        /\ issued \in Nat /\ issued <= IdMax - IdFloor
    BY DEF IdTypeOK, IdRange, IdRoom
  <1>2. c.nr \in 1..issued /\ c.id = Minted(issued - c.nr)
    BY DEF Own
  <1> QED BY <1>1, <1>2 DEF Minted, IdRange

\* Minting the next id leaves the ids given before where they were.
LEMMA DispatchKeepsOwn ==
  ASSUME IdRoom, IdTypeOK, NEW c \in IdCommand, Own(c), issued < MaxIssued,
         issued' = issued + 1, sequenceCounter' = NextSequenceId(sequenceCounter)
  PROVE  Own(c)'
  <1> USE IdAssumption
  <1>1. sequenceCounter \in Nat /\ IdFloor <= sequenceCounter /\ sequenceCounter < IdMax
        /\ issued \in Nat /\ issued + 1 <= IdMax - IdFloor
    BY DEF IdTypeOK, IdRange, IdRoom
  <1>2. c.nr \in 1..issued /\ c.id = Minted(issued - c.nr)
    BY DEF Own
  <1>3. c.nr \in 1..issued'  BY <1>1, <1>2
  <1>4. c.id = Minted(issued - c.nr)'
    BY <1>1, <1>2 DEF Minted, NextSequenceId
  <1> QED BY <1>3, <1>4 DEF Own

LEMMA MintsInRange ==
  /\ \A c \in IdRange : NextSequenceId(c) \in IdRange
  /\ \A seed \in 0..(IdMax - IdFloor - 1) : SequenceIdFromSeed(seed) \in IdRange
  <1> USE IdAssumption
  <1>1. IdMax - IdFloor \in Nat \ {0}  OBVIOUS
  <1>2. \A seed \in Nat : seed % (IdMax - IdFloor) \in 0..(IdMax - IdFloor - 1)
    BY <1>1
  <1> QED BY <1>1, <1>2 DEF NextSequenceId, SequenceIdFromSeed, IdRange

\* What is left of the pending commands when one is taken out.
LEMMA TakenOut ==
  ASSUME IdInv, NEW i \in DOMAIN awaiting, NEW t, t = RemoveAt(awaiting, i)
  PROVE  /\ t \in Seq(IdCommand)
         /\ \A k \in DOMAIN t : Own(t[k])
         /\ NrsDistinct(t)
  <1>1. awaiting \in Seq(IdCommand) /\ Len(awaiting) \in Nat /\ DOMAIN awaiting = 1..Len(awaiting)
    BY LenProperties DEF IdInv, IdTypeOK
  <1>2. t \in Seq(IdCommand) /\ DOMAIN t = 1..(Len(awaiting) - 1)
        /\ \A k \in 1..(Len(awaiting) - 1) :
             t[k] = IF k < i THEN awaiting[k] ELSE awaiting[k + 1]
    BY <1>1, RemoveAtElements
  <1>3. \A k \in DOMAIN t : Own(t[k])
    <2> SUFFICES ASSUME NEW k \in DOMAIN t PROVE Own(t[k])  OBVIOUS
    <2>1. k \in DOMAIN awaiting /\ k + 1 \in DOMAIN awaiting  BY <1>1, <1>2
    <2>2. t[k] = awaiting[k] \/ t[k] = awaiting[k + 1]  BY <1>2
    <2>3. Own(awaiting[k]) /\ Own(awaiting[k + 1])  BY <2>1 DEF IdInv
    <2> QED BY <2>2, <2>3
  <1>4. NrsDistinct(t)
    <2> SUFFICES ASSUME NEW j \in DOMAIN t, NEW k \in DOMAIN t, t[j].nr = t[k].nr PROVE j = k
      BY DEF NrsDistinct
    <2> DEFINE Place(m) == IF m < i THEN m ELSE m + 1
    <2>1. Place(j) \in DOMAIN awaiting /\ Place(k) \in DOMAIN awaiting
          /\ t[j] = awaiting[Place(j)] /\ t[k] = awaiting[Place(k)]
      BY <1>1, <1>2
    <2>2. Place(j) = Place(k)
      <3> HIDE DEF Place
      <3> QED BY <2>1 DEF IdInv, NrsDistinct
    <2> QED BY <2>2, <1>1, <1>2
  <1> QED BY <1>2, <1>3, <1>4

\* A fresh command at the end of commands of this client.
LEMMA TrackedOwn ==
  ASSUME IdRoom, IdInv, DispatchCommand(TRUE)
  PROVE  /\ awaiting' \in Seq(IdCommand)
         /\ \A k \in DOMAIN awaiting' : Own(awaiting[k])'
         /\ NrsDistinct(awaiting)'
  <1> USE IdAssumption
  <1>c. PICK c : c = [id |-> sequenceCounter', nr |-> issued']  OBVIOUS
  <1>q. PICK q : q = IF Len(awaiting) >= PendingLimit THEN Tail(awaiting) ELSE awaiting  OBVIOUS
  <1>1. /\ awaiting' = Append(q, c) /\ issued' = issued + 1 /\ issued < MaxIssued
        /\ sequenceCounter' = NextSequenceId(sequenceCounter)
        /\ sequenceCounter \in IdRange /\ issued \in Nat
        /\ awaiting \in Seq(IdCommand) /\ IdTypeOK
    BY <1>c, <1>q DEF DispatchCommand, Tracked, IdInv, IdTypeOK
  <1>2. q \in Seq(IdCommand) /\ (\A k \in DOMAIN q : Own(q[k])) /\ NrsDistinct(q)
    <2>1. CASE Len(awaiting) >= PendingLimit
      <3>1. 1 \in DOMAIN awaiting /\ Len(awaiting) \in Nat /\ awaiting # <<>>
        BY <2>1, <1>1, LenProperties, EmptySeq
      <3>2. Tail(awaiting) = RemoveAt(awaiting, 1)
        <4>1. /\ Tail(awaiting) \in Seq(IdCommand) /\ Len(Tail(awaiting)) = Len(awaiting) - 1
              /\ \A k \in 1..(Len(awaiting) - 1) : Tail(awaiting)[k] = awaiting[k + 1]
          BY <1>1, <3>1, HeadTailProperties
        <4>2. /\ RemoveAt(awaiting, 1) \in Seq(IdCommand)
              /\ Len(RemoveAt(awaiting, 1)) = Len(awaiting) - 1
              /\ \A k \in 1..(Len(awaiting) - 1) :
                   RemoveAt(awaiting, 1)[k] = IF k < 1 THEN awaiting[k] ELSE awaiting[k + 1]
          BY <1>1, <3>1, RemoveAtElements
        <4>3. \A k \in 1..(Len(awaiting) - 1) : RemoveAt(awaiting, 1)[k] = Tail(awaiting)[k]
          BY <3>1, <4>1, <4>2
        <4> QED BY <4>1, <4>2, <4>3, SeqEqual
      <3>3. q = RemoveAt(awaiting, 1)  BY <2>1, <3>2, <1>q
      <3> QED BY <3>1, <3>3, TakenOut
    <2>2. CASE ~(Len(awaiting) >= PendingLimit)
      BY <2>2, <1>q DEF IdInv, IdTypeOK
    <2> QED BY <2>1, <2>2
  <1>3. sequenceCounter' \in IdRange  BY <1>1, MintsInRange
  <1>4. c \in IdCommand /\ c.nr = issued' /\ c.id = sequenceCounter'
    BY <1>1, <1>3, <1>c DEF IdCommand, IdRange
  <1>5. Own(c)'
    <2>1. c.nr \in 1..issued'  BY <1>1, <1>4
    <2>2. c.id = Minted(issued - c.nr)'
      BY <1>1, <1>3, <1>4 DEF Minted, IdRange
    <2> QED BY <2>1, <2>2 DEF Own
  <1>6. /\ Append(q, c) \in Seq(IdCommand) /\ Len(q) \in Nat /\ DOMAIN q = 1..Len(q)
        /\ DOMAIN Append(q, c) = 1..(Len(q) + 1)
        /\ \A k \in 1..Len(q) : Append(q, c)[k] = q[k]
        /\ Append(q, c)[Len(q) + 1] = c
    BY <1>2, <1>4, AppendProperties, LenProperties
  <1>7. \A k \in DOMAIN q : q[k] \in IdCommand /\ Own(q[k])' /\ q[k].nr < c.nr
    <2> SUFFICES ASSUME NEW k \in DOMAIN q PROVE q[k] \in IdCommand /\ Own(q[k])' /\ q[k].nr < c.nr
      OBVIOUS
    <2>d. PICK d : d = q[k]  OBVIOUS
    <2>1. d \in IdCommand  BY <2>d, <1>2, ElementOfSeq, <1>6
    <2>2. Own(d)  BY <2>d, <1>2
    <2>3. d.nr < c.nr  BY <2>1, <2>2, <1>1, <1>4 DEF Own
    <2>4. Own(d)'  BY <2>1, <2>2, <1>1, DispatchKeepsOwn
    <2> QED BY <2>d, <2>1, <2>3, <2>4
  <1>8. \A k \in DOMAIN awaiting' : Own(awaiting[k])'
    <2> SUFFICES ASSUME NEW k \in DOMAIN awaiting' PROVE Own(awaiting[k])'  OBVIOUS
    <2>1. (k \in DOMAIN q /\ awaiting'[k] = q[k]) \/ awaiting'[k] = c
      BY <1>1, <1>6
    <2> QED BY <2>1, <1>5, <1>7 DEF Own
  <1>9. NrsDistinct(awaiting)'
    <2> SUFFICES ASSUME NEW j \in DOMAIN awaiting', NEW k \in DOMAIN awaiting',
                        awaiting'[j].nr = awaiting'[k].nr
                 PROVE  j = k
      BY DEF NrsDistinct
    <2>1. (j \in DOMAIN q /\ awaiting'[j] = q[j]) \/ (j = Len(q) + 1 /\ awaiting'[j] = c)
      BY <1>1, <1>6
    <2>2. (k \in DOMAIN q /\ awaiting'[k] = q[k]) \/ (k = Len(q) + 1 /\ awaiting'[k] = c)
      BY <1>1, <1>6
    <2>3. \A m \in DOMAIN q : q[m].nr # c.nr
      <3> SUFFICES ASSUME NEW m \in DOMAIN q PROVE q[m].nr # c.nr  OBVIOUS
      <3>1. q[m] \in IdCommand /\ q[m].nr < c.nr  BY <1>7
      <3> QED BY <3>1, <1>4 DEF IdCommand
    <2> QED BY <2>1, <2>2, <2>3, <1>2 DEF NrsDistinct
  <1> QED BY <1>1, <1>6, <1>8, <1>9

\* An echo answers at most one pending command, and only its own.
LEMMA EchoHits ==
  ASSUME IdRoom, IdInv, NEW e \in echoes, NEW i \in DOMAIN awaiting, awaiting[i].id = e.id
  PROVE  e.nr = awaiting[i].nr /\ \A j \in DOMAIN awaiting : awaiting[j].id = e.id => j = i
  <1>1. IdTypeOK /\ e \in IdCommand
    BY DEF IdInv, IdTypeOK
  <1>2. \A j \in DOMAIN awaiting : awaiting[j] \in IdCommand /\ Own(awaiting[j])
    BY <1>1, LenProperties, ElementOfSeq DEF IdInv, IdTypeOK
  <1>3. e.nr = awaiting[i].nr
    <2>1. awaiting[i].id \in IdRange  BY <1>1, <1>2, OwnInRange
    <2>2. ~(e.id < IdFloor)  BY <2>1, IdAssumption DEF IdRange
    <2>3. Own(e)  BY <2>2 DEF IdInv
    <2> QED BY <1>1, <1>2, <2>3, OwnTellsApart
  <1>4. ASSUME NEW j \in DOMAIN awaiting, awaiting[j].id = e.id PROVE j = i
    <2>1. awaiting[j].nr = awaiting[i].nr
      BY <1>1, <1>2, <1>4, OwnTellsApart
    <2> QED BY <2>1 DEF IdInv, NrsDistinct
  <1> QED BY <1>3, <1>4

LEMMA IdInitInv == IdInit => IdInv
  <1> SUFFICES ASSUME IdInit PROVE IdInv  OBVIOUS
  <1>1. awaiting \in Seq(IdCommand) /\ DOMAIN awaiting = {}
    BY EmptySeq DEF IdInit
  <1>2. sequenceCounter \in IdRange /\ issued \in 0..MaxIssued
    BY IdAssumption DEF IdInit, IdRange
  <1> QED BY <1>1, <1>2 DEF IdInit, IdInv, IdTypeOK, NrsDistinct, EchoResolvesItsCommand

\* The pending commands, the echoes and the counter as they are but for what a
\* step takes out of them.
LEMMA FewerInv ==
  ASSUME IdInv, UNCHANGED <<sequenceCounter, realClock, issued>>, idLive' \in BOOLEAN,
         awaiting' = awaiting \/ \E i \in DOMAIN awaiting : awaiting' = RemoveAt(awaiting, i),
         \A e \in echoes' : e \in echoes \/ (e \in IdCommand /\ e.nr = 0 /\ e.id < IdFloor),
         EchoResolvesItsCommand'
  PROVE  IdInv'
  <1>1. \A c : Own(c) => Own(c)'  BY DEF Own, Minted
  <1>2. awaiting' \in Seq(IdCommand) /\ (\A k \in DOMAIN awaiting' : Own(awaiting'[k]))
        /\ NrsDistinct(awaiting')
    <2>1. CASE awaiting' = awaiting  BY <2>1 DEF IdInv, IdTypeOK
    <2>2. ASSUME NEW i \in DOMAIN awaiting, awaiting' = RemoveAt(awaiting, i)
          PROVE  awaiting' \in Seq(IdCommand) /\ (\A k \in DOMAIN awaiting' : Own(awaiting'[k]))
                 /\ NrsDistinct(awaiting')
      BY <2>2, TakenOut
    <2> QED BY <2>1, <2>2
  <1>3. \A k \in DOMAIN awaiting' : Own(awaiting[k])'
    <2> SUFFICES ASSUME NEW k \in DOMAIN awaiting' PROVE Own(awaiting[k])'  OBVIOUS
    <2>1. Own(awaiting'[k])  BY <1>2
    <2> QED BY <2>1 DEF Own, Minted
  <1>4. NrsDistinct(awaiting)'  BY <1>2 DEF NrsDistinct
  <1>5. echoes' \subseteq IdCommand /\ \A e \in echoes' : Own(e)' \/ (e.nr = 0 /\ e.id < IdFloor)
    <2> SUFFICES ASSUME NEW e \in echoes'
                 PROVE  e \in IdCommand /\ (Own(e)' \/ (e.nr = 0 /\ e.id < IdFloor))
      OBVIOUS
    <2>1. CASE e \in echoes
      <3>1. e \in IdCommand /\ (Own(e) \/ (e.nr = 0 /\ e.id < IdFloor))
        BY <2>1 DEF IdInv, IdTypeOK
      <3> QED BY <3>1, <1>1
    <2>2. CASE e \in IdCommand /\ e.nr = 0 /\ e.id < IdFloor  BY <2>2
    <2> QED BY <2>1, <2>2
  <1>6. IdTypeOK'  BY <1>2, <1>5 DEF IdInv, IdTypeOK
  <1> QED BY <1>3, <1>4, <1>5, <1>6 DEF IdInv

\* Before the first command, and at a connection boundary, no id is waited for:
\* the counter may be put anywhere.
LEMMA ReseedInv ==
  ASSUME IdInv, ConnectAndReseed \/ WithTimer
  PROVE  IdInv'
  <1>1. sequenceCounter' \in IdRange
    <2>1. sequenceCounter \in IdRange  BY DEF IdInv, IdTypeOK
    <2> QED BY <2>1, MintsInRange DEF ConnectAndReseed, WithTimer
  <1>2. idLive' \in BOOLEAN /\ realClock' \in BOOLEAN
    BY DEF IdInv, IdTypeOK, ConnectAndReseed, WithTimer
  <1>3. issued' = issued /\ settled' = settled
    BY DEF ConnectAndReseed, WithTimer
  <1>4. awaiting' \in Seq(IdCommand) /\ DOMAIN awaiting' = {}
    <2>1. CASE ConnectAndReseed
      <3>1. awaiting' = <<>>  BY <2>1 DEF ConnectAndReseed, PendingAfterConnect
      <3> QED BY <3>1, EmptySeq
    <2>2. CASE WithTimer
      <3>1. issued = 0 /\ awaiting' = awaiting  BY <2>2 DEF WithTimer
      <3>2. \A i \in DOMAIN awaiting : FALSE
        <4> SUFFICES ASSUME NEW i \in DOMAIN awaiting PROVE FALSE  OBVIOUS
        <4>1. awaiting[i].nr \in 1..0  BY <3>1 DEF IdInv, Own
        <4> QED BY <4>1
      <3> QED BY <3>1, <3>2 DEF IdInv, IdTypeOK
    <2> QED BY <2>1, <2>2
  <1>5. \A e \in echoes' : e \in IdCommand /\ e.nr = 0 /\ e.id < IdFloor
    <2>1. CASE ConnectAndReseed  BY <2>1 DEF ConnectAndReseed
    <2>2. CASE WithTimer
      <3>1. issued = 0 /\ echoes' = echoes  BY <2>2 DEF WithTimer
      <3>2. \A e \in echoes : ~Own(e)
        <4> SUFFICES ASSUME NEW e \in echoes, Own(e) PROVE FALSE  OBVIOUS
        <4>1. e.nr \in 1..0  BY <3>1 DEF Own
        <4> QED BY <4>1
      <3> QED BY <3>1, <3>2 DEF IdInv, IdTypeOK
    <2> QED BY <2>1, <2>2
  <1>6. issued \in 0..MaxIssued /\ EchoResolvesItsCommand  BY DEF IdInv, IdTypeOK
  <1> QED BY <1>1, <1>2, <1>3, <1>4, <1>5, <1>6
          DEF IdInv, IdTypeOK, NrsDistinct, EchoResolvesItsCommand

LEMMA DispatchInv ==
  ASSUME IdRoom, IdInv, NEW p \in BOOLEAN, DispatchCommand(p)
  PROVE  IdInv'
  <1>1. /\ issued' = issued + 1 /\ issued < MaxIssued /\ issued \in Nat
        /\ sequenceCounter' = NextSequenceId(sequenceCounter)
        /\ idLive' = idLive /\ realClock' = realClock /\ settled' = settled
        /\ IdTypeOK
    BY IdAssumption DEF DispatchCommand, IdInv, IdTypeOK
  <1>2. sequenceCounter' \in IdRange /\ issued' \in 0..MaxIssued
    BY <1>1, MintsInRange, IdAssumption DEF IdTypeOK
  <1>3. \A c \in IdCommand : Own(c) => Own(c)'
    <2> SUFFICES ASSUME NEW c \in IdCommand, Own(c) PROVE Own(c)'  OBVIOUS
    <2> QED BY <1>1, DispatchKeepsOwn
  <1>4. /\ awaiting' \in Seq(IdCommand)
        /\ \A k \in DOMAIN awaiting' : Own(awaiting[k])'
        /\ NrsDistinct(awaiting)'
    <2>1. CASE p = TRUE  BY <2>1, TrackedOwn
    <2>2. CASE p = FALSE
      <3>1. awaiting' = awaiting  BY <2>2 DEF DispatchCommand
      <3>2. awaiting' \in Seq(IdCommand) /\ NrsDistinct(awaiting)'
        BY <3>1 DEF IdInv, IdTypeOK, NrsDistinct
      <3>3. \A k \in DOMAIN awaiting' : Own(awaiting[k])'
        <4> SUFFICES ASSUME NEW k \in DOMAIN awaiting' PROVE Own(awaiting[k])'  OBVIOUS
        <4>1. PICK d : d = awaiting[k]  OBVIOUS
        <4>2. d \in IdCommand  BY <4>1, <3>1, LenProperties, ElementOfSeq DEF IdInv, IdTypeOK
        <4>3. Own(d)  BY <4>1, <3>1 DEF IdInv
        <4>4. Own(d)' /\ awaiting'[k] = d  BY <4>1, <4>2, <4>3, <3>1, <1>3
        <4> QED BY <4>4 DEF Own
      <3> QED BY <3>2, <3>3
    <2> QED BY <2>1, <2>2
  <1>5. echoes' \subseteq IdCommand /\ \A e \in echoes' : Own(e)' \/ (e.nr = 0 /\ e.id < IdFloor)
    <2>1. PICK c : c = [id |-> sequenceCounter', nr |-> issued']  OBVIOUS
    <2>2. echoes' \subseteq echoes \cup {c}  BY <2>1 DEF DispatchCommand
    <2>3. c \in IdCommand /\ c.nr = issued' /\ c.id = sequenceCounter'
      BY <1>1, <1>2, <2>1, IdAssumption DEF IdCommand, IdRange
    <2>4. Own(c)'
      <3>1. c.nr \in 1..issued'  BY <1>1, <2>3
      <3>2. c.id = Minted(issued - c.nr)'
        BY <1>1, <1>2, <2>3, IdAssumption DEF Minted, IdRange
      <3> QED BY <3>1, <3>2 DEF Own
    <2> SUFFICES ASSUME NEW e \in echoes'
                 PROVE  e \in IdCommand /\ (Own(e)' \/ (e.nr = 0 /\ e.id < IdFloor))
      OBVIOUS
    <2>5. CASE e = c  BY <2>3, <2>4, <2>5
    <2>6. CASE e \in echoes
      <3>1. e \in IdCommand /\ (Own(e) \/ (e.nr = 0 /\ e.id < IdFloor))
        BY <2>6 DEF IdInv, IdTypeOK
      <3> QED BY <3>1, <1>3
    <2> QED BY <2>2, <2>5, <2>6
  <1>6. EchoResolvesItsCommand'  BY <1>1 DEF IdInv, EchoResolvesItsCommand
  <1>7. IdTypeOK'  BY <1>1, <1>2, <1>4, <1>5 DEF IdTypeOK
  <1> QED BY <1>4, <1>5, <1>6, <1>7 DEF IdInv

LEMMA ReadEchoInv ==
  ASSUME IdRoom, IdInv, NEW e \in echoes, ReadEcho(e)
  PROVE  IdInv'
  <1> DEFINE hits == {i \in DOMAIN awaiting : AnsweredBy(awaiting[i], e)}
  <1>1. UNCHANGED <<sequenceCounter, realClock, issued>> /\ idLive' \in BOOLEAN
        /\ echoes' \subseteq echoes
    BY DEF ReadEcho, IdInv, IdTypeOK
  <1>2. CASE hits = {}
    <2>1. awaiting' = awaiting /\ settled' = settled
      BY <1>2 DEF ReadEcho
    <2>2. EchoResolvesItsCommand'  BY <2>1 DEF IdInv, EchoResolvesItsCommand
    <2> QED BY <1>1, <2>1, <2>2, FewerInv
  <1>3. CASE hits # {}
    <2>1. PICK i \in DOMAIN awaiting : awaiting[i].id = e.id
      BY <1>3 DEF AnsweredBy
    <2>2. e.nr = awaiting[i].nr /\ \A j \in DOMAIN awaiting : awaiting[j].id = e.id => j = i
      BY <2>1, EchoHits
    <2>3. hits = {i}
      BY <2>1, <2>2 DEF AnsweredBy
    <2>4. Min(hits) = i
      <3>1. i \in Nat
        BY LenProperties DEF IdInv, IdTypeOK
      <3>2. Min({i}) = i
        BY <3>1 DEF Min
      <3> QED BY <2>3, <3>2
    <2>5. awaiting' = RemoveAt(awaiting, Min(hits))
          /\ settled' = settled \cup {<<e.nr, awaiting[Min(hits)].nr>>}
      BY <1>3 DEF ReadEcho
    <2> HIDE DEF hits
    <2>6. awaiting' = RemoveAt(awaiting, i) /\ settled' = settled \cup {<<e.nr, awaiting[i].nr>>}
      BY <2>4, <2>5
    <2>7. EchoResolvesItsCommand'
      <3> SUFFICES ASSUME NEW s \in settled' PROVE s[1] = s[2]
        BY DEF EchoResolvesItsCommand
      <3>1. CASE s \in settled  BY <3>1 DEF IdInv, EchoResolvesItsCommand
      <3>2. CASE s = <<e.nr, awaiting[i].nr>>  BY <3>2, <2>2
      <3> QED BY <2>6, <3>1, <3>2
    <2> QED BY <1>1, <2>6, <2>7, FewerInv
  <1> QED BY <1>2, <1>3

LEMMA IdStepInv == IdRoom /\ IdInv /\ [IdNext]_idVars => IdInv'
  <1> SUFFICES ASSUME IdRoom, IdInv, [IdNext]_idVars PROVE IdInv'  OBVIOUS
  <1>1. CASE ConnectAndReseed \/ WithTimer  BY <1>1, ReseedInv
  <1>2. CASE SessionLost
    BY <1>2, FewerInv DEF SessionLost, IdInv, EchoResolvesItsCommand
  <1>3. ASSUME NEW p \in BOOLEAN, DispatchCommand(p) PROVE IdInv'
    BY <1>3, DispatchInv
  <1>4. ASSUME NEW id \in 0..(IdFloor - 1), ForeignEcho(id) PROVE IdInv'
    <2>1. [id |-> id, nr |-> 0] \in IdCommand /\ id < IdFloor
      BY IdAssumption DEF IdCommand
    <2>2. UNCHANGED <<sequenceCounter, realClock, issued>> /\ idLive' \in BOOLEAN
          /\ awaiting' = awaiting /\ EchoResolvesItsCommand'
          /\ echoes' = echoes \cup {[id |-> id, nr |-> 0]}
      BY <1>4 DEF ForeignEcho, IdInv, IdTypeOK, EchoResolvesItsCommand
    <2> QED BY <2>1, <2>2, FewerInv
  <1>5. ASSUME NEW e \in echoes, ReadEcho(e) PROVE IdInv'
    BY <1>5, ReadEchoInv
  <1>6. ASSUME NEW i \in DOMAIN awaiting, GiveUp(i) PROVE IdInv'
    BY <1>6, FewerInv DEF GiveUp, IdInv, IdTypeOK, EchoResolvesItsCommand
  <1>7. CASE UNCHANGED idVars
    BY <1>7, FewerInv DEF idVars, IdInv, IdTypeOK, EchoResolvesItsCommand
  <1> QED BY <1>1, <1>2, <1>3, <1>4, <1>5, <1>6, <1>7 DEF IdNext

\* As long as the counter goes round at most once, an echo resolves the command
\* it echoes, whatever wraps, reseeds, lost sessions, abandoned commands and
\* other clients' echoes come between (next_sequence_id, take_answered).
THEOREM IdsTheorem == IdRoom /\ IdSpec => []IdsTellApart
  <1>1. IdRoom /\ IdInv => IdsTellApart
    <2> SUFFICES ASSUME IdRoom, IdInv PROVE IdsTellApart  OBVIOUS
    <2>1. \A i \in DOMAIN awaiting : awaiting[i] \in IdCommand /\ Own(awaiting[i]) /\ IdTypeOK
      BY LenProperties, ElementOfSeq DEF IdInv, IdTypeOK
    <2>2. \A i \in DOMAIN awaiting : awaiting[i].id \in IdRange
      BY <2>1, OwnInRange
    <2>3. ASSUME NEW i \in DOMAIN awaiting, NEW j \in DOMAIN awaiting, awaiting[i].id = awaiting[j].id
          PROVE  i = j
      <3>1. awaiting[i].nr = awaiting[j].nr  BY <2>1, <2>3, OwnTellsApart
      <3> QED BY <3>1 DEF IdInv, NrsDistinct
    <2> QED BY <2>2, <2>3 DEF IdInv, IdsTellApart, PendingIdsDistinct
  <1>2. CASE IdRoom  BY <1>1, <1>2, IdInitInv, IdStepInv, PTL DEF IdSpec
  <1>3. CASE ~IdRoom  BY <1>3
  <1> QED BY <1>2, <1>3

-----------------------------------------------------------------------------
(* File operations                                                           *)

\* Where an operation can be, and what its `ref` holds there.
FileSteps == {"idle", "reading", "probe", "upload", "mdtm", "delete", "reopen", "relist",
              "list", "store"}
UploadRef == [sliced : {"this", "other", None}, check : {"Enforce", "Skip"}]
FileRefs == {None, "host", "advanced", "asRead", "failed", "read"} \cup UploadRef
Probe == [sess : Nat, op : Nat, done : BOOLEAN]

FilesTypeOK ==
  /\ fsession \in {"none", "open", "poisoned"}
  /\ dialled \in Nat /\ fops \in Nat
  /\ sessionClock \in {"NotRun", "Failed", "Read"}
  /\ probesClock \in BOOLEAN
  /\ clockReading \in Opt(TimerEpochs) /\ timerNow \in TimerEpochs
  /\ fop \in [at : FileSteps, dir : Nat, ref : FileRefs]
  /\ probeFile \in BOOLEAN /\ excused \in BOOLEAN
  /\ probed \in Seq(Probe)

\* An operation that may still probe has not, and a session whose clock is not
\* read has had no probe run to its end.
ProbeInv ==
  /\ \A i \in DOMAIN probed : probed[i].op <= fops /\ probed[i].sess <= dialled
  /\ ProbedOnce
  /\ fop.at \in {"reading", "probe"} => \A i \in DOMAIN probed : probed[i].op # fops
  /\ sessionClock = "NotRun" =>
       \A i \in DOMAIN probed : probed[i].sess = dialled => ~probed[i].done
  /\ fop.at \in {"upload", "mdtm", "delete"} => probed # <<>>

\* The probe's file is on the card only between its upload and its removal,
\* or with an excuse.
ClearInv == probeFile /\ ~excused => fop.at \in {"mdtm", "delete"}

\* On a real clock a kept reading is of this timer or of one that has run longer,
\* and an operation that got past it has used it or cleared it.
ReadingInv ==
  /\ clockReading # None => timerNow \in Clockless \/ clockReading >= timerNow
  /\ fop.at = "reading" => clockReading # None
  /\ fop.at \in {"probe", "upload", "mdtm", "delete", "reopen", "relist"} => clockReading = None
  /\ ReadingOnItsTimer

\* What is on the card, or being stored, passed the check.
Accepted(r) == r.check = "Enforce" => r.sliced = "this"
CardInv ==
  /\ CardHoldsAccepted
  /\ fop.at = "store" => Accepted(fop.ref)

FilesInv == FilesTypeOK /\ ProbeInv /\ ClearInv /\ ReadingInv /\ CardInv

LEMMA FilesInitInv == FilesInit => FilesInv
  <1> SUFFICES ASSUME FilesInit PROVE FilesInv  OBVIOUS
  <1>1. probed \in Seq(Probe) /\ DOMAIN probed = {}
    BY EmptySeq DEF FilesInit
  <1>2. fop \in [at : FileSteps, dir : Nat, ref : FileRefs] /\ fop.at = "idle"
    BY DEF FilesInit, NoOp, FileSteps, FileRefs
  <1>3. FilesTypeOK  BY <1>1, <1>2 DEF FilesInit, FilesTypeOK, Opt
  <1>4. ProbeInv  BY <1>1, <1>2 DEF FilesInit, ProbeInv, ProbedOnce
  <1>5. ClearInv /\ ReadingInv /\ CardInv
    BY <1>2 DEF FilesInit, ClearInv, ReadingInv, ReadingOnItsTimer, CardInv, CardHoldsAccepted
  <1> QED BY <1>3, <1>4, <1>5 DEF FilesInv

\* A step that begins and ends no probe: operations and sessions only go on.
Quiet ==
  /\ probed' = probed
  /\ fops' >= fops
  /\ \/ dialled' = dialled /\ (sessionClock' = sessionClock \/ sessionClock' # "NotRun")
     \/ dialled' > dialled
  /\ fop'.at \in {"reading", "probe"} =>
       fops' > fops \/ (fops' = fops /\ fop.at \in {"reading", "probe"})
  /\ fop'.at \in {"upload", "mdtm", "delete"} => fop.at \in {"upload", "mdtm", "delete"}

LEMMA QuietKeepsProbes ==
  ASSUME FilesTypeOK, ProbeInv, Quiet, dialled' \in Nat, fops' \in Nat
  PROVE  ProbeInv'
  <1>1. \A i \in DOMAIN probed : probed[i] \in Probe
    BY LenProperties, ElementOfSeq DEF FilesTypeOK
  <1>2. \A i \in DOMAIN probed : probed[i].op \in Nat /\ probed[i].sess \in Nat
    BY <1>1 DEF Probe
  <1>3. dialled \in Nat /\ fops \in Nat /\ dialled' >= dialled  BY DEF FilesTypeOK, Quiet
  <1>4. \A i \in DOMAIN probed : probed[i].op <= fops' /\ probed[i].sess <= dialled'
    BY <1>2, <1>3 DEF ProbeInv, Quiet
  <1>5. ASSUME fop'.at \in {"reading", "probe"}, NEW i \in DOMAIN probed PROVE probed[i].op # fops'
    BY <1>2, <1>3, <1>5 DEF ProbeInv, Quiet
  <1>6. ASSUME sessionClock' = "NotRun", NEW i \in DOMAIN probed, probed[i].sess = dialled'
        PROVE  ~probed[i].done
    BY <1>2, <1>3, <1>6 DEF ProbeInv, Quiet
  <1>7. ProbedOnce'  BY DEF ProbeInv, ProbedOnce, Quiet
  <1>8. probed' = probed  BY DEF Quiet
  <1>9. fop'.at \in {"upload", "mdtm", "delete"} => probed # <<>>  BY DEF Quiet, ProbeInv
  <1> QED BY <1>4, <1>5, <1>6, <1>7, <1>8, <1>9 DEF ProbeInv

\* The type of everything but the operation and the probes.
Plain ==
  /\ fsession \in {"none", "open", "poisoned"}
  /\ dialled \in Nat /\ fops \in Nat
  /\ sessionClock \in {"NotRun", "Failed", "Read"}
  /\ probesClock \in BOOLEAN
  /\ clockReading \in Opt(TimerEpochs) /\ timerNow \in TimerEpochs
  /\ probeFile \in BOOLEAN /\ excused \in BOOLEAN
Kept == Plain' /\ fop' \in [at : FileSteps, dir : Nat, ref : FileRefs] /\ Quiet
        /\ ClearInv' /\ ReadingInv' /\ CardInv'

LEMMA FtpsDialFailsKept ==
  ASSUME FilesInv, FtpsDialFails
  PROVE  Kept
  <1>0. Plain /\ ClearInv /\ ReadingInv /\ CardInv
        /\ fop \in [at : FileSteps, dir : Nat, ref : FileRefs]
        /\ fop.at \in FileSteps /\ fop.dir \in Nat /\ fop.ref \in FileRefs
    BY DEF FilesInv, FilesTypeOK, Plain
  <1> USE FilesAssumption DEF FtpsDialFails, EndFileOp, NoOp, fileHist, Opt
  <1>1. Plain'  BY <1>0 DEF Plain
  <1>2. fop' \in [at : FileSteps, dir : Nat, ref : FileRefs]
    BY <1>0 DEF FileSteps, FileRefs
  <1>3. Quiet  BY <1>0 DEF Plain, Quiet
  <1>4. ClearInv'  BY <1>0 DEF Plain, ClearInv
  <1>5. ReadingInv'  BY <1>0 DEF Plain, ReadingInv, ReadingOnItsTimer
  <1>6. CardInv'  BY <1>0 DEF CardInv, CardHoldsAccepted
  <1> QED BY <1>1, <1>2, <1>3, <1>4, <1>5, <1>6 DEF Kept

LEMMA DropFileOpKept ==
  ASSUME FilesInv, DropFileOp
  PROVE  Kept
  <1>0. Plain /\ ClearInv /\ ReadingInv /\ CardInv
        /\ fop \in [at : FileSteps, dir : Nat, ref : FileRefs]
        /\ fop.at \in FileSteps /\ fop.dir \in Nat /\ fop.ref \in FileRefs
    BY DEF FilesInv, FilesTypeOK, Plain
  <1> USE FilesAssumption DEF DropFileOp, EndFileOp, NoOp, Opt
  <1>1. Plain'  BY <1>0 DEF Plain
  <1>2. fop' \in [at : FileSteps, dir : Nat, ref : FileRefs]
    BY <1>0 DEF FileSteps, FileRefs
  <1>3. Quiet  BY <1>0 DEF Plain, Quiet
  <1>4. ClearInv'  BY <1>0 DEF Plain, ClearInv
  <1>5. ReadingInv'  BY <1>0 DEF Plain, ReadingInv, ReadingOnItsTimer
  <1>6. CardInv'  BY <1>0 DEF CardInv, CardHoldsAccepted
  <1> QED BY <1>1, <1>2, <1>3, <1>4, <1>5, <1>6 DEF Kept

LEMMA SessionBreaksKept ==
  ASSUME FilesInv, SessionBreaks
  PROVE  Kept
  <1>0. Plain /\ ClearInv /\ ReadingInv /\ CardInv
        /\ fop \in [at : FileSteps, dir : Nat, ref : FileRefs]
        /\ fop.at \in FileSteps /\ fop.dir \in Nat /\ fop.ref \in FileRefs
    BY DEF FilesInv, FilesTypeOK, Plain
  <1> USE FilesAssumption DEF SessionBreaks, fileHist, Opt
  <1>1. Plain'  BY <1>0 DEF Plain
  <1>2. fop' \in [at : FileSteps, dir : Nat, ref : FileRefs]
    BY <1>0 DEF FileSteps, FileRefs
  <1>3. Quiet  BY <1>0 DEF Plain, Quiet
  <1>4. ClearInv'  BY <1>0 DEF Plain, ClearInv
  <1>5. ReadingInv'  BY <1>0 DEF Plain, ReadingInv, ReadingOnItsTimer
  <1>6. CardInv'  BY <1>0 DEF CardInv, CardHoldsAccepted
  <1> QED BY <1>1, <1>2, <1>3, <1>4, <1>5, <1>6 DEF Kept

LEMMA BeginListKept ==
  ASSUME FilesInv, BeginList
  PROVE  Kept
  <1>0. Plain /\ ClearInv /\ ReadingInv /\ CardInv
        /\ fop \in [at : FileSteps, dir : Nat, ref : FileRefs]
        /\ fop.at \in FileSteps /\ fop.dir \in Nat /\ fop.ref \in FileRefs
    BY DEF FilesInv, FilesTypeOK, Plain
  <1> USE FilesAssumption DEF BeginList, NoOp, fileHist, HostClock, Opt
  <1>1. Plain'  BY <1>0 DEF Plain
  <1>2. \/ fop' = [at |-> "reading", dir |-> 0, ref |-> None] /\ clockReading # None
        \/ fop' = [at |-> "probe", dir |-> 0, ref |-> None] /\ clockReading = None
        \/ clockReading = None
             /\ \E h \in {"host", None} : fop' = [at |-> "list", dir |-> 0, ref |-> h]
    OBVIOUS
  <1>3. /\ fop' \in [at : FileSteps, dir : Nat, ref : FileRefs]
        /\ fop'.at \in {"reading", "probe", "list"} /\ fop'.ref \in HostClock
        /\ fop'.at # "reading" <=> clockReading = None
    BY <1>2 DEF FileSteps, FileRefs
  <1>4. Quiet  BY <1>0, <1>3 DEF Plain, Quiet
  <1>5. ClearInv'  BY <1>0 DEF Plain, ClearInv
  <1>6. ReadingInv'  BY <1>0, <1>3 DEF Plain, ReadingInv, ReadingOnItsTimer
  <1>7. CardInv'  BY <1>0, <1>3 DEF CardInv, CardHoldsAccepted
  <1> QED BY <1>1, <1>3, <1>4, <1>5, <1>6, <1>7 DEF Kept

LEMMA UseReadingKept ==
  ASSUME FilesInv, UseReading
  PROVE  Kept
  <1>0. Plain /\ ClearInv /\ ReadingInv /\ CardInv
        /\ fop \in [at : FileSteps, dir : Nat, ref : FileRefs]
        /\ fop.at \in FileSteps /\ fop.dir \in Nat /\ fop.ref \in FileRefs
    BY DEF FilesInv, FilesTypeOK, Plain
  <1> USE FilesAssumption DEF UseReading, ReachFtps, FileAt, fileHist, HostClock, Opt
  <1>1. Plain'  BY <1>0 DEF Plain
  <1>2. fop' \in [at : FileSteps, dir : Nat, ref : FileRefs]
    BY <1>0 DEF FileSteps, FileRefs, ReadingNow
  <1>3. \/ /\ fop'.at = "list" /\ clockReading' = clockReading
           /\ \/ timerNow \in Clockless /\ fop'.ref = "asRead"
              \/ timerNow \notin Clockless /\ clockReading <= timerNow /\ fop'.ref = "advanced"
        \/ /\ fop'.at \in {"probe", "list"} /\ clockReading' = None
           /\ fop'.at = "list" => fop'.ref \in HostClock
    BY <1>0 DEF ReadingNow
  <1>4. Quiet
    <2>1. probed' = probed /\ fops' = fops /\ fop.at = "reading" /\ fop'.at \in {"probe", "list"}
      BY <1>3
    <2>2. (dialled' = dialled /\ sessionClock' = sessionClock) \/ dialled' > dialled
      BY <1>0 DEF Plain
    <2> QED BY <2>1, <2>2, <1>0 DEF Plain, Quiet
  <1>5. ClearInv'  BY <1>0 DEF Plain, ClearInv
  <1>6. ReadingInv'
    <2>1. /\ timerNow' = timerNow /\ timerNow \in Nat
          /\ clockReading # None /\ clockReading \in Nat
          /\ timerNow \in Clockless \/ clockReading >= timerNow
      BY <1>0 DEF Plain, ReadingInv
    <2>2. CASE /\ fop'.at = "list" /\ clockReading' = clockReading
               /\ timerNow \in Clockless /\ fop'.ref = "asRead"
      BY <2>1, <2>2 DEF ReadingInv, ReadingOnItsTimer
    <2>3. CASE /\ fop'.at = "list" /\ clockReading' = clockReading
               /\ timerNow \notin Clockless /\ clockReading <= timerNow /\ fop'.ref = "advanced"
      <3>1. clockReading = timerNow  BY <2>1, <2>3
      <3> QED BY <2>1, <2>3, <3>1 DEF ReadingInv, ReadingOnItsTimer
    <2>4. CASE fop'.at \in {"probe", "list"} /\ clockReading' = None
               /\ (fop'.at = "list" => fop'.ref \in HostClock)
      BY <2>4, NoneAssumption DEF ReadingInv, ReadingOnItsTimer
    <2> QED BY <1>3, <2>2, <2>3, <2>4
  <1>7. CardInv'  BY <1>0, <1>3 DEF CardInv, CardHoldsAccepted
  <1> QED BY <1>1, <1>2, <1>4, <1>5, <1>6, <1>7 DEF Kept

LEMMA ProbeUploadKept ==
  ASSUME FilesInv, NEW ok \in BOOLEAN, NEW b \in BOOLEAN, NEW l \in BOOLEAN, ProbeUpload(ok, b, l)
  PROVE  Kept
  <1>0. Plain /\ ClearInv /\ ReadingInv /\ CardInv
        /\ fop \in [at : FileSteps, dir : Nat, ref : FileRefs]
        /\ fop.at \in FileSteps /\ fop.dir \in Nat /\ fop.ref \in FileRefs
    BY DEF FilesInv, FilesTypeOK, Plain
  <1> USE FilesAssumption DEF ProbeUpload, FileAt, fileHist, Opt
  <1>1. Plain'  BY <1>0 DEF Plain
  <1>2. fop' \in [at : FileSteps, dir : Nat, ref : FileRefs]
    BY <1>0 DEF FileSteps, FileRefs, UploadRef
  <1>3. Quiet  BY <1>0 DEF Plain, Quiet
  <1>4. ClearInv'  BY <1>0 DEF Plain, ClearInv
  <1>5. ReadingInv'  BY <1>0 DEF Plain, ReadingInv, ReadingOnItsTimer
  <1>6. CardInv'  BY <1>0 DEF CardInv, CardHoldsAccepted
  <1> QED BY <1>1, <1>2, <1>3, <1>4, <1>5, <1>6 DEF Kept

LEMMA ProbeMdtmKept ==
  ASSUME FilesInv, NEW ok \in BOOLEAN, NEW b \in BOOLEAN, ProbeMdtm(ok, b)
  PROVE  Kept
  <1>0. Plain /\ ClearInv /\ ReadingInv /\ CardInv
        /\ fop \in [at : FileSteps, dir : Nat, ref : FileRefs]
        /\ fop.at \in FileSteps /\ fop.dir \in Nat /\ fop.ref \in FileRefs
    BY DEF FilesInv, FilesTypeOK, Plain
  <1> USE FilesAssumption DEF ProbeMdtm, FileAt, fileHist, Opt
  <1>1. Plain'  BY <1>0 DEF Plain
  <1>2. fop' \in [at : FileSteps, dir : Nat, ref : FileRefs]
    BY <1>0 DEF FileSteps, FileRefs
  <1>3. Quiet  BY <1>0 DEF Plain, Quiet
  <1>4. ClearInv'  BY <1>0 DEF Plain, ClearInv
  <1>5. ReadingInv'  BY <1>0 DEF Plain, ReadingInv, ReadingOnItsTimer
  <1>6. CardInv'  BY <1>0 DEF CardInv, CardHoldsAccepted
  <1> QED BY <1>1, <1>2, <1>3, <1>4, <1>5, <1>6 DEF Kept

LEMMA ReopenAfterProbeKept ==
  ASSUME FilesInv, ReopenAfterProbe
  PROVE  Kept
  <1>0. Plain /\ ClearInv /\ ReadingInv /\ CardInv
        /\ fop \in [at : FileSteps, dir : Nat, ref : FileRefs]
        /\ fop.at \in FileSteps /\ fop.dir \in Nat /\ fop.ref \in FileRefs
    BY DEF FilesInv, FilesTypeOK, Plain
  <1> USE FilesAssumption DEF ReopenAfterProbe, EndFileOp, FileAt, NoOp, fileHist, Opt
  <1>1. Plain'  BY <1>0 DEF Plain
  <1>2. fop' \in [at : FileSteps, dir : Nat, ref : FileRefs]
    BY <1>0 DEF FileSteps, FileRefs
  <1>3. Quiet  BY <1>0 DEF Plain, Quiet
  <1>4. ClearInv'  BY <1>0 DEF Plain, ClearInv
  <1>5. ReadingInv'  BY <1>0 DEF Plain, ReadingInv, ReadingOnItsTimer
  <1>6. CardInv'  BY <1>0 DEF CardInv, CardHoldsAccepted
  <1> QED BY <1>1, <1>2, <1>3, <1>4, <1>5, <1>6 DEF Kept

LEMMA ChooseReferenceKept ==
  ASSUME FilesInv, ChooseReference
  PROVE  Kept
  <1>0. Plain /\ ClearInv /\ ReadingInv /\ CardInv
        /\ fop \in [at : FileSteps, dir : Nat, ref : FileRefs]
        /\ fop.at \in FileSteps /\ fop.dir \in Nat /\ fop.ref \in FileRefs
    BY DEF FilesInv, FilesTypeOK, Plain
  <1> USE FilesAssumption DEF ChooseReference, ReachFtps, fileHist, HostClock, Opt
  <1>1. Plain'  BY <1>0 DEF Plain
  <1>2. /\ fop' \in [at : FileSteps, dir : Nat, ref : FileRefs] /\ fop'.at = "list"
        /\ clockReading' = None
        /\ fop'.ref = "advanced" => timerNow' \notin Clockless
    <2>1. PICK h \in HostClock :
            fop' = [fop EXCEPT !.at = "list",
                      !.ref = IF sessionClock' = "Read" THEN Or(ReadingNow(timerNow), h) ELSE h]
      BY Zenon
    <2>2. timerNow' = timerNow /\ clockReading' = None  BY <1>0 DEF ReadingInv
    <2>3. DEFINE ref == IF sessionClock' = "Read" THEN Or(ReadingNow(timerNow), h) ELSE h
    <2>4. ref \in FileRefs /\ (ref = "advanced" => timerNow \notin Clockless)
      BY DEF Or, ReadingNow, FileRefs
    <2>5. fop' = [fop EXCEPT !.at = "list", !.ref = ref]  BY <2>1
    <2> HIDE DEF ref
    <2> QED BY <1>0, <2>2, <2>4, <2>5 DEF FileSteps
  <1>3. Quiet  BY <1>0 DEF Plain, Quiet
  <1>4. ClearInv'  BY <1>0 DEF Plain, ClearInv
  <1>5. ReadingInv'  BY <1>2 DEF ReadingInv, ReadingOnItsTimer
  <1>6. CardInv'  BY <1>0 DEF CardInv, CardHoldsAccepted
  <1> QED BY <1>1, <1>2, <1>3, <1>4, <1>5, <1>6 DEF Kept

LEMMA ListDirectoryKept ==
  ASSUME FilesInv, ListDirectory
  PROVE  Kept
  <1>0. Plain /\ ClearInv /\ ReadingInv /\ CardInv
        /\ fop \in [at : FileSteps, dir : Nat, ref : FileRefs]
        /\ fop.at \in FileSteps /\ fop.dir \in Nat /\ fop.ref \in FileRefs
    BY DEF FilesInv, FilesTypeOK, Plain
  <1> USE FilesAssumption DEF ListDirectory, EndFileOp, ReachFtps, NoOp, fileHist, Opt
  <1>1. Plain'  BY <1>0 DEF Plain
  <1>2. fop' \in [at : FileSteps, dir : Nat, ref : FileRefs]
    BY <1>0 DEF FileSteps, FileRefs
  <1>3. Quiet  BY <1>0 DEF Plain, Quiet
  <1>4. ClearInv'  BY <1>0 DEF Plain, ClearInv
  <1>5. ReadingInv'  BY <1>0 DEF Plain, ReadingInv, ReadingOnItsTimer
  <1>6. CardInv'  BY <1>0 DEF CardInv, CardHoldsAccepted
  <1> QED BY <1>1, <1>2, <1>3, <1>4, <1>5, <1>6 DEF Kept

LEMMA ListFailsKept ==
  ASSUME FilesInv, NEW b \in BOOLEAN, ListFails(b)
  PROVE  Kept
  <1>0. Plain /\ ClearInv /\ ReadingInv /\ CardInv
        /\ fop \in [at : FileSteps, dir : Nat, ref : FileRefs]
        /\ fop.at \in FileSteps /\ fop.dir \in Nat /\ fop.ref \in FileRefs
    BY DEF FilesInv, FilesTypeOK, Plain
  <1> USE FilesAssumption DEF ListFails, EndFileOp, NoOp, fileHist, Opt
  <1>1. Plain'  BY <1>0 DEF Plain
  <1>2. fop' \in [at : FileSteps, dir : Nat, ref : FileRefs]
    BY <1>0 DEF FileSteps, FileRefs
  <1>3. Quiet  BY <1>0 DEF Plain, Quiet
  <1>4. ClearInv'  BY <1>0 DEF Plain, ClearInv
  <1>5. ReadingInv'  BY <1>0 DEF Plain, ReadingInv, ReadingOnItsTimer
  <1>6. CardInv'  BY <1>0 DEF CardInv, CardHoldsAccepted
  <1> QED BY <1>1, <1>2, <1>3, <1>4, <1>5, <1>6 DEF Kept

LEMMA KeepReadingKept ==
  ASSUME FilesInv, KeepReading
  PROVE  Kept
  <1>0. Plain /\ ClearInv /\ ReadingInv /\ CardInv
        /\ fop \in [at : FileSteps, dir : Nat, ref : FileRefs]
        /\ fop.at \in FileSteps /\ fop.dir \in Nat /\ fop.ref \in FileRefs
    BY DEF FilesInv, FilesTypeOK, Plain
  <1> USE FilesAssumption DEF KeepReading, fileHist, Opt
  <1>1. Plain'  BY <1>0 DEF Plain
  <1>2. fop' \in [at : FileSteps, dir : Nat, ref : FileRefs]
    BY <1>0 DEF FileSteps, FileRefs
  <1>3. Quiet  BY <1>0 DEF Plain, Quiet
  <1>4. ClearInv'  BY <1>0 DEF Plain, ClearInv
  <1>5. ReadingInv'  BY <1>0 DEF Plain, ReadingInv, ReadingOnItsTimer
  <1>6. CardInv'  BY <1>0 DEF CardInv, CardHoldsAccepted
  <1> QED BY <1>1, <1>2, <1>3, <1>4, <1>5, <1>6 DEF Kept

LEMMA BeginUploadKept ==
  ASSUME FilesInv, NEW n \in BOOLEAN, NEW st \in {"External", "Internal"}, NEW sl \in {"this", "other", None}, NEW c \in {"Enforce", "Skip"}, BeginUpload(n, st, sl, c)
  PROVE  Kept
  <1>0. Plain /\ ClearInv /\ ReadingInv /\ CardInv
        /\ fop \in [at : FileSteps, dir : Nat, ref : FileRefs]
        /\ fop.at \in FileSteps /\ fop.dir \in Nat /\ fop.ref \in FileRefs
    BY DEF FilesInv, FilesTypeOK, Plain
  <1> USE FilesAssumption DEF BeginUpload, EndFileOp, NoOp, fileHist, Opt
  <1>1. Plain'  BY <1>0 DEF Plain
  <1>2. \/ fop' = [at |-> "idle", dir |-> 0, ref |-> None]
        \/ /\ fop' = [at |-> "store", dir |-> 0, ref |-> [sliced |-> sl, check |-> c]]
           /\ ~RefusesUpload(sl, c)
    OBVIOUS
  <1>3. fop' \in [at : FileSteps, dir : Nat, ref : FileRefs]
        /\ fop'.at \in {"idle", "store"} /\ (fop'.at = "store" => Accepted(fop'.ref))
    <2>1. [sliced |-> sl, check |-> c] \in UploadRef  BY DEF UploadRef
    <2>2. ~RefusesUpload(sl, c) => Accepted([sliced |-> sl, check |-> c])
      BY DEF RefusesUpload, Accepted
    <2>3. CASE fop' = [at |-> "idle", dir |-> 0, ref |-> None]
      BY <2>3 DEF FileSteps, FileRefs
    <2>4. CASE /\ fop' = [at |-> "store", dir |-> 0, ref |-> [sliced |-> sl, check |-> c]]
               /\ ~RefusesUpload(sl, c)
      <3>1. fop' \in [at : FileSteps, dir : Nat, ref : FileRefs]
        BY <2>1, <2>4 DEF FileSteps, FileRefs
      <3>2. fop'.at = "store" /\ fop'.ref = [sliced |-> sl, check |-> c]
        BY <2>4
      <3> QED BY <2>2, <2>4, <3>1, <3>2
    <2> QED BY <1>2, <2>3, <2>4
  <1>4. Quiet  BY <1>0, <1>3 DEF Plain, Quiet
  <1>5. ClearInv'  BY <1>0 DEF Plain, ClearInv
  <1>6. ReadingInv'  BY <1>0, <1>3 DEF Plain, ReadingInv, ReadingOnItsTimer
  <1>7. CardInv'  BY <1>0, <1>3 DEF CardInv, CardHoldsAccepted, Accepted
  <1> QED BY <1>1, <1>3, <1>4, <1>5, <1>6, <1>7 DEF Kept

LEMMA ReachForUploadKept ==
  ASSUME FilesInv, ReachForUpload
  PROVE  Kept
  <1>0. Plain /\ ClearInv /\ ReadingInv /\ CardInv
        /\ fop \in [at : FileSteps, dir : Nat, ref : FileRefs]
        /\ fop.at \in FileSteps /\ fop.dir \in Nat /\ fop.ref \in FileRefs
    BY DEF FilesInv, FilesTypeOK, Plain
  <1> USE FilesAssumption DEF ReachForUpload, ReachFtps, fileHist, Opt
  <1>1. Plain'  BY <1>0 DEF Plain
  <1>2. fop' \in [at : FileSteps, dir : Nat, ref : FileRefs]
    BY <1>0 DEF FileSteps, FileRefs
  <1>3. Quiet  BY <1>0 DEF Plain, Quiet
  <1>4. ClearInv'  BY <1>0 DEF Plain, ClearInv
  <1>5. ReadingInv'  BY <1>0 DEF Plain, ReadingInv, ReadingOnItsTimer
  <1>6. CardInv'  BY <1>0 DEF CardInv, CardHoldsAccepted
  <1> QED BY <1>1, <1>2, <1>3, <1>4, <1>5, <1>6 DEF Kept

LEMMA StoreUploadKept ==
  ASSUME FilesInv, NEW ok \in BOOLEAN, NEW st \in BOOLEAN, NEW b \in BOOLEAN, StoreUpload(ok, st, b)
  PROVE  Kept
  <1>0. Plain /\ ClearInv /\ ReadingInv /\ CardInv
        /\ fop \in [at : FileSteps, dir : Nat, ref : FileRefs]
        /\ fop.at \in FileSteps /\ fop.dir \in Nat /\ fop.ref \in FileRefs
    BY DEF FilesInv, FilesTypeOK, Plain
  <1> USE FilesAssumption DEF StoreUpload, EndFileOp, NoOp, Opt
  <1>1. Plain'  BY <1>0 DEF Plain
  <1>2. fop' \in [at : FileSteps, dir : Nat, ref : FileRefs]
    BY <1>0 DEF FileSteps, FileRefs, UploadRef
  <1>3. Quiet  BY <1>0 DEF Plain, Quiet
  <1>4. ClearInv'  BY <1>0 DEF Plain, ClearInv
  <1>5. ReadingInv'  BY <1>0 DEF Plain, ReadingInv, ReadingOnItsTimer
  <1>6. CardInv'  BY <1>0 DEF CardInv, CardHoldsAccepted, Accepted
  <1> QED BY <1>1, <1>2, <1>3, <1>4, <1>5, <1>6 DEF Kept

LEMMA SetReadingKept ==
  ASSUME FilesInv, NEW r \in Opt(TimerEpochs), SetReading(r)
  PROVE  Kept
  <1>0. Plain /\ ClearInv /\ ReadingInv /\ CardInv
        /\ fop \in [at : FileSteps, dir : Nat, ref : FileRefs]
        /\ fop.at \in FileSteps /\ fop.dir \in Nat /\ fop.ref \in FileRefs
    BY DEF FilesInv, FilesTypeOK, Plain
  <1> USE FilesAssumption DEF SetReading, fileHist, Opt
  <1>1. Plain'  BY <1>0 DEF Plain
  <1>2. fop' \in [at : FileSteps, dir : Nat, ref : FileRefs]
    BY <1>0 DEF FileSteps, FileRefs
  <1>3. Quiet  BY <1>0 DEF Plain, Quiet
  <1>4. ClearInv'  BY <1>0 DEF Plain, ClearInv
  <1>5. ReadingInv'  BY <1>0 DEF Plain, ReadingInv, ReadingOnItsTimer
  <1>6. CardInv'  BY <1>0 DEF CardInv, CardHoldsAccepted
  <1> QED BY <1>1, <1>2, <1>3, <1>4, <1>5, <1>6 DEF Kept

LEMMA AttachFtpsKept ==
  ASSUME FilesInv, NEW t \in TimerEpochs, AttachFtps(t)
  PROVE  Kept
  <1>0. Plain /\ ClearInv /\ ReadingInv /\ CardInv
        /\ fop \in [at : FileSteps, dir : Nat, ref : FileRefs]
        /\ fop.at \in FileSteps /\ fop.dir \in Nat /\ fop.ref \in FileRefs
    BY DEF FilesInv, FilesTypeOK, Plain
  <1> USE FilesAssumption DEF AttachFtps, fileHist, Opt
  <1>1. Plain'  BY <1>0 DEF Plain, ReadingAfterAttach
  <1>2. fop' \in [at : FileSteps, dir : Nat, ref : FileRefs]
    BY <1>0 DEF FileSteps, FileRefs
  <1>3. Quiet  BY <1>0 DEF Plain, Quiet
  <1>4. ClearInv'  BY <1>0 DEF Plain, ClearInv
  <1>5. ReadingInv'  BY <1>0 DEF Plain, ReadingInv, ReadingOnItsTimer, ReadingAfterAttach
  <1>6. CardInv'  BY <1>0 DEF CardInv, CardHoldsAccepted
  <1> QED BY <1>1, <1>2, <1>3, <1>4, <1>5, <1>6 DEF Kept

\* A probe begins: the first of this operation, on a session none was finished on.
LEMMA StartProbeInv ==
  ASSUME FilesInv, StartProbe
  PROVE  FilesInv'
  <1>0. Plain /\ ClearInv /\ ReadingInv /\ CardInv
        /\ fop \in [at : FileSteps, dir : Nat, ref : FileRefs]
        /\ ProbeInv /\ FilesTypeOK /\ probed \in Seq(Probe) /\ fop.at = "probe"
    BY DEF FilesInv, FilesTypeOK, Plain, StartProbe
  <1>1. Plain'
    BY <1>0, FilesAssumption DEF Plain, StartProbe, ReachFtps
  <1>2. fop' \in [at : FileSteps, dir : Nat, ref : FileRefs] /\ fop'.at \in {"upload", "relist"}
    BY <1>0 DEF StartProbe, FileAt, FileSteps
  <1>3. ClearInv' /\ ReadingInv' /\ CardInv'
    BY <1>0, <1>2 DEF ClearInv, ReadingInv, ReadingOnItsTimer, CardInv, CardHoldsAccepted, StartProbe
  <1>4. CASE ~Probes
    <2>1. fop'.at = "relist" /\ probed' = probed /\ fops' = fops
      BY <1>0, <1>4 DEF StartProbe, FileAt
    <2>2. (dialled' = dialled /\ sessionClock' = sessionClock) \/ dialled' > dialled
      BY <1>0 DEF StartProbe, ReachFtps, Plain
    <2>3. Quiet  BY <2>1, <2>2, <1>0 DEF Quiet, Plain
    <2>4. ProbeInv'  BY <1>0, <1>1, <2>3, QuietKeepsProbes DEF Plain
    <2> QED BY <1>1, <1>2, <1>3, <1>0, <2>1, <2>4 DEF Plain, FilesInv, FilesTypeOK
  <1>5. CASE Probes
    <2>1. PICK p : p = [sess |-> dialled', op |-> fops, done |-> FALSE]  OBVIOUS
    <2>2. probed' = Append(probed, p) /\ fops' = fops /\ fop'.at = "upload" /\ sessionClock' = "NotRun"
      BY <1>0, <1>5, <2>1 DEF StartProbe, FileAt, Probes
    <2>3. p \in Probe /\ p.sess = dialled' /\ p.op = fops /\ p.done = FALSE
          /\ fops \in Nat /\ dialled \in Nat /\ dialled' \in Nat
      BY <1>0, <1>1, <2>1 DEF Probe, Plain
    <2>4. /\ probed' \in Seq(Probe) /\ Len(probed) \in Nat /\ DOMAIN probed = 1..Len(probed)
          /\ DOMAIN probed' = 1..(Len(probed) + 1) /\ probed' # <<>>
          /\ \A i \in 1..Len(probed) : probed'[i] = probed[i]
          /\ probed'[Len(probed) + 1] = p
      BY <1>0, <2>2, <2>3, AppendProperties, LenProperties, EmptySeq
    <2>5. \A i \in DOMAIN probed : probed[i] \in Probe
      BY <1>0, <2>4, ElementOfSeq
    <2>6. \A i \in DOMAIN probed :
             /\ probed[i].op < fops /\ probed[i].sess <= dialled'
             /\ probed[i].sess = dialled' => ~probed[i].done
      <3> SUFFICES ASSUME NEW i \in DOMAIN probed
                   PROVE  /\ probed[i].op < fops /\ probed[i].sess <= dialled'
                          /\ probed[i].sess = dialled' => ~probed[i].done
        OBVIOUS
      <3>1. probed[i].op \in Nat /\ probed[i].sess \in Nat  BY <2>5 DEF Probe
      <3>2. probed[i].op <= fops /\ probed[i].sess <= dialled /\ probed[i].op # fops
            /\ (sessionClock = "NotRun" => (probed[i].sess = dialled => ~probed[i].done))
        BY <1>0 DEF ProbeInv
      <3>3. (dialled' = dialled /\ sessionClock' = sessionClock) \/ dialled' = dialled + 1
        BY DEF StartProbe, ReachFtps
      <3> QED BY <3>1, <3>2, <3>3, <2>2, <2>3
    <2>7. ASSUME NEW i \in DOMAIN probed', NEW j \in DOMAIN probed', i < j
          PROVE  /\ probed'[i].op # probed'[j].op
                 /\ probed'[i].sess = probed'[j].sess => ~probed'[i].done
      <3>1. i \in DOMAIN probed /\ probed'[i] = probed[i]
        BY <2>4, <2>7
      <3>2. CASE j \in DOMAIN probed
        <4>1. probed'[j] = probed[j]  BY <3>2, <2>4
        <4> QED BY <1>0, <2>7, <3>1, <3>2, <4>1 DEF ProbeInv, ProbedOnce
      <3>3. CASE j \notin DOMAIN probed
        <4>1. probed'[j] = p  BY <3>3, <2>4
        <4>2. probed[i].op \in Nat  BY <3>1, <2>5 DEF Probe
        <4> QED BY <3>1, <4>1, <4>2, <2>3, <2>6
      <3> QED BY <3>2, <3>3
    <2>8. \A i \in DOMAIN probed' :
             /\ probed'[i].op <= fops' /\ probed'[i].sess <= dialled'
             /\ probed'[i].sess = dialled' => ~probed'[i].done
      <3> SUFFICES ASSUME NEW i \in DOMAIN probed'
                   PROVE  /\ probed'[i].op <= fops' /\ probed'[i].sess <= dialled'
                          /\ probed'[i].sess = dialled' => ~probed'[i].done
        OBVIOUS
      <3>1. CASE i \in DOMAIN probed
        <4>1. probed'[i] = probed[i] /\ probed[i].op \in Nat  BY <3>1, <2>4, <2>5 DEF Probe
        <4> QED BY <3>1, <4>1, <2>2, <2>3, <2>6
      <3>2. CASE i \notin DOMAIN probed
        <4>1. probed'[i] = p  BY <3>2, <2>4
        <4> QED BY <4>1, <2>2, <2>3
      <3> QED BY <3>1, <3>2
    <2>9. ProbeInv'
      BY <2>2, <2>4, <2>7, <2>8 DEF ProbeInv, ProbedOnce
    <2> QED BY <1>1, <1>2, <1>3, <2>4, <2>9 DEF Plain, FilesInv, FilesTypeOK
  <1> QED BY <1>4, <1>5

\* ... and ends: the session's clock is read or known not to be.
LEMMA ProbeDeleteInv ==
  ASSUME FilesInv, NEW ok \in BOOLEAN, NEW b \in BOOLEAN, ProbeDelete(ok, b)
  PROVE  FilesInv'
  <1>0. Plain /\ ClearInv /\ ReadingInv /\ CardInv
        /\ fop \in [at : FileSteps, dir : Nat, ref : FileRefs]
        /\ ProbeInv /\ FilesTypeOK /\ probed \in Seq(Probe) /\ fop.at = "delete" /\ probed # <<>>
    BY DEF FilesInv, FilesTypeOK, Plain, ProbeDelete, ProbeInv
  <1>1. Plain'
    BY <1>0 DEF Plain, ProbeDelete, CleansUp
  <1>2. fop' \in [at : FileSteps, dir : Nat, ref : FileRefs] /\ fop'.at \in {"reopen", "relist"}
    BY <1>0 DEF ProbeDelete, FileSteps, FileRefs
  <1>3. ClearInv'
    BY <1>0, <1>2 DEF ClearInv, ProbeDelete, CleansUp, Plain
  <1>4. ReadingInv' /\ CardInv'
    BY <1>0, <1>2 DEF ReadingInv, ReadingOnItsTimer, CardInv, CardHoldsAccepted, ProbeDelete
  <1>5. /\ probed' = [probed EXCEPT ![Len(probed)].done = TRUE]
        /\ fops' = fops /\ dialled' = dialled /\ sessionClock' # "NotRun"
    BY DEF ProbeDelete
  <1>6. Len(probed) \in Nat \ {0} /\ DOMAIN probed = 1..Len(probed)
        /\ Len(probed) \in DOMAIN probed
    BY <1>0, LenProperties, EmptySeq
  <1>7. \A i \in DOMAIN probed : probed[i] \in Probe
    BY <1>0, <1>6, ElementOfSeq
  <1>8. DOMAIN probed' = DOMAIN probed
        /\ \A i \in DOMAIN probed :
             probed'[i] = IF i = Len(probed) THEN [probed[i] EXCEPT !.done = TRUE] ELSE probed[i]
    BY <1>5, <1>6
  <1>9. \A i \in DOMAIN probed : /\ probed'[i] \in Probe
                                 /\ probed'[i].op = probed[i].op /\ probed'[i].sess = probed[i].sess
                                 /\ i # Len(probed) => probed'[i].done = probed[i].done
    BY <1>7, <1>8 DEF Probe
  <1>10. probed' \in Seq(Probe) /\ probed' # <<>>
    <2>1. probed \in [1..Len(probed) -> Probe]
      BY <1>0, LenProperties
    <2>2. probed' = [i \in 1..Len(probed) |-> probed'[i]]
      BY <2>1, <1>5
    <2>3. probed' \in [1..Len(probed) -> Probe]
      BY <2>2, <1>6, <1>9
    <2>4. probed' \in Seq(Probe)
      BY <2>3, <1>6, SeqDef
    <2> QED BY <2>4, <1>6, <1>8, EmptySeq
  <1>11. ASSUME NEW i \in DOMAIN probed, NEW j \in DOMAIN probed, i < j
         PROVE  /\ probed'[i].op # probed'[j].op
                /\ probed'[i].sess = probed'[j].sess => ~probed'[i].done
    <2>1. i # Len(probed)  BY <1>6, <1>11
    <2>2. probed[i].op # probed[j].op /\ (probed[i].sess = probed[j].sess => ~probed[i].done)
      BY <1>0, <1>11 DEF ProbeInv, ProbedOnce
    <2> QED BY <1>9, <2>1, <2>2
  <1>12. \A i \in DOMAIN probed : probed'[i].op <= fops' /\ probed'[i].sess <= dialled'
    BY <1>0, <1>5, <1>9 DEF ProbeInv
  <1>13. ProbeInv'
    BY <1>2, <1>5, <1>8, <1>10, <1>11, <1>12 DEF ProbeInv, ProbedOnce
  <1> QED BY <1>1, <1>2, <1>3, <1>4, <1>10, <1>13 DEF Plain, FilesInv, FilesTypeOK

LEMMA KeptInv == FilesInv /\ Kept => FilesInv'
  <1> SUFFICES ASSUME FilesInv, Kept PROVE FilesInv'  OBVIOUS
  <1>1. Plain' /\ Quiet /\ probed' = probed /\ probed \in Seq(Probe)
    BY DEF Kept, Quiet, FilesInv, FilesTypeOK
  <1>2. ProbeInv'
    BY <1>1, QuietKeepsProbes DEF FilesInv, Plain
  <1> QED BY <1>1, <1>2 DEF Kept, FilesInv, FilesTypeOK, Plain

LEMMA FilesStepInv == FilesInv /\ [FilesNext]_fileVars => FilesInv'
  <1> SUFFICES ASSUME FilesInv, [FilesNext]_fileVars PROVE FilesInv'  OBVIOUS
  <1>1. CASE FtpsDialFails  BY <1>1, FtpsDialFailsKept, KeptInv
  <1>2. CASE DropFileOp  BY <1>2, DropFileOpKept, KeptInv
  <1>3. CASE SessionBreaks  BY <1>3, SessionBreaksKept, KeptInv
  <1>4. CASE BeginList  BY <1>4, BeginListKept, KeptInv
  <1>5. CASE UseReading  BY <1>5, UseReadingKept, KeptInv
  <1>6. CASE StartProbe  BY <1>6, StartProbeInv
  <1>7. ASSUME NEW ok \in BOOLEAN, NEW b \in BOOLEAN, NEW l \in BOOLEAN, ProbeUpload(ok, b, l)
        PROVE  FilesInv'
    BY <1>7, ProbeUploadKept, KeptInv
  <1>8. ASSUME NEW ok \in BOOLEAN, NEW b \in BOOLEAN, ProbeMdtm(ok, b) PROVE FilesInv'
    BY <1>8, ProbeMdtmKept, KeptInv
  <1>9. ASSUME NEW ok \in BOOLEAN, NEW b \in BOOLEAN, ProbeDelete(ok, b) PROVE FilesInv'
    BY <1>9, ProbeDeleteInv
  <1>10. CASE ReopenAfterProbe  BY <1>10, ReopenAfterProbeKept, KeptInv
  <1>11. CASE ChooseReference  BY <1>11, ChooseReferenceKept, KeptInv
  <1>12. CASE ListDirectory  BY <1>12, ListDirectoryKept, KeptInv
  <1>13. ASSUME NEW b \in BOOLEAN, ListFails(b) PROVE FilesInv'
    BY <1>13, ListFailsKept, KeptInv
  <1>14. CASE KeepReading  BY <1>14, KeepReadingKept, KeptInv
  <1>15. ASSUME NEW n \in BOOLEAN, NEW st \in {"External", "Internal"},
                NEW sl \in {"this", "other", None}, NEW c \in {"Enforce", "Skip"},
                BeginUpload(n, st, sl, c)
         PROVE  FilesInv'
    BY <1>15, BeginUploadKept, KeptInv
  <1>16. CASE ReachForUpload  BY <1>16, ReachForUploadKept, KeptInv
  <1>17. ASSUME NEW ok \in BOOLEAN, NEW st \in BOOLEAN, NEW b \in BOOLEAN, StoreUpload(ok, st, b)
         PROVE  FilesInv'
    BY <1>17, StoreUploadKept, KeptInv
  <1>18. ASSUME NEW r \in Opt(TimerEpochs), SetReading(r) PROVE FilesInv'
    BY <1>18, SetReadingKept, KeptInv
  <1>19. ASSUME NEW t \in TimerEpochs, AttachFtps(t) PROVE FilesInv'
    BY <1>19, AttachFtpsKept, KeptInv
  <1>20. CASE UNCHANGED fileVars
    BY <1>20 DEF fileVars, FilesInv, FilesTypeOK, ProbeInv, ProbedOnce, ClearInv, ReadingInv,
       ReadingOnItsTimer, CardInv, CardHoldsAccepted
  <1> QED BY <1>1, <1>2, <1>3, <1>4, <1>5, <1>6, <1>7, <1>8, <1>9, <1>10, <1>11, <1>12, <1>13,
          <1>14, <1>15, <1>16, <1>17, <1>18, <1>19, <1>20 DEF FilesNext

\* list_files_each probes the printer's clock once, clears the probe's file away
\* and advances a kept reading by the timer it was taken on only, while a timer
\* with no real clock uses any reading as it was read; and upload_file stores no
\* file under ModelCheck::Enforce that is not for this printer: for any number of
\* operations, sessions and timers, with the future dropped at any await.
THEOREM FilesTheorem == FilesSpec => []FilesSound
  <1>1. FilesInv => FilesSound
    BY DEF FilesInv, ProbeInv, ClearInv, ReadingInv, CardInv, FilesSound, ProbeFileCleared
  <1> QED BY <1>1, FilesInitInv, FilesStepInv, PTL DEF FilesSpec

-----------------------------------------------------------------------------
(* The running job                                                           *)

JobMessage == [kind : {"status", "echo"}, file : Opt(JobFiles), plate : Opt(Plates),
               state : Opt(JobStates)]
JobStart == [file : JobFiles, plate : Plates, gen : Nat]
\* A message has what its kind needs.
WellFormed(m) ==
  IF m.kind = "echo" THEN m.file \in JobFiles /\ m.plate \in Plates ELSE m.state \in JobStates
AllFormed(w) == \A i \in DOMAIN w : WellFormed(w[i])

JobTypeOK ==
  /\ reports \in BOOLEAN /\ jlive \in BOOLEAN /\ jgen \in Nat /\ failures \in Nat
  /\ job \in [file : JobFiles, plate : Plates, state : JobStates]
  /\ jcache \in [file : Opt(JobFiles), plateIdx : Opt(Plates), state : Opt(JobStates),
                 start : Opt(JobStart)]
  /\ jwire \in Seq(JobMessage)
  /\ AllFormed(jwire)

Tells(m, state) == m.kind = "status" /\ m.state = state
Plated(m) == m.kind = "status" /\ m.plate # None
NoEnd(w) == \A i \in DOMAIN w : ~Tells(w[i], "ended")

\* The last plate on the wire w is that of job j; without one the cached p is, or
\* is None.
PlatesRight(w, j, p) ==
  /\ \A i \in DOMAIN w :
       Plated(w[i]) /\ (\A k \in DOMAIN w : k > i => ~Plated(w[k])) => w[i].plate = j.plate
  /\ (\A i \in DOMAIN w : ~Plated(w[i])) => p \in {None, j.plate}
PlateInv ==
  IF reports THEN jlive => PlatesRight(jwire, job, jcache.plateIdx)
  ELSE jcache.plateIdx = None /\ \A i \in DOMAIN jwire : ~Plated(jwire[i])

\* An echo on the wire is followed by its job's first status, and, unless the
\* wire also has the end of that job, is of the job that runs.
IsRunning(file, plate, j) == file = j.file /\ plate = j.plate /\ j.state = "busy"
EchoesRight(w, j) ==
  \A i \in DOMAIN w : w[i].kind = "echo" =>
    /\ i + 1 \in DOMAIN w /\ Tells(w[i + 1], "busy")
    /\ (\A k \in DOMAIN w : k > i => ~Tells(w[k], "ended")) => IsRunning(w[i].file, w[i].plate, j)
EchoInv == EchoesRight(jwire, job)

\* So is a start recorded on this connection, and the cached state is busy, or about
\* to be, so that the end of the job clears it.
StartRight(w, j, start, state) ==
  /\ state = "busy" \/ (1 \in DOMAIN w /\ Tells(w[1], "busy"))
  /\ NoEnd(w) => IsRunning(start.file, start.plate, j)
StartInv ==
  jcache.start # None =>
    /\ jcache.start.gen <= jgen
    /\ jlive /\ jcache.start.gen = jgen => StartRight(jwire, job, jcache.start, jcache.state)

TunnelInv == failures <= 1 /\ (failures = 1 => failedGen = jgen)

JobInv == JobTypeOK /\ (jlive \/ jwire = <<>>) /\ PlateInv /\ EchoInv /\ StartInv /\ TunnelInv

LEMMA JobInitInv == JobInit => JobInv
  <1> SUFFICES ASSUME JobInit PROVE JobInv  OBVIOUS
  <1>1. /\ reports \in BOOLEAN /\ job = [file |-> "f", plate |-> 1, state |-> "ended"]
        /\ jwire = <<>> /\ jlive = FALSE /\ jgen = 0 /\ failures = 0
        /\ jcache = [file |-> None, plateIdx |-> None, state |-> None, start |-> None]
    BY DEF JobInit, NoJobCache
  <1>2. jwire \in Seq(JobMessage) /\ DOMAIN jwire = {}  BY <1>1
  <1>3. jlive \in BOOLEAN  BY <1>1, Zenon
  <1>4. JobTypeOK
    BY <1>1, <1>2, <1>3 DEF JobTypeOK, AllFormed, JobFiles, Plates, JobStates, Opt
  <1>5. PlateInv  BY <1>1, <1>2 DEF PlateInv
  <1>6. EchoInv  BY <1>2 DEF EchoInv, EchoesRight
  <1>7. StartInv  BY <1>1 DEF StartInv
  <1>8. TunnelInv  BY <1>1 DEF TunnelInv
  <1> QED BY <1>1, <1>4, <1>5, <1>6, <1>7, <1>8 DEF JobInv

\* v is the wire w without its message i.
Took(v, w, i) ==
  /\ i \in 1..Len(w) /\ DOMAIN v = 1..(Len(w) - 1)
  /\ \A k \in DOMAIN v : v[k] = w[IF k < i THEN k ELSE k + 1]

\* v is the wire w with a status d behind it, after an echo if e = 1.
Sent(v, w, e, d) ==
  /\ e \in {0, 1} /\ DOMAIN v = 1..(Len(w) + e + 1)
  /\ \A i \in 1..Len(w) : v[i] = w[i]
  /\ e = 1 => v[Len(w) + 1].kind = "echo"
  /\ v[Len(w) + e + 1] = d /\ d.kind = "status"

LEMMA TookTail ==
  ASSUME NEW S, NEW w \in Seq(S), w # <<>>
  PROVE  Tail(w) \in Seq(S) /\ Took(Tail(w), w, 1) /\ Head(w) = w[1]
  <1>1. /\ Tail(w) \in Seq(S) /\ Len(Tail(w)) = Len(w) - 1
        /\ \A i \in 1..Len(Tail(w)) : Tail(w)[i] = w[i + 1]
    BY HeadTailProperties
  <1>2. Len(w) \in Nat \ {0}  BY EmptySeq
  <1>3. PICK v \in Seq(S) : v = Tail(w)  BY <1>1
  <1>4. DOMAIN v = 1..(Len(w) - 1)  BY <1>1, <1>3
  <1>5. \A k \in 1..(Len(w) - 1) : ~(k < 1) /\ v[k] = w[k + 1]  BY <1>1, <1>3
  <1>6. 1 \in 1..Len(w)  BY <1>2
  <1>7. Took(v, w, 1)  BY <1>4, <1>5, <1>6 DEF Took
  <1> QED BY <1>1, <1>3, <1>7

LEMMA TookMiddle ==
  ASSUME NEW S, NEW w \in Seq(S), NEW i \in 1..Len(w)
  PROVE  LET v == SubSeq(w, 1, i - 1) \o SubSeq(w, i + 1, Len(w)) IN
         v \in Seq(S) /\ Took(v, w, i)
  <1> DEFINE a == SubSeq(w, 1, i - 1)
             b == SubSeq(w, i + 1, Len(w))
             v == a \o b
  <1>0. PICK n \in Nat : n = Len(w)  BY LenProperties
  <1>1. i \in 1..n /\ \A k \in 1..n : w[k] \in S  BY <1>0, ElementOfSeq
  <1>2. /\ a \in Seq(S) /\ Len(a) = IF 1 <= i - 1 THEN (i - 1) - 1 + 1 ELSE 0
        /\ \A k \in 1..((i - 1) - 1 + 1) : a[k] = w[1 + k - 1]
    <2>1. 1 \in Int /\ i - 1 \in Int /\ \A k \in 1..(i - 1) : w[k] \in S  BY <1>1
    <2> QED BY <2>1, SubSeqProperties
  <1>3. /\ b \in Seq(S) /\ Len(b) = IF i + 1 <= n THEN n - (i + 1) + 1 ELSE 0
        /\ \A k \in 1..(n - (i + 1) + 1) : b[k] = w[(i + 1) + k - 1]
    <2>1. i + 1 \in Int /\ n \in Int /\ \A k \in (i + 1)..n : w[k] \in S  BY <1>1
    <2> QED BY <1>0, <2>1, SubSeqProperties
  <1>4. /\ v \in Seq(S) /\ Len(v) = Len(a) + Len(b)
        /\ \A k \in 1..(Len(a) + Len(b)) : v[k] = IF k <= Len(a) THEN a[k] ELSE b[k - Len(a)]
    BY <1>2, <1>3, ConcatProperties
  <1>5. Len(a) = i - 1 /\ \A k \in 1..(i - 1) : a[k] = w[k]
    <2>1. Len(a) = i - 1  BY <1>1, <1>2
    <2>2. \A k \in 1..(i - 1) : a[k] = w[1 + k - 1] /\ 1 + k - 1 = k  BY <1>1, <1>2
    <2> QED BY <2>1, <2>2
  <1>6. Len(b) = n - i /\ \A k \in 1..(n - i) : b[k] = w[i + k]
    <2>1. Len(b) = n - i  BY <1>1, <1>3
    <2>2. \A k \in 1..(n - i) : b[k] = w[(i + 1) + k - 1] /\ (i + 1) + k - 1 = i + k  BY <1>1, <1>3
    <2> QED BY <2>1, <2>2
  <1> HIDE DEF a, b, v
  <1>7. Len(v) = n - 1  BY <1>1, <1>4, <1>5, <1>6
  <1>8. \A k \in 1..(n - 1) : v[k] = w[IF k < i THEN k ELSE k + 1]
    <2> TAKE k \in 1..(n - 1)
    <2>1. v[k] = IF k <= i - 1 THEN a[k] ELSE b[k - (i - 1)]  BY <1>1, <1>4, <1>5, <1>6
    <2>2. CASE k < i
      <3>1. k <= i - 1 /\ k \in 1..(i - 1)  BY <1>1, <2>2
      <3> QED BY <1>5, <2>1, <2>2, <3>1
    <2>3. CASE ~(k < i)
      <3>1. ~(k <= i - 1) /\ k - (i - 1) \in 1..(n - i) /\ i + (k - (i - 1)) = k + 1  BY <1>1, <2>3
      <3> QED BY <1>6, <2>1, <2>3, <3>1
    <2> QED BY <2>2, <2>3
  <1>9. DOMAIN v = 1..(n - 1)  BY <1>4, <1>7
  <1>10. Took(v, w, i)  BY <1>0, <1>1, <1>8, <1>9 DEF Took
  <1> QED BY <1>4, <1>10 DEF v, a, b

LEMMA SentOne ==
  ASSUME NEW S, NEW w \in Seq(S), NEW d \in S, d.kind = "status"
  PROVE  w \o <<d>> \in Seq(S) /\ Sent(w \o <<d>>, w, 0, d)
  <1>1. <<d>> \in Seq(S) /\ Len(<<d>>) = 1 /\ <<d>>[1] = d  OBVIOUS
  <1>2. PICK v : v = w \o <<d>>  OBVIOUS
  <1>3. PICK n \in Nat : n = Len(w)  BY LenProperties
  <1>4. /\ v \in Seq(S) /\ Len(v) = n + 1
        /\ \A i \in 1..(n + 1) : v[i] = IF i <= n THEN w[i] ELSE <<d>>[i - n]
    BY <1>1, <1>2, <1>3, ConcatProperties
  <1>5. v[n + 1] = d
    <2>1. n + 1 \in 1..(n + 1) /\ ~(n + 1 <= n) /\ (n + 1) - n = 1  OBVIOUS
    <2> QED BY <1>1, <1>4, <2>1
  <1>6. \A i \in 1..n : v[i] = w[i]  BY <1>4
  <1>7. DOMAIN v = 1..(n + 1)  BY <1>4
  <1>8. n + 0 + 1 = n + 1 /\ 0 \in {0, 1} /\ 0 # 1  OBVIOUS
  <1> QED BY <1>2, <1>3, <1>4, <1>5, <1>6, <1>7, <1>8 DEF Sent

LEMMA SentTwo ==
  ASSUME NEW S, NEW w \in Seq(S), NEW d \in S, d.kind = "status", NEW e \in S, e.kind = "echo"
  PROVE  /\ w \o (<<e>> \o <<d>>) \in Seq(S) /\ Sent(w \o (<<e>> \o <<d>>), w, 1, d)
         /\ (w \o (<<e>> \o <<d>>))[Len(w) + 1] = e
  <1>1. /\ <<d>> \in Seq(S) /\ Len(<<d>>) = 1 /\ <<d>>[1] = d
        /\ <<e>> \in Seq(S) /\ Len(<<e>>) = 1 /\ <<e>>[1] = e
    OBVIOUS
  <1>0. PICK u : u = <<e>> \o <<d>>  OBVIOUS
  <1>9. u \in Seq(S) /\ Len(u) = 2 /\ u[1] = e /\ u[2] = d
    <2>1. /\ u \in Seq(S) /\ Len(u) = 1 + 1
          /\ \A i \in 1..(1 + 1) : u[i] = IF i <= 1 THEN <<e>>[i] ELSE <<d>>[i - 1]
      BY <1>0, <1>1, ConcatProperties
    <2> QED BY <1>1, <2>1
  <1>2. PICK v : v = w \o u  OBVIOUS
  <1>3. PICK n \in Nat : n = Len(w)  BY LenProperties
  <1>4. /\ v \in Seq(S) /\ Len(v) = n + 2
        /\ \A i \in 1..(n + 2) : v[i] = IF i <= n THEN w[i] ELSE u[i - n]
    <2>1. /\ v \in Seq(S) /\ Len(v) = Len(w) + Len(u)
          /\ \A i \in 1..(Len(w) + Len(u)) : v[i] = IF i <= Len(w) THEN w[i] ELSE u[i - Len(w)]
      BY <1>2, <1>9, ConcatProperties
    <2> QED BY <1>3, <1>9, <2>1
  <1>5. v[n + 1] = e /\ v[n + 2] = d
    <2>1. /\ n + 1 \in 1..(n + 2) /\ ~(n + 1 <= n) /\ (n + 1) - n = 1
          /\ n + 2 \in 1..(n + 2) /\ ~(n + 2 <= n) /\ (n + 2) - n = 2
      OBVIOUS
    <2> QED BY <1>4, <1>9, <2>1
  <1>6. \A i \in 1..n : v[i] = w[i]  BY <1>4
  <1>7. DOMAIN v = 1..(n + 2)  BY <1>4
  <1>8. n + 1 + 1 = n + 2 /\ 1 \in {0, 1}  OBVIOUS
  <1> QED BY <1>0, <1>2, <1>3, <1>4, <1>5, <1>6, <1>7, <1>8 DEF Sent

\* A message that is taken off and says nothing of the plate leaves the plates right.
LEMMA PlateTook ==
  ASSUME NEW w \in Seq(JobMessage), NEW v \in Seq(JobMessage), NEW i, NEW j, NEW p, NEW q,
         Took(v, w, i), PlatesRight(w, j, p),
         IF Plated(w[i]) THEN i = 1 /\ q = w[1].plate ELSE q \in {p, None}
  PROVE  PlatesRight(v, j, q)
  <1>0. PICK n \in Nat : n = Len(w)  BY LenProperties
  <1>1. /\ DOMAIN w = 1..n /\ DOMAIN v = 1..(n - 1) /\ i \in 1..n
        /\ \A k \in 1..(n - 1) : v[k] = w[IF k < i THEN k ELSE k + 1]
    <2>1. /\ DOMAIN v = 1..(Len(w) - 1) /\ i \in 1..Len(w)
          /\ \A k \in DOMAIN v : v[k] = w[IF k < i THEN k ELSE k + 1]
      BY DEF Took
    <2>2. DOMAIN w = 1..n  BY <1>0
    <2> QED BY <1>0, <2>1, <2>2
  <1>2. /\ \A l \in 1..n : Plated(w[l]) /\ (\A k \in 1..n : k > l => ~Plated(w[k])) => w[l].plate = j.plate
        /\ (\A l \in 1..n : ~Plated(w[l])) => p \in {None, j.plate}
    BY <1>1 DEF PlatesRight
  \* the place in w of what is at l in v, and back
  <1>3. \A l \in 1..n : l # i => \E k \in 1..(n - 1) :
             l = (IF k < i THEN k ELSE k + 1) /\ v[k] = w[l]
    <2> TAKE l \in 1..n
    <2>1. CASE l < i
      <3>1. l \in 1..(n - 1)  BY <1>1, <2>1
      <3> QED BY <1>1, <2>1, <3>1
    <2>2. CASE l > i
      <3>1. l - 1 \in 1..(n - 1) /\ ~(l - 1 < i) /\ (l - 1) + 1 = l  BY <1>1, <2>2
      <3> QED BY <1>1, <2>2, <3>1
    <2> QED BY <1>1, <2>1, <2>2
  <1>4. ASSUME NEW k \in 1..(n - 1), Plated(v[k]), \A m \in 1..(n - 1) : m > k => ~Plated(v[m])
        PROVE  v[k].plate = j.plate
    <2> DEFINE l == IF k < i THEN k ELSE k + 1
    <2>1. l \in 1..n /\ v[k] = w[l]  BY <1>1
    <2>2. ASSUME NEW m \in 1..n, m > l PROVE ~Plated(w[m])
      <3>1. CASE m = i
        <4>1. i # 1  BY <1>1, <2>1, <2>2, <3>1
        <4> QED BY <3>1, <4>1
      <3>2. CASE m # i
        <4>1. PICK r \in 1..(n - 1) : m = (IF r < i THEN r ELSE r + 1) /\ v[r] = w[m]  BY <1>3, <3>2
        <4>2. r > k  BY <1>1, <2>2, <4>1
        <4> QED BY <1>4, <4>1, <4>2
      <3> QED BY <3>1, <3>2
    <2> HIDE DEF l
    <2> QED BY <1>2, <1>4, <2>1, <2>2
  <1>5. ASSUME \A k \in 1..(n - 1) : ~Plated(v[k])
        PROVE  q \in {None, j.plate}
    <2>1. \A l \in 1..n : l # i => ~Plated(w[l])  BY <1>3, <1>5
    <2>2. CASE Plated(w[i])
      <3>0. \A k \in 1..n : k > i => k # i  BY <1>1
      <3>1. \A k \in 1..n : k > i => ~Plated(w[k])  BY <2>1, <3>0
      <3> QED BY <1>1, <1>2, <2>2, <3>1
    <2>3. CASE ~Plated(w[i])
      <3>1. \A l \in 1..n : ~Plated(w[l])  BY <2>1, <2>3
      <3> QED BY <1>2, <2>3, <3>1
    <2> QED BY <2>2, <2>3
  <1> QED BY <1>1, <1>4, <1>5 DEF PlatesRight

LEMMA PlateSent ==
  ASSUME NEW w \in Seq(JobMessage), NEW v \in Seq(JobMessage), NEW e, NEW d, NEW j, NEW j2, NEW p,
         Sent(v, w, e, d), PlatesRight(w, j, p),
         IF Plated(d) THEN d.plate = j2.plate ELSE j.plate = j2.plate
  PROVE  PlatesRight(v, j2, p)
  <1>0. PICK n \in Nat : n = Len(w)  BY LenProperties
  <1>1. /\ DOMAIN w = 1..n /\ e \in {0, 1} /\ DOMAIN v = 1..(n + e + 1)
        /\ \A i \in 1..n : v[i] = w[i]
        /\ e = 1 => ~Plated(v[n + 1])
        /\ v[n + e + 1] = d
    BY <1>0 DEF Sent, Plated
  <1>2. /\ \A l \in 1..n : Plated(w[l]) /\ (\A k \in 1..n : k > l => ~Plated(w[k])) => w[l].plate = j.plate
        /\ (\A l \in 1..n : ~Plated(w[l])) => p \in {None, j.plate}
    BY <1>1 DEF PlatesRight
  <1>3. \A i \in 1..(n + e + 1) : i \in 1..n \/ i = n + e + 1 \/ (e = 1 /\ i = n + 1)
    BY <1>1
  <1>9. n + e + 1 \in 1..(n + e + 1) /\ \A i \in 1..n : i \in 1..(n + e + 1) /\ i < n + e + 1
    BY <1>1
  <1>4. ASSUME NEW i \in 1..(n + e + 1), Plated(v[i]), \A k \in 1..(n + e + 1) : k > i => ~Plated(v[k])
        PROVE  v[i].plate = j2.plate
    <2>1. CASE i \in 1..n
      <3>1. ~Plated(d)  BY <1>1, <1>4, <1>9, <2>1
      <3>2. \A k \in 1..n : k > i => ~Plated(w[k])  BY <1>1, <1>4, <1>9
      <3>3. w[i].plate = j.plate  BY <1>1, <1>2, <1>4, <2>1, <3>2
      <3> QED BY <1>1, <2>1, <3>1, <3>3
    <2>2. CASE i = n + e + 1  BY <1>1, <1>4, <2>2
    <2>3. CASE e = 1 /\ i = n + 1  BY <1>1, <1>4, <2>3
    <2> QED BY <1>3, <2>1, <2>2, <2>3
  <1>5. ASSUME \A i \in 1..(n + e + 1) : ~Plated(v[i])
        PROVE  p \in {None, j2.plate}
    <2>1. ~Plated(d)  BY <1>1, <1>5, <1>9
    <2>2. \A l \in 1..n : ~Plated(w[l])  BY <1>1, <1>5, <1>9
    <2> QED BY <1>2, <2>1, <2>2
  <1> QED BY <1>1, <1>4, <1>5 DEF PlatesRight

\* A message is taken off: an echo, or the first.
LEMMA EchoTook ==
  ASSUME NEW w \in Seq(JobMessage), NEW v \in Seq(JobMessage), NEW i, NEW j,
         Took(v, w, i), EchoesRight(w, j), w[i].kind = "echo" \/ i = 1
  PROVE  EchoesRight(v, j)
  <1>0. PICK n \in Nat : n = Len(w)  BY LenProperties
  <1>1. /\ DOMAIN w = 1..n /\ DOMAIN v = 1..(n - 1) /\ i \in 1..n
        /\ \A k \in 1..(n - 1) : v[k] = w[IF k < i THEN k ELSE k + 1]
    BY <1>0 DEF Took
  <1>2. \A l \in 1..n : w[l].kind = "echo" =>
           /\ l + 1 \in 1..n /\ Tells(w[l + 1], "busy")
           /\ (\A k \in 1..n : k > l => ~Tells(w[k], "ended")) => IsRunning(w[l].file, w[l].plate, j)
    BY <1>1 DEF EchoesRight
  <1>3. ASSUME NEW k \in 1..(n - 1), v[k].kind = "echo"
        PROVE  /\ k + 1 \in 1..(n - 1) /\ Tells(v[k + 1], "busy")
               /\ (\A m \in 1..(n - 1) : m > k => ~Tells(v[m], "ended")) => IsRunning(v[k].file, v[k].plate, j)
    <2> DEFINE l == IF k < i THEN k ELSE k + 1
    <2>1. l \in 1..n /\ v[k] = w[l]  BY <1>1
    <2>2. l + 1 \in 1..n /\ Tells(w[l + 1], "busy")  BY <1>2, <1>3, <2>1
    <2>3. l + 1 # i
      <3>1. CASE i = 1  BY <1>1, <2>1, <3>1
      <3>2. CASE w[i].kind = "echo"  BY <2>2, <3>2 DEF Tells
      <3> QED BY <3>1, <3>2
    <2>4. k + 1 \in 1..(n - 1) /\ l + 1 = IF k + 1 < i THEN k + 1 ELSE (k + 1) + 1  BY <1>1, <2>2, <2>3
    <2>5. Tells(v[k + 1], "busy")  BY <1>1, <2>2, <2>4
    <2>6. ASSUME \A m \in 1..(n - 1) : m > k => ~Tells(v[m], "ended")
          PROVE  IsRunning(v[k].file, v[k].plate, j)
      <3>1. ASSUME NEW m \in 1..n, m > l PROVE ~Tells(w[m], "ended")
        <4>1. CASE m = i
          <5>1. i # 1  BY <1>1, <2>1, <3>1, <4>1
          <5> QED BY <4>1, <5>1 DEF Tells
        <4>2. CASE m < i
          <5>1. m \in 1..(n - 1) /\ m > k  BY <1>1, <3>1, <4>2
          <5>2. v[m] = w[m]  BY <1>1, <4>2, <5>1
          <5> QED BY <2>6, <5>1, <5>2
        <4>3. CASE m > i
          <5>1. m - 1 \in 1..(n - 1) /\ m - 1 > k /\ ~(m - 1 < i) /\ (m - 1) + 1 = m  BY <1>1, <3>1, <4>3
          <5>2. v[m - 1] = w[m]  BY <1>1, <5>1
          <5> QED BY <2>6, <5>1, <5>2
        <4> QED BY <1>1, <4>1, <4>2, <4>3
      <3> HIDE DEF l
      <3> QED BY <1>2, <1>3, <2>1, <3>1
    <2> QED BY <2>4, <2>5, <2>6
  <1> QED BY <1>1, <1>3 DEF EchoesRight

\* The printer starts a job, with the job before it ended, or ends one.
LEMMA EchoSent ==
  ASSUME NEW w \in Seq(JobMessage), NEW v \in Seq(JobMessage), NEW e, NEW d, NEW j, NEW j2,
         Sent(v, w, e, d), EchoesRight(w, j),
         \/ e = 0 /\ Tells(d, "ended")
         \/ /\ j.state = "ended" /\ Tells(d, "busy")
            /\ e = 1 => IsRunning(v[Len(w) + 1].file, v[Len(w) + 1].plate, j2)
  PROVE  EchoesRight(v, j2)
  <1>0. PICK n \in Nat : n = Len(w)  BY LenProperties
  <1>1. /\ DOMAIN w = 1..n /\ e \in {0, 1} /\ DOMAIN v = 1..(n + e + 1)
        /\ \A i \in 1..n : v[i] = w[i]
        /\ v[n + e + 1] = d /\ d.kind = "status"
    BY <1>0 DEF Sent
  <1>2. \A l \in 1..n : w[l].kind = "echo" =>
           /\ l + 1 \in 1..n /\ Tells(w[l + 1], "busy")
           /\ (\A k \in 1..n : k > l => ~Tells(w[k], "ended")) => IsRunning(w[l].file, w[l].plate, j)
    BY <1>1 DEF EchoesRight
  <1>3. n + e + 1 \in 1..(n + e + 1) /\ \A i \in 1..n : i \in 1..(n + e + 1) /\ i < n + e + 1
    BY <1>1
  <1>4. ASSUME NEW i \in 1..(n + e + 1), v[i].kind = "echo"
        PROVE  /\ i + 1 \in 1..(n + e + 1) /\ Tells(v[i + 1], "busy")
               /\ (\A k \in 1..(n + e + 1) : k > i => ~Tells(v[k], "ended")) =>
                    IsRunning(v[i].file, v[i].plate, j2)
    <2>1. CASE i \in 1..n
      <3>1. /\ i + 1 \in 1..n /\ Tells(w[i + 1], "busy")
            /\ (\A k \in 1..n : k > i => ~Tells(w[k], "ended")) => IsRunning(w[i].file, w[i].plate, j)
        BY <1>1, <1>2, <1>4, <2>1
      <3>2. i + 1 \in 1..(n + e + 1) /\ Tells(v[i + 1], "busy")  BY <1>1, <1>3, <3>1
      <3>3. ~(\A k \in 1..(n + e + 1) : k > i => ~Tells(v[k], "ended"))
        <4>1. CASE e = 0 /\ Tells(d, "ended")  BY <1>1, <1>3, <2>1, <4>1
        <4>2. CASE j.state = "ended"
          <5>1. ~(\A k \in 1..n : k > i => ~Tells(w[k], "ended"))  BY <3>1, <4>2 DEF IsRunning
          <5> QED BY <1>1, <1>3, <5>1
        <4> QED BY <4>1, <4>2
      <3> QED BY <3>2, <3>3
    <2>2. CASE ~(i \in 1..n)
      <3>1. i = n + e + 1 \/ (e = 1 /\ i = n + 1)  BY <1>1, <2>2
      <3>2. i # n + e + 1  BY <1>1, <1>4
      <3>3. e = 1 /\ i = n + 1 /\ i + 1 = n + e + 1  BY <3>1, <3>2
      <3>4. Tells(d, "busy") /\ IsRunning(v[i].file, v[i].plate, j2)  BY <1>0, <3>3
      <3> QED BY <1>1, <1>3, <3>3, <3>4
    <2> QED BY <2>1, <2>2
  <1> QED BY <1>1, <1>4 DEF EchoesRight

LEMMA FormedTook ==
  ASSUME NEW w \in Seq(JobMessage), NEW v, NEW i, Took(v, w, i), AllFormed(w)
  PROVE  AllFormed(v)
  <1>0. PICK n \in Nat : n = Len(w)  BY LenProperties
  <1>1. /\ DOMAIN w = 1..n /\ DOMAIN v = 1..(n - 1) /\ i \in 1..n
        /\ \A k \in 1..(n - 1) : v[k] = w[IF k < i THEN k ELSE k + 1]
    BY <1>0 DEF Took
  <1>2. \A k \in 1..(n - 1) : (IF k < i THEN k ELSE k + 1) \in 1..n  BY <1>1
  <1> QED BY <1>1, <1>2 DEF AllFormed

LEMMA FormedSent ==
  ASSUME NEW w \in Seq(JobMessage), NEW v, NEW e, NEW d, Sent(v, w, e, d), AllFormed(w),
         WellFormed(d), e = 1 => WellFormed(v[Len(w) + 1])
  PROVE  AllFormed(v)
  <1>0. PICK n \in Nat : n = Len(w)  BY LenProperties
  <1>1. /\ DOMAIN w = 1..n /\ e \in {0, 1} /\ DOMAIN v = 1..(n + e + 1)
        /\ \A i \in 1..n : v[i] = w[i]
        /\ v[n + e + 1] = d
    BY <1>0 DEF Sent
  <1>2. \A i \in 1..(n + e + 1) : i \in 1..n \/ i = n + e + 1 \/ (e = 1 /\ i = n + 1)
    BY <1>1
  <1> QED BY <1>0, <1>1, <1>2 DEF AllFormed

\* A message is read, or an echo is taken by a wait: what is left has an end only
\* if the wire had.
LEMMA StartTook ==
  ASSUME NEW w \in Seq(JobMessage), NEW v \in Seq(JobMessage), NEW i, Took(v, w, i), NoEnd(v)
  PROVE  \A k \in DOMAIN w : k # i => ~Tells(w[k], "ended")
  <1>0. PICK n \in Nat : n = Len(w)  BY LenProperties
  <1>1. /\ DOMAIN w = 1..n /\ DOMAIN v = 1..(n - 1) /\ i \in 1..n
        /\ \A k \in 1..(n - 1) : v[k] = w[IF k < i THEN k ELSE k + 1]
    BY <1>0 DEF Took
  <1>2. ASSUME NEW k \in 1..n, k # i PROVE ~Tells(w[k], "ended")
    <2>1. CASE k < i
      <3>1. k \in 1..(n - 1)  BY <1>1, <2>1
      <3>2. v[k] = w[k]  BY <1>1, <2>1, <3>1
      <3> QED BY <1>1, <3>1, <3>2 DEF NoEnd
    <2>2. CASE k > i
      <3>1. k - 1 \in 1..(n - 1) /\ ~(k - 1 < i) /\ (k - 1) + 1 = k  BY <1>1, <2>2
      <3>2. v[k - 1] = w[k]  BY <1>1, <3>1
      <3> QED BY <1>1, <3>1, <3>2 DEF NoEnd
    <2> QED BY <1>1, <1>2, <2>1, <2>2
  <1> QED BY <1>1, <1>2

LEMMA NoEndSent ==
  ASSUME NEW w \in Seq(JobMessage), NEW v, NEW e, NEW d, Sent(v, w, e, d)
  PROVE  /\ NoEnd(v) => NoEnd(w) /\ ~Tells(d, "ended")
         /\ 1 \in DOMAIN w => 1 \in DOMAIN v /\ v[1] = w[1]
  <1>0. PICK n \in Nat : n = Len(w)  BY LenProperties
  <1>1. /\ DOMAIN w = 1..n /\ e \in {0, 1} /\ DOMAIN v = 1..(n + e + 1)
        /\ \A i \in 1..n : v[i] = w[i]
        /\ v[n + e + 1] = d
    BY <1>0 DEF Sent
  <1>2. n + e + 1 \in 1..(n + e + 1) /\ \A i \in 1..n : i \in 1..(n + e + 1)  BY <1>1
  <1> QED BY <1>1, <1>2 DEF NoEnd

JobType == [file : JobFiles, plate : Plates, state : JobStates]
CacheOfJob == [file : Opt(JobFiles), plateIdx : Opt(Plates), state : Opt(JobStates), start : Opt(JobStart)]

\* What JobInv says, with the wire's length named.
LEMMA JobFacts ==
  ASSUME JobInv
  PROVE  /\ reports \in BOOLEAN /\ jlive \in BOOLEAN /\ jgen \in Nat /\ failures \in Nat
         /\ job \in JobType /\ jcache \in CacheOfJob
         /\ jwire \in Seq(JobMessage) /\ AllFormed(jwire)
         /\ ~jlive => jwire = <<>>
         /\ reports /\ jlive => PlatesRight(jwire, job, jcache.plateIdx)
         /\ ~reports => jcache.plateIdx = None /\ \A i \in DOMAIN jwire : ~Plated(jwire[i])
         /\ EchoesRight(jwire, job)
         /\ jcache.start # None =>
              /\ jcache.start.gen <= jgen
              /\ jlive /\ jcache.start.gen = jgen => StartRight(jwire, job, jcache.start, jcache.state)
         /\ failures <= 1 /\ (failures = 1 => failedGen = jgen)
  BY DEF JobInv, JobTypeOK, PlateInv, EchoInv, StartInv, TunnelInv, JobType, CacheOfJob

\* Without a connection there is little to keep.
LEMMA OffStep ==
  ASSUME JobInv, ~jlive', jlive' \in BOOLEAN, jwire' = <<>>, UNCHANGED <<reports, jcache>>,
         job' \in JobType, jgen' \in Nat, jgen <= jgen', failures' \in Nat, TunnelInv'
  PROVE  JobInv'
  <1>1. jwire' \in Seq(JobMessage) /\ DOMAIN jwire' = {}  OBVIOUS
  <1>2. JobTypeOK'
    <2>1. AllFormed(jwire)'  BY <1>1 DEF AllFormed
    <2>2. reports' \in BOOLEAN /\ jcache' \in CacheOfJob  BY JobFacts
    <2> QED BY <1>1, <2>1, <2>2 DEF JobTypeOK, JobType, CacheOfJob
  <1>3. PlateInv'
    <2>1. ~reports => jcache.plateIdx = None  BY JobFacts
    <2> QED BY <1>1, <2>1 DEF PlateInv
  <1>4. EchoInv'  BY <1>1 DEF EchoInv, EchoesRight
  <1>5. StartInv'
    <2>1. jcache.start # None => jcache.start \in JobStart /\ jcache.start.gen <= jgen
      BY JobFacts DEF CacheOfJob, Opt
    <2>2. jgen \in Nat  BY JobFacts
    <2>3. jcache.start # None => jcache.start.gen \in Nat /\ jcache.start.gen <= jgen  BY <2>1 DEF JobStart
    <2>4. PICK g \in Nat : g = jgen'  OBVIOUS
    <2>5. jcache.start # None => jcache.start.gen <= g  BY <2>2, <2>3, <2>4
    <2> QED BY <2>4, <2>5 DEF StartInv
  <1> QED BY <1>2, <1>3, <1>4, <1>5 DEF JobInv

\* The printer reports the start or the end of a job.
LEMMA SendStep ==
  ASSUME JobInv, jlive, UNCHANGED <<reports, jlive, jgen, jcache, failures, failedGen>>,
         NEW v \in Seq(JobMessage), jwire' = v, NEW j \in JobType, job' = j,
         NEW e, NEW d, Sent(v, jwire, e, d), WellFormed(d),
         IF ~reports THEN ~Plated(d) ELSE IF Plated(d) THEN d.plate = j.plate ELSE job.plate = j.plate,
         \/ e = 0 /\ Tells(d, "ended")
         \/ /\ job.state = "ended" /\ Tells(d, "busy")
            /\ e = 1 => WellFormed(v[Len(jwire) + 1]) /\ IsRunning(v[Len(jwire) + 1].file, v[Len(jwire) + 1].plate, j)
  PROVE  JobInv'
  <1>1. jwire \in Seq(JobMessage) /\ AllFormed(jwire) /\ EchoesRight(jwire, job)  BY JobFacts
  <1>2. AllFormed(v)
    <2>1. e = 1 => WellFormed(v[Len(jwire) + 1])  OBVIOUS
    <2> QED BY <1>1, <2>1, FormedSent
  <1>3. JobTypeOK'
    <2>1. reports \in BOOLEAN /\ jlive \in BOOLEAN /\ jgen \in Nat /\ failures \in Nat /\ jcache \in CacheOfJob
      BY JobFacts
    <2> QED BY <1>2, <2>1 DEF JobTypeOK, JobType, CacheOfJob
  <1>4. PlateInv'
    <2>1. CASE reports
      <3>1. PlatesRight(jwire, job, jcache.plateIdx)  BY <2>1, JobFacts
      <3>2. IF Plated(d) THEN d.plate = j.plate ELSE job.plate = j.plate  BY <2>1
      <3>3. PlatesRight(v, j, jcache.plateIdx)  BY <1>1, <3>1, <3>2, PlateSent
      <3> QED BY <2>1, <3>3 DEF PlateInv
    <2>2. CASE ~reports
      <3>1. jcache.plateIdx = None /\ \A i \in DOMAIN jwire : ~Plated(jwire[i])  BY <2>2, JobFacts
      <3>2. PICK n \in Nat : n = Len(jwire)  BY <1>1, LenProperties
      <3>3. /\ DOMAIN jwire = 1..n /\ e \in {0, 1} /\ DOMAIN v = 1..(n + e + 1)
            /\ \A i \in 1..n : v[i] = jwire[i]
            /\ e = 1 => ~Plated(v[n + 1])
            /\ v[n + e + 1] = d
        BY <1>1, <3>2 DEF Sent, Plated
      <3>4. \A i \in 1..(n + e + 1) : i \in 1..n \/ i = n + e + 1 \/ (e = 1 /\ i = n + 1)  BY <3>3
      <3>5. \A i \in DOMAIN v : ~Plated(v[i])  BY <2>2, <3>1, <3>3, <3>4
      <3> QED BY <2>2, <3>1, <3>5 DEF PlateInv
    <2> QED BY <2>1, <2>2
  <1>5. EchoesRight(v, j)
    <2>1. \/ e = 0 /\ Tells(d, "ended")
          \/ /\ job.state = "ended" /\ Tells(d, "busy")
             /\ e = 1 => IsRunning(v[Len(jwire) + 1].file, v[Len(jwire) + 1].plate, j)
      OBVIOUS
    <2> QED BY <1>1, <2>1, EchoSent
  <1>6. StartInv'
    <2>1. ASSUME jcache.start # None, jcache.start.gen = jgen
          PROVE  StartRight(v, j, jcache.start, jcache.state)
      <3>1. StartRight(jwire, job, jcache.start, jcache.state)  BY <2>1, JobFacts
      <3>2. /\ NoEnd(v) => NoEnd(jwire) /\ ~Tells(d, "ended")
            /\ 1 \in DOMAIN jwire => 1 \in DOMAIN v /\ v[1] = jwire[1]
        BY <1>1, NoEndSent
      <3>3. ~NoEnd(v)  BY <3>1, <3>2 DEF StartRight, IsRunning
      <3> QED BY <3>1, <3>2, <3>3 DEF StartRight
    <2>2. jcache.start # None => jcache.start.gen <= jgen  BY JobFacts
    <2> QED BY <2>1, <2>2 DEF StartInv
  <1>7. TunnelInv'  BY JobFacts DEF TunnelInv
  <1> QED BY <1>3, <1>4, <1>5, <1>6, <1>7 DEF JobInv, EchoInv

LEMMA StartJobStep ==
  ASSUME JobInv, NEW file \in JobFiles, NEW plate \in Plates, NEW byClient \in BOOLEAN,
         StartJob(file, plate, byClient)
  PROVE  JobInv'
  <1> DEFINE j == [file |-> file, plate |-> plate, state |-> "busy"]
             d == JobFrame(Changed(job.file, file), Changed(PlateField(job.plate), PlateField(plate)), "busy")
             c == StartEcho(file, plate)
  <1>1. /\ job' = j /\ UNCHANGED <<reports, jlive, jgen, jcache, failures, failedGen>>
        /\ job.state = "ended"
        /\ jwire' = IF jlive THEN jwire \o ((IF byClient THEN <<c>> ELSE <<>>) \o <<d>>) ELSE <<>>
        /\ byClient => jlive
    BY DEF StartJob, Send, linkVars, tunnelVars
  <1>2. j \in JobType  BY DEF JobType, JobStates
  <1>3. job \in JobType /\ jwire \in Seq(JobMessage)  BY JobFacts
  <1>4. /\ d \in JobMessage /\ d.kind = "status" /\ d.state = "busy"
        /\ d.plate = IF PlateField(job.plate) = PlateField(plate) THEN None ELSE PlateField(plate)
    BY <1>3 DEF JobMessage, JobFrame, Changed, PlateField, Opt, JobStates, JobType
  <1>5. c \in JobMessage /\ c.kind = "echo" /\ c.file = file /\ c.plate = plate
    BY DEF JobMessage, StartEcho, Opt
  <1>6. WellFormed(d) /\ WellFormed(c) /\ Tells(d, "busy") /\ IsRunning(c.file, c.plate, j)
    BY <1>4, <1>5 DEF WellFormed, Tells, IsRunning, JobStates
  <1>7. IF ~reports THEN ~Plated(d) ELSE IF Plated(d) THEN d.plate = j.plate ELSE job.plate = j.plate
    <2>1. CASE reports
      <3>1. plate # None  BY NoneAssumption DEF Plates
      <3>2. d.plate = IF job.plate = plate THEN None ELSE plate  BY <1>4, <2>1 DEF PlateField
      <3> QED BY <1>4, <2>1, <3>1, <3>2 DEF Plated
    <2>2. CASE ~reports  BY <1>4, <2>2 DEF Plated, PlateField
    <2> QED BY <2>1, <2>2
  <1> HIDE DEF j, d, c
  <1>8. CASE ~jlive
    <2>1. jgen \in Nat /\ failures \in Nat /\ jlive \in BOOLEAN  BY JobFacts
    <2>2. jgen <= jgen /\ TunnelInv'  BY <1>1, <2>1, JobFacts DEF TunnelInv
    <2> QED BY <1>1, <1>2, <1>8, <2>1, <2>2, OffStep
  <1>9. CASE jlive /\ byClient
    <2>1. PICK v : v = jwire \o (<<c>> \o <<d>>)  OBVIOUS
    <2>2. v \in Seq(JobMessage) /\ Sent(v, jwire, 1, d) /\ v[Len(jwire) + 1] = c
      BY <1>3, <1>4, <1>5, <2>1, SentTwo
    <2>3. WellFormed(v[Len(jwire) + 1]) /\ IsRunning(v[Len(jwire) + 1].file, v[Len(jwire) + 1].plate, j)
      BY <1>6, <2>2
    <2>4. jwire' = v  BY <1>1, <1>9, <2>1
    <2> QED BY <1>1, <1>2, <1>6, <1>7, <1>9, <2>2, <2>3, <2>4, SendStep
  <1>10. CASE jlive /\ ~byClient
    <2>1. PICK v : v = jwire \o <<d>>  OBVIOUS
    <2>2. v \in Seq(JobMessage) /\ Sent(v, jwire, 0, d)
      BY <1>3, <1>4, <2>1, SentOne
    <2>3. <<d>> \in Seq(JobMessage)  BY <1>4
    <2>4. <<>> \o <<d>> = <<d>>  BY <2>3, ConcatEmptySeq
    <2>5. jwire' = v  BY <1>1, <1>10, <2>1, <2>4
    <2>6. ~(0 = 1)  OBVIOUS
    <2> QED BY <1>1, <1>2, <1>6, <1>7, <1>10, <2>2, <2>5, <2>6, SendStep
  <1> QED BY <1>8, <1>9, <1>10

LEMMA EndJobStep ==
  ASSUME JobInv, EndJob
  PROVE  JobInv'
  <1> DEFINE j == [job EXCEPT !.state = "ended"]
             d == JobFrame(None, None, "ended")
  <1>1. /\ job' = j /\ UNCHANGED <<reports, jlive, jgen, jcache, failures, failedGen>>
        /\ jwire' = IF jlive THEN jwire \o <<d>> ELSE <<>>
    BY DEF EndJob, Send, linkVars, tunnelVars
  <1>2. job \in JobType /\ jwire \in Seq(JobMessage)  BY JobFacts
  <1>3. j \in JobType /\ j.plate = job.plate  BY <1>2 DEF JobType, JobStates
  <1>4. d \in JobMessage /\ d.kind = "status" /\ d.state = "ended" /\ d.plate = None
    BY DEF JobMessage, JobFrame, Opt, JobStates
  <1>5. WellFormed(d) /\ Tells(d, "ended") /\ ~Plated(d)
    BY <1>4 DEF WellFormed, Tells, Plated, JobStates
  <1> HIDE DEF j, d
  <1>6. CASE ~jlive
    <2>1. jgen \in Nat /\ failures \in Nat /\ jlive \in BOOLEAN  BY JobFacts
    <2>2. jgen <= jgen /\ TunnelInv'  BY <1>1, <2>1, JobFacts DEF TunnelInv
    <2> QED BY <1>1, <1>3, <1>6, <2>1, <2>2, OffStep
  <1>7. CASE jlive
    <2>1. PICK v : v = jwire \o <<d>>  OBVIOUS
    <2>2. v \in Seq(JobMessage) /\ Sent(v, jwire, 0, d)
      BY <1>2, <1>4, <2>1, SentOne
    <2>3. jwire' = v  BY <1>1, <1>7, <2>1
    <2>4. IF ~reports THEN ~Plated(d) ELSE IF Plated(d) THEN d.plate = j.plate ELSE job.plate = j.plate
      BY <1>3, <1>5
    <2>5. 0 = 0 /\ Tells(d, "ended")  BY <1>5
    <2> QED BY <1>1, <1>3, <1>5, <1>7, <2>2, <2>3, <2>4, <2>5, SendStep
  <1> QED BY <1>6, <1>7

\* The answer to a pushall, alone on the wire.
LEMMA PushallWire ==
  ASSUME JobInv, NEW p
  PROVE  LET v == <<PushallAnswer>> IN
         /\ v \in Seq(JobMessage) /\ AllFormed(v) /\ EchoesRight(v, job)
         /\ reports => PlatesRight(v, job, p)
         /\ ~reports => \A i \in DOMAIN v : ~Plated(v[i])
         /\ NoEnd(v) => job.state = "busy"
  <1> DEFINE d == PushallAnswer
  <1>0. job \in JobType  BY JobFacts
  <1>1. /\ d \in JobMessage /\ d.kind = "status" /\ d.state = job.state /\ job.state \in JobStates
        /\ d.plate = IF reports THEN job.plate ELSE None
    BY <1>0 DEF JobMessage, JobFrame, PlateField, Opt, JobType, PushallAnswer
  <1>2. job.plate # None  BY <1>0, NoneAssumption DEF JobType, Plates
  <1>3. WellFormed(d) /\ d.kind # "echo" /\ (Plated(d) <=> reports)
        /\ (Tells(d, "ended") <=> job.state = "ended")
    BY <1>1, <1>2 DEF WellFormed, Tells, Plated
  <1> HIDE DEF d
  <1>4. PICK v : v = <<d>>  OBVIOUS
  <1>5. v \in Seq(JobMessage) /\ DOMAIN v = {1} /\ v[1] = d  BY <1>1, <1>4
  <1>6. AllFormed(v) /\ EchoesRight(v, job)  BY <1>3, <1>5 DEF AllFormed, EchoesRight
  <1>7. reports => PlatesRight(v, job, p)  BY <1>1, <1>3, <1>5 DEF PlatesRight
  <1>8. ~reports => \A i \in DOMAIN v : ~Plated(v[i])  BY <1>3, <1>5
  <1>9. NoEnd(v) => job.state = "busy"  BY <1>1, <1>3, <1>5 DEF NoEnd, JobStates
  <1> QED BY <1>4, <1>5, <1>6, <1>7, <1>8, <1>9 DEF d

LEMMA ConnectStep ==
  ASSUME PushallAnswered, JobInv, JobConnect
  PROVE  JobInv'
  <1>1. /\ UNCHANGED <<reports, job, jcache, failedGen>> /\ jlive' = TRUE /\ jgen' = jgen + 1
        /\ failures' = 0 /\ jwire' = <<PushallAnswer>>
    BY DEF JobConnect, printerVars
  <1>2. PICK v : v = <<PushallAnswer>>  OBVIOUS
  <1>3. /\ v \in Seq(JobMessage) /\ AllFormed(v) /\ EchoesRight(v, job)
        /\ reports => PlatesRight(v, job, jcache.plateIdx)
        /\ ~reports => \A i \in DOMAIN v : ~Plated(v[i])
    BY <1>2, PushallWire
  <1>4. /\ reports \in BOOLEAN /\ jgen \in Nat /\ job \in JobType /\ jcache \in CacheOfJob
        /\ ~reports => jcache.plateIdx = None
        /\ jcache.start # None => jcache.start.gen <= jgen
    BY JobFacts
  <1>5. JobTypeOK'
    <2>1. jlive' \in BOOLEAN  BY <1>1, Zenon
    <2>2. jgen' \in Nat  BY <1>1, <1>4
    <2> QED BY <1>1, <1>2, <1>3, <1>4, <2>1, <2>2 DEF JobTypeOK, JobType, CacheOfJob
  <1>6. PlateInv'  BY <1>1, <1>2, <1>3, <1>4 DEF PlateInv
  <1>7. EchoInv'  BY <1>1, <1>2, <1>3 DEF EchoInv
  <1>8. StartInv'
    <2>1. jcache.start # None => jcache.start.gen \in Nat  BY <1>4 DEF CacheOfJob, Opt, JobStart
    <2>2. jcache.start # None => jcache.start.gen <= jgen + 1 /\ jcache.start.gen # jgen + 1
      BY <1>4, <2>1
    <2> QED BY <1>1, <2>2 DEF StartInv
  <1>9. TunnelInv'  BY <1>1 DEF TunnelInv
  <1> QED BY <1>1, <1>5, <1>6, <1>7, <1>8, <1>9 DEF JobInv

LEMMA DisconnectStep ==
  ASSUME JobInv, JobDisconnect
  PROVE  JobInv'
  <1>1. /\ UNCHANGED <<reports, job, jcache, failedGen>> /\ jlive' = FALSE /\ jwire' = <<>>
        /\ \/ jgen' = jgen + 1 /\ failures' = 0
           \/ UNCHANGED <<jgen, failures>>
    BY DEF JobDisconnect, printerVars
  <1>2. jgen \in Nat /\ failures \in Nat /\ job \in JobType  BY JobFacts
  <1>3. jlive' \in BOOLEAN /\ ~jlive'  BY <1>1, Zenon
  <1>4. CASE jgen' = jgen + 1 /\ failures' = 0
    <2>1. jgen' \in Nat /\ jgen <= jgen' /\ failures' \in Nat  BY <1>2, <1>4
    <2>2. TunnelInv'  BY <1>4 DEF TunnelInv
    <2> QED BY <1>1, <1>2, <1>3, <2>1, <2>2, OffStep
  <1>5. CASE UNCHANGED <<jgen, failures>>
    <2>1. jgen' \in Nat /\ jgen <= jgen' /\ failures' \in Nat  BY <1>2, <1>5
    <2>2. TunnelInv'  BY <1>1, <1>5, JobFacts DEF TunnelInv
    <2> QED BY <1>1, <1>2, <1>3, <2>1, <2>2, OffStep
  <1> QED BY <1>1, <1>4, <1>5

LEMMA RefreshStep ==
  ASSUME JobInv, RefreshState
  PROVE  JobInv'
  <1>1. /\ UNCHANGED <<reports, job, jcache, failedGen, failures, jlive, jgen>>
        /\ jlive /\ jwire = <<>> /\ jwire' = <<PushallAnswer>>
    BY DEF RefreshState, printerVars, linkVars, tunnelVars
  <1>2. PICK v : v = <<PushallAnswer>>  OBVIOUS
  <1>3. /\ v \in Seq(JobMessage) /\ AllFormed(v) /\ EchoesRight(v, job)
        /\ reports => PlatesRight(v, job, jcache.plateIdx)
        /\ ~reports => \A i \in DOMAIN v : ~Plated(v[i])
        /\ NoEnd(v) => job.state = "busy"
    BY <1>2, PushallWire
  <1>4. JobTypeOK'  BY <1>1, <1>2, <1>3, JobFacts DEF JobTypeOK, JobType, CacheOfJob
  <1>5. PlateInv'  BY <1>1, <1>2, <1>3, JobFacts DEF PlateInv
  <1>6. EchoInv'  BY <1>1, <1>2, <1>3 DEF EchoInv
  <1>7. StartInv'
    <2>1. ASSUME jcache.start # None, jcache.start.gen = jgen
          PROVE  StartRight(v, job, jcache.start, jcache.state)
      <3>1. StartRight(jwire, job, jcache.start, jcache.state)  BY <1>1, <2>1, JobFacts
      <3>2. DOMAIN jwire = {}  BY <1>1
      <3> QED BY <3>1, <3>2 DEF StartRight, NoEnd
    <2>2. jcache.start # None => jcache.start.gen <= jgen  BY JobFacts
    <2> QED BY <1>1, <1>2, <2>1, <2>2 DEF StartInv
  <1>8. TunnelInv'  BY <1>1, JobFacts DEF TunnelInv
  <1> QED BY <1>1, <1>4, <1>5, <1>6, <1>7, <1>8 DEF JobInv

\* A message leaves the wire: the first, or an echo.
LEMMA TakeStep ==
  ASSUME JobInv, jlive, UNCHANGED <<reports, job, failedGen, failures, jlive, jgen>>,
         NEW v \in Seq(JobMessage), jwire' = v, NEW i \in DOMAIN jwire, Took(v, jwire, i),
         jwire[i].kind = "echo" \/ i = 1,
         NEW c \in CacheOfJob, jcache' = c,
         IF Plated(jwire[i]) THEN i = 1 /\ c.plateIdx = jwire[1].plate
         ELSE c.plateIdx \in {jcache.plateIdx, None},
         c.start # None =>
           /\ c.start.gen <= jgen
           /\ c.start.gen = jgen => StartRight(v, job, c.start, c.state)
  PROVE  JobInv'
  <1>1. jwire \in Seq(JobMessage) /\ AllFormed(jwire) /\ EchoesRight(jwire, job)  BY JobFacts
  <1>2. AllFormed(v)  BY <1>1, FormedTook
  <1>3. JobTypeOK'  BY <1>2, JobFacts DEF JobTypeOK, JobType, CacheOfJob
  <1>4. PlateInv'
    <2>1. CASE reports
      <3>1. PlatesRight(jwire, job, jcache.plateIdx)  BY <2>1, JobFacts
      <3>2. IF Plated(jwire[i]) THEN i = 1 /\ c.plateIdx = jwire[1].plate
            ELSE c.plateIdx \in {jcache.plateIdx, None}
        OBVIOUS
      <3>3. PlatesRight(v, job, c.plateIdx)  BY <1>1, <3>1, <3>2, PlateTook
      <3> QED BY <2>1, <3>3 DEF PlateInv
    <2>2. CASE ~reports
      <3>1. jcache.plateIdx = None /\ \A k \in DOMAIN jwire : ~Plated(jwire[k])  BY <2>2, JobFacts
      <3>2. PICK n \in Nat : n = Len(jwire)  BY <1>1, LenProperties
      <3>3. /\ DOMAIN jwire = 1..n /\ DOMAIN v = 1..(n - 1) /\ i \in 1..n
            /\ \A k \in 1..(n - 1) : v[k] = jwire[IF k < i THEN k ELSE k + 1]
        BY <1>1, <3>2 DEF Took
      <3>4. \A k \in 1..(n - 1) : (IF k < i THEN k ELSE k + 1) \in 1..n  BY <3>3
      <3>5. \A k \in DOMAIN v : ~Plated(v[k])  BY <3>1, <3>3, <3>4
      <3> QED BY <2>2, <3>1, <3>5 DEF PlateInv
    <2> QED BY <2>1, <2>2
  <1>5. EchoInv'
    <2>1. EchoesRight(v, job)  BY <1>1, EchoTook
    <2> QED BY <2>1 DEF EchoInv
  <1>6. StartInv'  BY DEF StartInv
  <1>7. TunnelInv'  BY JobFacts DEF TunnelInv
  <1> QED BY <1>3, <1>4, <1>5, <1>6, <1>7 DEF JobInv

LEMMA PollJobStep ==
  ASSUME JobInv, PollJob
  PROVE  JobInv'
  <1>1. /\ UNCHANGED <<reports, job, failedGen, failures, jlive, jgen>>
        /\ jlive /\ jwire # <<>> /\ jwire' = Tail(jwire)
        /\ jcache' = IF Head(jwire).kind = "echo" THEN RecordJobStart(Head(jwire))
                     ELSE UpdateJobCache(Head(jwire))
    BY DEF PollJob, printerVars, linkVars, tunnelVars
  <1>2. jwire \in Seq(JobMessage) /\ AllFormed(jwire) /\ EchoesRight(jwire, job)
        /\ jcache \in CacheOfJob /\ jgen \in Nat
    BY JobFacts
  <1>3. PICK v : v = Tail(jwire)  OBVIOUS
  <1>4. v \in Seq(JobMessage) /\ Took(v, jwire, 1) /\ Head(jwire) = jwire[1]
    BY <1>1, <1>2, <1>3, TookTail
  <1>5. PICK n \in Nat : n = Len(jwire)  BY <1>2, LenProperties
  <1>6. /\ DOMAIN jwire = 1..n /\ 1 \in 1..n /\ DOMAIN v = 1..(n - 1)
        /\ \A k \in 1..(n - 1) : v[k] = jwire[k + 1]
    <2>1. /\ 1 \in 1..Len(jwire) /\ DOMAIN v = 1..(Len(jwire) - 1)
          /\ \A k \in DOMAIN v : v[k] = jwire[IF k < 1 THEN k ELSE k + 1]
      BY <1>4 DEF Took
    <2>2. \A k \in 1..(n - 1) : ~(k < 1)  OBVIOUS
    <2>3. DOMAIN jwire = 1..n  BY <1>2, <1>5
    <2> QED BY <1>5, <2>1, <2>2, <2>3
  <1>7. PICK m \in JobMessage : m = jwire[1]  BY <1>2, <1>5, <1>6, ElementOfSeq
  <1>8. WellFormed(m)  BY <1>2, <1>6, <1>7 DEF AllFormed
  <1>9. CASE m.kind = "echo"
    <2> DEFINE s == [file |-> m.file, plate |-> m.plate, gen |-> jgen]
               c == [jcache EXCEPT !.start = s]
    <2>1. jcache' = c  BY <1>1, <1>4, <1>7, <1>9 DEF RecordJobStart
    <2>2. s \in JobStart  BY <1>2, <1>8, <1>9 DEF WellFormed, JobStart
    <2>3. c \in CacheOfJob /\ c.start = s /\ c.plateIdx = jcache.plateIdx  BY <1>2, <2>2 DEF CacheOfJob, Opt
    <2>4. s.file = m.file /\ s.plate = m.plate /\ s.gen = jgen  OBVIOUS
    <2> HIDE DEF c, s
    <2>5. ~Plated(jwire[1])  BY <1>7, <1>9 DEF Plated
    <2>6. StartRight(v, job, s, c.state)
      <3>1. /\ 1 + 1 \in 1..n /\ Tells(jwire[1 + 1], "busy")
            /\ (\A k \in 1..n : k > 1 => ~Tells(jwire[k], "ended")) => IsRunning(m.file, m.plate, job)
        BY <1>2, <1>6, <1>7, <1>9 DEF EchoesRight
      <3>2. 1 \in DOMAIN v /\ Tells(v[1], "busy")
        <4>1. 1 \in 1..(n - 1)  BY <3>1
        <4> QED BY <1>6, <3>1, <4>1
      <3>3. NoEnd(v) => \A k \in DOMAIN jwire : k # 1 => ~Tells(jwire[k], "ended")
        BY <1>2, <1>4, StartTook
      <3>4. \A k \in 1..n : k > 1 => k # 1  OBVIOUS
      <3>5. NoEnd(v) => IsRunning(m.file, m.plate, job)  BY <1>6, <3>1, <3>3, <3>4
      <3> QED BY <2>4, <3>2, <3>5 DEF StartRight
    <2>7. jgen <= jgen  BY <1>2
    <2>8. /\ IF Plated(jwire[1]) THEN 1 = 1 /\ c.plateIdx = jwire[1].plate
             ELSE c.plateIdx \in {jcache.plateIdx, None}
          /\ c.start # None =>
               /\ c.start.gen <= jgen
               /\ c.start.gen = jgen => StartRight(v, job, c.start, c.state)
      BY <2>3, <2>4, <2>5, <2>6, <2>7
    <2>9. 1 \in DOMAIN jwire  BY <1>6
    <2> QED BY <1>1, <1>3, <1>4, <2>1, <2>3, <2>8, <2>9, TakeStep
  <1>10. CASE m.kind # "echo"
    <2> DEFINE c == UpdateJobCache(m)
    <2>1. jcache' = c  BY <1>1, <1>4, <1>7, <1>10
    <2>2. /\ m.kind = "status" /\ m.state \in JobStates
          /\ m.file \in Opt(JobFiles) /\ m.plate \in Opt(Plates)
      BY <1>7, <1>8, <1>10 DEF JobMessage, WellFormed
    <2>3. m.state # None  BY <2>2, JobAssumption DEF JobStates
    <2>4. /\ c \in CacheOfJob /\ c.state = m.state
          /\ c.start = IF m.state = "ended" /\ jcache.state = "busy" THEN None ELSE jcache.start
          /\ IF m.plate # None THEN c.plateIdx = m.plate ELSE c.plateIdx \in {jcache.plateIdx, None}
      BY <1>2, <2>2, <2>3 DEF UpdateJobCache, Or, CacheOfJob, Opt
    <2> HIDE DEF c
    <2>5. IF Plated(jwire[1]) THEN 1 = 1 /\ c.plateIdx = jwire[1].plate
          ELSE c.plateIdx \in {jcache.plateIdx, None}
      BY <1>7, <2>2, <2>4 DEF Plated
    <2>6. ASSUME c.start # None
          PROVE  /\ c.start.gen <= jgen
                 /\ c.start.gen = jgen => StartRight(v, job, c.start, c.state)
      <3>1. c.start = jcache.start /\ jcache.start # None /\ ~(m.state = "ended" /\ jcache.state = "busy")
        BY <2>4, <2>6
      <3>2. c.start.gen <= jgen  BY <3>1, JobFacts
      <3>3. ASSUME c.start.gen = jgen PROVE StartRight(v, job, c.start, c.state)
        <4>1. StartRight(jwire, job, jcache.start, jcache.state)  BY <1>1, <3>1, <3>3, JobFacts
        <4>2. m.state = "busy"
          BY <1>7, <2>2, <3>1, <4>1 DEF StartRight, Tells, JobStates
        <4>3. NoEnd(v) => NoEnd(jwire)
          <5>1. NoEnd(v) => \A k \in DOMAIN jwire : k # 1 => ~Tells(jwire[k], "ended")
            BY <1>2, <1>4, StartTook
          <5>2. ~Tells(jwire[1], "ended")  BY <1>7, <4>2 DEF Tells
          <5> QED BY <5>1, <5>2 DEF NoEnd
        <4> QED BY <2>4, <3>1, <4>1, <4>2, <4>3 DEF StartRight
      <3> QED BY <3>2, <3>3
    <2>7. 1 \in DOMAIN jwire  BY <1>6
    <2> QED BY <1>1, <1>3, <1>4, <2>1, <2>4, <2>5, <2>6, <2>7, TakeStep
  <1> QED BY <1>9, <1>10

LEMMA AckStep ==
  ASSUME JobInv, AwaitStartAck
  PROVE  JobInv'
  <1>1. UNCHANGED <<reports, job, jcache, failedGen, failures, jlive, jgen>> /\ jlive
    BY DEF AwaitStartAck, printerVars, linkVars, tunnelVars
  <1>2. jwire \in Seq(JobMessage) /\ jcache \in CacheOfJob  BY JobFacts
  <1>3. PICK i \in DOMAIN jwire :
          /\ jwire[i].kind = "echo"
          /\ jwire' = SubSeq(jwire, 1, i - 1) \o SubSeq(jwire, i + 1, Len(jwire))
    BY DEF AwaitStartAck
  <1>4. PICK v : v = SubSeq(jwire, 1, i - 1) \o SubSeq(jwire, i + 1, Len(jwire))  OBVIOUS
  <1>0. PICK n \in Nat : n = Len(jwire)  BY <1>2, LenProperties
  <1>5. i \in 1..Len(jwire)  BY <1>2
  <1>6. v \in Seq(JobMessage) /\ Took(v, jwire, i)  BY <1>2, <1>4, <1>5, TookMiddle
  <1>7. /\ DOMAIN jwire = 1..n /\ DOMAIN v = 1..(n - 1) /\ i \in 1..n
        /\ \A k \in 1..(n - 1) : v[k] = jwire[IF k < i THEN k ELSE k + 1]
    BY <1>0, <1>2, <1>6 DEF Took
  <1>8. ASSUME jcache.start # None
        PROVE  /\ jcache.start.gen <= jgen
               /\ jcache.start.gen = jgen => StartRight(v, job, jcache.start, jcache.state)
    <2>1. ASSUME jcache.start.gen = jgen PROVE StartRight(v, job, jcache.start, jcache.state)
      <3>1. StartRight(jwire, job, jcache.start, jcache.state)  BY <1>1, <1>8, <2>1, JobFacts
      <3>2. ASSUME Tells(jwire[1], "busy") PROVE 1 \in DOMAIN v /\ v[1] = jwire[1]
        <4>1. i # 1  BY <1>3, <3>2 DEF Tells
        <4>2. 1 \in 1..(n - 1) /\ 1 < i  BY <1>7, <4>1
        <4> QED BY <1>7, <4>2
      <3>3. NoEnd(v) => NoEnd(jwire)
        <4>1. NoEnd(v) => \A k \in DOMAIN jwire : k # i => ~Tells(jwire[k], "ended")
          BY <1>2, <1>6, StartTook
        <4>2. ~Tells(jwire[i], "ended")  BY <1>3 DEF Tells
        <4> QED BY <4>1, <4>2 DEF NoEnd
      <3> QED BY <3>1, <3>2, <3>3 DEF StartRight
    <2> QED BY <1>8, <2>1, JobFacts
  <1>9. ~Plated(jwire[i])  BY <1>3 DEF Plated
  <1> QED BY <1>1, <1>2, <1>3, <1>4, <1>6, <1>8, <1>9, TakeStep

LEMMA ImagesStep ==
  ASSUME JobInv, ReadRunningJobImages
  PROVE  JobInv'
  <1>1. /\ UNCHANGED <<reports, job, jcache, jlive, jgen, jwire>> /\ failedGen # jgen
        /\ \/ failedGen' = jgen /\ failures' = failures + 1
           \/ failedGen' = None /\ failures' = 0
    BY DEF ReadRunningJobImages, WorthTrying, printerVars, linkVars
  <1>2. failures = 0 /\ jgen \in Nat
    <2>1. failures \in Nat /\ failures <= 1 /\ failures # 1 /\ jgen \in Nat  BY <1>1, JobFacts
    <2> QED BY <2>1
  <1>3. failures' \in Nat /\ TunnelInv'  BY <1>1, <1>2 DEF TunnelInv
  <1>4. JobTypeOK' /\ PlateInv' /\ EchoInv' /\ StartInv'
    BY <1>1, <1>3 DEF JobInv, JobTypeOK, PlateInv, EchoInv, StartInv
  <1> QED BY <1>1, <1>3, <1>4 DEF JobInv

LEMMA JobStep == PushallAnswered /\ JobInv /\ [JobNext]_jobVars => JobInv'
  <1> SUFFICES ASSUME PushallAnswered, JobInv, [JobNext]_jobVars PROVE JobInv'  OBVIOUS
  <1>1. CASE \E f \in JobFiles, p \in Plates, c \in BOOLEAN : StartJob(f, p, c)  BY <1>1, StartJobStep
  <1>2. CASE EndJob  BY <1>2, EndJobStep
  <1>3. CASE JobConnect  BY <1>3, ConnectStep
  <1>4. CASE JobDisconnect  BY <1>4, DisconnectStep
  <1>5. CASE PollJob  BY <1>5, PollJobStep
  <1>6. CASE AwaitStartAck  BY <1>6, AckStep
  <1>7. CASE RefreshState  BY <1>7, RefreshStep
  <1>8. CASE ReadRunningJobImages  BY <1>8, ImagesStep
  <1>9. CASE UNCHANGED jobVars
    BY <1>9 DEF jobVars, JobInv, JobTypeOK, PlateInv, EchoInv, StartInv, TunnelInv
  <1> QED BY <1>1, <1>2, <1>3, <1>4, <1>5, <1>6, <1>7, <1>8, <1>9 DEF JobNext

\* job_plate never names another job's plate, and a file tunnel that failed is not
\* dialled again on its connection, for a printer that answers the connect-time
\* pushall, over any number of jobs and connections (client/job.rs).
THEOREM JobTheorem == PushallAnswered /\ JobSpec => []JobCacheRight
  <1>1. JobInv => JobCacheRight
    <2> SUFFICES ASSUME JobInv PROVE JobCacheRight  OBVIOUS
    <2>1. TunnelAskedOnce  BY JobFacts DEF TunnelAskedOnce
    <2>2. JobPlateRight
      <3> SUFFICES ASSUME jlive, jwire = <<>>, JobPlate # None PROVE JobPlate = job.plate
        BY DEF JobPlateRight
      <3>1. DOMAIN jwire = {}  OBVIOUS
      <3>2. CASE jcache.plateIdx # None
        <4>1. reports /\ PlatesRight(jwire, job, jcache.plateIdx)  BY <3>2, JobFacts
        <4>2. jcache.plateIdx = job.plate  BY <3>1, <3>2, <4>1 DEF PlatesRight
        <4> QED BY <3>2, <4>2 DEF JobPlate
      <3>3. CASE jcache.plateIdx = None
        <4>1. RunningJobStart # None /\ JobPlate = RunningJobStart.plate  BY <3>3 DEF JobPlate
        <4>2. RunningJobStart = jcache.start /\ jcache.start # None /\ jcache.start.gen = jgen
          BY <4>1 DEF RunningJobStart
        <4>3. StartRight(jwire, job, jcache.start, jcache.state)  BY <4>2, JobFacts
        <4>4. jcache.start.plate = job.plate  BY <3>1, <4>3 DEF StartRight, NoEnd, IsRunning
        <4> QED BY <4>1, <4>2, <4>4
      <3> QED BY <3>2, <3>3
    <2> QED BY <2>1, <2>2 DEF JobCacheRight
  <1>2. CASE PushallAnswered  BY <1>1, <1>2, JobInitInv, JobStep, PTL DEF JobSpec
  <1>3. CASE ~PushallAnswered  BY <1>3
  <1> QED BY <1>2, <1>3

-----------------------------------------------------------------------------
(* The connection slots and connect_all                                      *)

SlotSteps == {"idle", "dial", "pushall", "prime", "close", "closed", "all_join", "all_pushall",
              "all_prime", "all_done"}
SlotOp == [at : SlotSteps, chan : Slots, then : {"end", "prime", "dial", "attach"}]
SlotTypeOK ==
  /\ slot \in [Slots -> {"none", "live", "poisoned"}]
  /\ config \in [Channel -> {"none", "dial", "pre"}]
  /\ profile \in Profile
  /\ sop \in SlotOp
  /\ dial \in [Channel -> {"no", "wait", "ok", "err"}]
  /\ supplied \in BOOLEAN /\ torn \in BOOLEAN

\* MQTT is always configured.  A disconnect that awaited nothing has put back no
\* configuration: then there was one, if there was ever one.
ConfigInv ==
  /\ config["mqtt"] # "none"
  /\ FtpsConfigKept
  /\ supplied /\ ~torn /\ sop.at = "closed" /\ sop.chan = "ftps" /\ sop.then # "attach"
       => config["ftps"] # "none"

\* A channel's dial is what connect_all wanted of it when it looked at the
\* slots; until the channel is installed the slot is as it was.
NotDialled(c) == slot[c] # "none" \/ config[c] = "none" \/ ~Applicable(c)
Awaited(c) == IF dial[c] = "no" THEN NotDialled(c) ELSE AllWants(c)
Told(c) ==
  /\ dial[c] = "ok" => slot[c] = "live"
  /\ dial[c] = "err" => slot[c] = "none" /\ config[c] # "none" /\ Applicable(c)
  /\ dial[c] = "no" => NotDialled(c)
  /\ dial[c] # "wait"

DialInv ==
  /\ sop.at = "all_join" => \A c \in Channel : Awaited(c)
  /\ sop.at = "all_pushall" =>
       /\ Told("mqtt")
       /\ \A c \in {"ftps", "camera"} : Awaited(c) /\ dial[c] # "wait"
  /\ sop.at \in {"all_prime", "all_done"} => \A c \in Channel : Told(c)

SlotInv == SlotTypeOK /\ ConfigInv /\ DialInv

LEMMA SlotInitInv == SlotInit => SlotInv
  <1> SUFFICES ASSUME SlotInit PROVE SlotInv  OBVIOUS
  <1>1. SlotTypeOK
    <2>1. sop = SlotIdle /\ SlotIdle \in SlotOp
      BY DEF SlotInit, SlotIdle, SlotOp, SlotSteps, Slots, Channel
    <2>2. config \in [Channel -> {"none", "dial", "pre"}]
      BY DEF SlotInit, Channel
    <2> QED BY <2>1, <2>2 DEF SlotInit, SlotTypeOK, Slots, Channel, NoDials
  <1>2. ConfigInv /\ DialInv
    BY DEF SlotInit, ConfigInv, DialInv, FtpsConfigKept, SlotIdle
  <1> QED BY <1>1, <1>2 DEF SlotInv

LEMMA SlotOps ==
  /\ SlotIdle \in SlotOp /\ SlotIdle.at = "idle"
  /\ \A at \in SlotSteps, c \in Slots, then \in {"end", "prime", "dial", "attach"} :
       /\ At(at, c, then) \in SlotOp
       /\ At(at, c, then).at = at /\ At(at, c, then).chan = c /\ At(at, c, then).then = then
  BY DEF SlotIdle, SlotOp, At, SlotSteps, Slots, Channel

\* A step at rest that starts or changes nothing of connect_all.
LEMMA BuilderStep ==
  ASSUME SlotInv, NEW c \in {"ftps", "camera"}, WithConfig(c) \/ WithAttached(c)
  PROVE  SlotInv'
  <1>1. sop = SlotIdle /\ UNCHANGED <<profile, sop, dial>> /\ sop.at = "idle"
    BY SlotOps DEF WithConfig, WithAttached
  <1>2. SlotTypeOK'
    <2>1. /\ config \in [Channel -> {"none", "dial", "pre"}] /\ c \in Channel
          /\ slot \in [Slots -> {"none", "live", "poisoned"}]
          /\ supplied \in BOOLEAN /\ torn \in BOOLEAN
      BY DEF SlotInv, SlotTypeOK, Channel
    <2>2. config' \in [Channel -> {"none", "dial", "pre"}]
      BY <2>1 DEF WithConfig, WithAttached
    <2>3. slot' \in [Slots -> {"none", "live", "poisoned"}]
      BY <2>1 DEF WithConfig, WithAttached
    <2>4. supplied' \in BOOLEAN /\ torn' \in BOOLEAN
      BY <2>1 DEF WithConfig, WithAttached
    <2> QED BY <1>1, <2>2, <2>3, <2>4 DEF SlotInv, SlotTypeOK
  <1>3. ConfigInv'
    <2>1. /\ config \in [Channel -> {"none", "dial", "pre"}] /\ slot \in [Slots -> {"none", "live", "poisoned"}]
          /\ "mqtt" \in Channel /\ "ftps" \in Channel /\ "ftps" \in Slots
          /\ config["mqtt"] # "none" /\ FtpsConfigKept
      BY DEF SlotInv, SlotTypeOK, ConfigInv, Channel, Slots
    <2> QED BY <1>1, <2>1 DEF ConfigInv, FtpsConfigKept, WithConfig, WithAttached
  <1>4. DialInv'
    BY <1>1 DEF DialInv
  <1> QED BY <1>2, <1>3, <1>4 DEF SlotInv

\* A step that changes neither a slot nor a configuration, outside connect_all.
LEMMA SlotMoves ==
  ASSUME SlotInv, UNCHANGED <<slot, config, profile, supplied>>,
         sop' \in SlotOp, sop'.at \in {"idle", "dial", "pushall", "prime"},
         dial' \in [Channel -> {"no", "wait", "ok", "err"}],
         \/ UNCHANGED torn /\ ~(sop.at \in {"close", "closed"} /\ sop.chan = "ftps")
         \/ torn' = TRUE
  PROVE  SlotInv'
  <1>1. SlotTypeOK'  BY DEF SlotInv, SlotTypeOK, SlotOp
  <1>2. ConfigInv'   BY DEF SlotInv, ConfigInv, FtpsConfigKept
  <1>3. DialInv'     BY DEF DialInv
  <1> QED BY <1>1, <1>2, <1>3 DEF SlotInv

LEMMA EnsureStep ==
  ASSUME SlotInv,
         \/ \E c \in Slots : EnsureDial(c)
         \/ ConnectMqttAgain \/ DialFails \/ FinishPushall \/ FinishPrime
         \/ SlotCancel
  PROVE  SlotInv'
  <1>1. dial \in [Channel -> {"no", "wait", "ok", "err"}] /\ NoDials \in [Channel -> {"no", "wait", "ok", "err"}]
        /\ sop \in SlotOp /\ torn \in BOOLEAN
    BY DEF SlotInv, SlotTypeOK, NoDials, SlotOp
  <1>2. CASE \E c \in Slots : EnsureDial(c)
    <2>1. PICK c \in Slots, then \in {"end", "prime"} :
              sop = SlotIdle /\ sop' = At("dial", c, then)
              /\ UNCHANGED <<slot, config, profile, dial, supplied, torn>>
      BY <1>2 DEF EnsureDial
    <2>2. sop' \in SlotOp /\ sop'.at = "dial"  BY <2>1, SlotOps DEF SlotSteps
    <2> QED BY <1>1, <2>1, <2>2, SlotOps, SlotMoves
  <1>3. CASE ConnectMqttAgain
    BY <1>1, <1>3, SlotOps, SlotMoves DEF ConnectMqttAgain, SlotSteps, Slots, Channel
  <1>4. CASE DialFails \/ FinishPrime
    BY <1>1, <1>4, SlotOps, SlotMoves DEF DialFails, FinishPrime
  <1>5. CASE FinishPushall
    <2>1. sop' \in SlotOp /\ sop'.at \in {"idle", "prime"}
      BY <1>5, SlotOps DEF FinishPushall, SlotSteps, Slots, Channel
    <2> QED BY <1>1, <1>5, <2>1, SlotMoves DEF FinishPushall
  <1>6. CASE SlotCancel
    <2>1. \/ UNCHANGED torn /\ ~(sop.at \in {"close", "closed"} /\ sop.chan = "ftps")
          \/ torn' = TRUE
      BY <1>1, <1>6 DEF SlotCancel
    <2> QED BY <1>1, <1>6, <2>1, SlotOps, SlotMoves DEF SlotCancel
  <1> QED BY <1>2, <1>3, <1>4, <1>5, <1>6

\* A session leaves its slot; what follows its close is still to come.
LEMMA CloseStep ==
  ASSUME SlotInv, sop = SlotIdle, NEW c \in Slots, NEW then \in {"end", "dial", "attach"},
         TakeAndClose(c, then)
  PROVE  SlotInv'
  <1>1. /\ sop' \in SlotOp /\ sop'.chan = c /\ sop'.then = then
        /\ sop'.at \in {"close", "closed"}
        /\ sop'.at = "closed" /\ c = "ftps" => slot["ftps"] = "none"
    BY SlotOps DEF TakeAndClose, SlotSteps
  <1>2. /\ UNCHANGED <<config, profile, dial, supplied, torn>>
        /\ slot' = [slot EXCEPT ![c] = "none"] /\ sop.at = "idle"
    BY SlotOps DEF TakeAndClose
  <1>3. SlotTypeOK'
    BY <1>1, <1>2 DEF SlotInv, SlotTypeOK, SlotOp
  <1>4. ConfigInv'
    <2>1. slot \in [Slots -> {"none", "live", "poisoned"}] /\ "ftps" \in Slots
      BY DEF SlotInv, SlotTypeOK, Slots, Channel
    <2>2. FtpsConfigKept /\ config["mqtt"] # "none"  BY DEF SlotInv, ConfigInv
    <2>3. slot'["ftps"] = (IF c = "ftps" THEN "none" ELSE slot["ftps"])
      BY <1>2, <2>1
    <2>4. FtpsConfigKept'
      BY <1>1, <1>2, <2>2, <2>3 DEF FtpsConfigKept
    <2>5. (supplied /\ ~torn /\ sop.at = "closed" /\ sop.chan = "ftps" /\ sop.then # "attach"
             => config["ftps"] # "none")'
      BY <1>1, <1>2, <2>2 DEF FtpsConfigKept
    <2> QED BY <1>2, <2>2, <2>4, <2>5 DEF ConfigInv
  <1>5. DialInv'  BY <1>1 DEF DialInv
  <1> QED BY <1>3, <1>4, <1>5 DEF SlotInv

LEMMA CloseEndsStep ==
  ASSUME SlotInv, CloseEnds
  PROVE  SlotInv'
  <1>1. /\ slot \in [Slots -> {"none", "live", "poisoned"}] /\ config \in [Channel -> {"none", "dial", "pre"}]
        /\ sop \in SlotOp /\ sop.chan \in Slots /\ sop.then \in {"end", "prime", "dial", "attach"}
        /\ supplied \in BOOLEAN /\ torn \in BOOLEAN
        /\ "ftps" \in Slots /\ "ftps" \in Channel /\ "mqtt" \in Channel
    BY DEF SlotInv, SlotTypeOK, SlotOp, Slots, Channel
  <1>2. /\ sop.at \in {"close", "closed"} /\ config' = ConfigAfterClose /\ AfterClose
        /\ UNCHANGED <<profile, dial>>
    BY DEF CloseEnds
  <1>3. /\ config' \in [Channel -> {"none", "dial", "pre"}]
        /\ config'["mqtt"] = config["mqtt"]
        /\ config'["ftps"] = (IF sop.at = "close" /\ sop.chan = "ftps" THEN "dial" ELSE config["ftps"])
    BY <1>1, <1>2 DEF ConfigAfterClose
  <1>4. sop' \in SlotOp /\ sop'.at \in {"idle", "dial", "pushall"}
    <2>1. CASE sop.then = "attach"
      BY <1>2, <2>1, SlotOps DEF AfterClose, SlotSteps, Slots, Channel
    <2>2. CASE sop.then = "dial"
      BY <1>1, <1>2, <2>2, SlotOps DEF AfterClose, SlotSteps
    <2>3. CASE sop.then \in {"end", "prime"}
      BY <1>2, <2>3, SlotOps DEF AfterClose
    <2> QED BY <1>1, <2>1, <2>2, <2>3
  <1>5. CASE sop.then = "attach"
    <2>1. /\ slot' = [slot EXCEPT ![sop.chan] = "live"]
          /\ supplied' = (supplied \/ sop.chan = "ftps") /\ torn' = (torn /\ sop.chan # "ftps")
      BY <1>2, <1>5 DEF AfterClose
    <2>2. SlotTypeOK'
      BY <1>1, <1>2, <1>3, <1>4, <2>1 DEF SlotInv, SlotTypeOK, SlotOp
    <2>3. ConfigInv'
      <3>1. slot'["ftps"] = (IF sop.chan = "ftps" THEN "live" ELSE slot["ftps"])
        BY <1>1, <2>1
      <3>2. config["mqtt"] # "none" /\ FtpsConfigKept  BY DEF SlotInv, ConfigInv
      <3>3. sop.chan # "ftps" => (supplied' <=> supplied) /\ (torn' <=> torn)
        BY <1>1, <2>1
      <3> QED BY <1>3, <1>4, <3>1, <3>2, <3>3 DEF ConfigInv, FtpsConfigKept
    <2>4. DialInv'  BY <1>4 DEF DialInv
    <2> QED BY <2>2, <2>3, <2>4 DEF SlotInv
  <1>6. CASE sop.then # "attach"
    <2>1. UNCHANGED <<slot, supplied, torn>>
      BY <1>2, <1>6 DEF AfterClose
    <2>2. SlotTypeOK'
      BY <1>1, <1>2, <1>3, <1>4, <2>1 DEF SlotInv, SlotTypeOK, SlotOp
    <2>3. ConfigInv'
      <3>1. ConfigInv  BY DEF SlotInv
      <3> QED BY <1>2, <1>3, <1>4, <1>6, <2>1, <3>1 DEF ConfigInv, FtpsConfigKept
    <2>4. DialInv'  BY <1>4 DEF DialInv
    <2> QED BY <2>2, <2>3, <2>4 DEF SlotInv
  <1> QED BY <1>5, <1>6

LEMMA DialSucceedsStep ==
  ASSUME SlotInv, DialSucceeds
  PROVE  SlotInv'
  <1>1. /\ slot \in [Slots -> {"none", "live", "poisoned"}] /\ config \in [Channel -> {"none", "dial", "pre"}]
        /\ sop \in SlotOp /\ sop.chan \in Slots /\ sop.then \in {"end", "prime", "dial", "attach"}
        /\ "ftps" \in Slots /\ "ftps" \in Channel /\ "mqtt" \in Channel /\ "mqtt" \in Slots
    BY DEF SlotInv, SlotTypeOK, SlotOp, Slots, Channel
  <1>2. /\ sop.at = "dial" /\ slot' = [slot EXCEPT ![sop.chan] = "live"]
        /\ config' = ConfigAfterInstall(sop.chan) /\ UNCHANGED <<profile, dial, supplied, torn>>
    BY DEF DialSucceeds
  <1>3. sop' \in SlotOp /\ sop'.at \in {"idle", "pushall"}
    BY <1>1, SlotOps DEF DialSucceeds, SlotSteps
  <1>4. config' \in [Channel -> {"none", "dial", "pre"}]
    BY <1>1, <1>2 DEF ConfigAfterInstall
  <1>5. SlotTypeOK'
    BY <1>1, <1>2, <1>3, <1>4 DEF SlotInv, SlotTypeOK, SlotOp
  <1>6. ConfigInv'
    <2>1. config["mqtt"] # "none" /\ FtpsConfigKept  BY DEF SlotInv, ConfigInv
    <2>2. config'["mqtt"] = config["mqtt"] /\ (sop.chan # "ftps" => config' = config)
      BY <1>1, <1>2 DEF ConfigAfterInstall
    <2>3. slot'["ftps"] = (IF sop.chan = "ftps" THEN "live" ELSE slot["ftps"])
      BY <1>1, <1>2
    <2> QED BY <1>2, <1>3, <2>1, <2>2, <2>3 DEF ConfigInv, FtpsConfigKept
  <1>7. DialInv'  BY <1>3 DEF DialInv
  <1> QED BY <1>5, <1>6, <1>7 DEF SlotInv

LEMMA PoisonStep ==
  ASSUME SlotInv, NEW c \in {"ftps", "tunnel"}, Poison(c)
  PROVE  SlotInv'
  <1>1. /\ slot \in [Slots -> {"none", "live", "poisoned"}] /\ "ftps" \in Slots /\ c \in Slots
    BY DEF SlotInv, SlotTypeOK, Slots, Channel
  <1>2. /\ sop.at = "idle" /\ slot' = [slot EXCEPT ![c] = "poisoned"]
        /\ UNCHANGED <<config, profile, sop, dial, supplied, torn>>
    BY SlotOps DEF Poison
  <1>3. slot["ftps"] # "none" => slot'["ftps"] # "none"
    BY <1>1, <1>2
  <1>4. SlotTypeOK'
    BY <1>1, <1>2 DEF SlotInv, SlotTypeOK
  <1>5. ConfigInv'
    BY <1>2, <1>3 DEF SlotInv, ConfigInv, FtpsConfigKept
  <1>6. DialInv'  BY <1>2 DEF DialInv
  <1> QED BY <1>4, <1>5, <1>6 DEF SlotInv

\* connect_all, step by step.
LEMMA ConnectAllStep ==
  ASSUME SlotInv, ConnectAll
  PROVE  SlotInv'
  <1>1. /\ sop.at = "idle" /\ UNCHANGED <<slot, config, profile, supplied, torn>>
        /\ dial' = [c \in Channel |-> IF AllWants(c) THEN "wait" ELSE "no"]
        /\ sop' \in SlotOp /\ sop'.at = "all_join"
    BY SlotOps DEF ConnectAll, SlotSteps, Slots, Channel
  <1>2. SlotTypeOK'
    BY <1>1 DEF SlotInv, SlotTypeOK, SlotOp
  <1>3. ConfigInv'
    BY <1>1 DEF SlotInv, ConfigInv, FtpsConfigKept
  <1>4. DialInv'
    <2>1. config["mqtt"] # "none"  BY DEF SlotInv, ConfigInv
    <2>2. \A c \in Channel : ~AllWants(c) => NotDialled(c)
      BY <2>1 DEF AllWants, NotDialled, Applicable, Channel
    <2>3. \A c \in Channel : Awaited(c)'
      BY <1>1, <2>2 DEF Awaited, NotDialled, AllWants, Applicable
    <2> QED BY <1>1, <2>3 DEF DialInv
  <1> QED BY <1>2, <1>3, <1>4 DEF SlotInv

LEMMA DialEndsStep ==
  ASSUME SlotInv, NEW c \in Channel, AllDialEnds(c)
  PROVE  SlotInv'
  <1>1. PICK r \in {"ok", "err"} : dial' = [dial EXCEPT ![c] = r]
    BY DEF AllDialEnds
  <1>2. /\ sop.at = "all_join" /\ dial[c] = "wait"
        /\ UNCHANGED <<slot, config, profile, sop, supplied, torn>>
    BY DEF AllDialEnds
  <1>3. dial \in [Channel -> {"no", "wait", "ok", "err"}]  BY DEF SlotInv, SlotTypeOK
  <1>4. SlotTypeOK'
    BY <1>1, <1>2, <1>3 DEF SlotInv, SlotTypeOK
  <1>5. ConfigInv'
    BY <1>2 DEF SlotInv, ConfigInv, FtpsConfigKept
  <1>6. DialInv'
    <2>1. \A d \in Channel : Awaited(d)  BY <1>2 DEF SlotInv, DialInv
    <2>2. \A d \in Channel : (dial'[d] = "no") <=> (dial[d] = "no")
      BY <1>1, <1>2, <1>3
    <2>3. \A d \in Channel : Awaited(d)'
      BY <1>2, <2>1, <2>2 DEF Awaited, NotDialled, AllWants, Applicable
    <2> QED BY <1>2, <2>3 DEF DialInv
  <1> QED BY <1>4, <1>5, <1>6 DEF SlotInv

LEMMA JoinedStep ==
  ASSUME SlotInv, AllJoined
  PROVE  SlotInv'
  <1>1. /\ slot \in [Slots -> {"none", "live", "poisoned"}] /\ dial \in [Channel -> {"no", "wait", "ok", "err"}]
        /\ Channel = {"mqtt", "ftps", "camera"} /\ {"mqtt", "ftps", "camera"} \subseteq Slots
    BY DEF SlotInv, SlotTypeOK, Slots, Channel
  <1>2. /\ sop.at = "all_join" /\ (\A c \in Channel : dial[c] # "wait")
        /\ slot' = (IF dial["mqtt"] = "ok" THEN [slot EXCEPT !["mqtt"] = "live"] ELSE slot)
        /\ UNCHANGED <<config, profile, dial, supplied, torn>>
        /\ sop' \in SlotOp /\ sop'.at = "all_pushall"
    BY SlotOps DEF AllJoined, SlotSteps, Slots, Channel
  <1>3. /\ slot' \in [Slots -> {"none", "live", "poisoned"}]
        /\ \A c \in {"ftps", "camera"} : slot'[c] = slot[c]
        /\ slot'["mqtt"] = (IF dial["mqtt"] = "ok" THEN "live" ELSE slot["mqtt"])
    BY <1>1, <1>2
  <1>4. SlotTypeOK'
    BY <1>2, <1>3 DEF SlotInv, SlotTypeOK, SlotOp
  <1>5. ConfigInv'
    BY <1>2, <1>3 DEF SlotInv, ConfigInv, FtpsConfigKept
  <1>6. DialInv'
    <2>1. \A c \in Channel : Awaited(c)  BY <1>2 DEF SlotInv, DialInv
    <2>2. config["mqtt"] # "none"  BY DEF SlotInv, ConfigInv
    <2>3. \A c \in {"ftps", "camera"} : Awaited(c)' /\ dial'[c] # "wait"
      BY <1>1, <1>2, <1>3, <2>1 DEF Awaited, NotDialled, AllWants, Applicable
    <2>4. Told("mqtt")'
      <3>1. Awaited("mqtt") /\ dial["mqtt"] # "wait"  BY <1>1, <1>2, <2>1
      <3> QED BY <1>2, <1>3, <2>2, <3>1 DEF Told, Awaited, NotDialled, AllWants, Applicable
    <2> QED BY <1>2, <2>3, <2>4 DEF DialInv
  <1> QED BY <1>4, <1>5, <1>6 DEF SlotInv

LEMMA InstallStep ==
  ASSUME SlotInv, AllInstall
  PROVE  SlotInv'
  <1>1. /\ slot \in [Slots -> {"none", "live", "poisoned"}] /\ dial \in [Channel -> {"no", "wait", "ok", "err"}]
        /\ config \in [Channel -> {"none", "dial", "pre"}]
        /\ Channel = {"mqtt", "ftps", "camera"} /\ {"mqtt", "ftps", "camera"} \subseteq Slots
    BY DEF SlotInv, SlotTypeOK, Slots, Channel
  <1>2. /\ sop.at = "all_pushall"
        /\ slot' = [s \in Slots |-> IF s \in {"ftps", "camera"} /\ AllInstalls(s)
                                    THEN "live" ELSE slot[s]]
        /\ config' = (IF AllInstalls("ftps") THEN ConfigAfterInstall("ftps") ELSE config)
        /\ UNCHANGED <<profile, dial, supplied, torn>>
        /\ sop' \in SlotOp /\ sop'.at \in {"all_prime", "all_done"}
    BY SlotOps DEF AllInstall, SlotSteps, Slots, Channel
  <1>3. /\ slot' \in [Slots -> {"none", "live", "poisoned"}]
        /\ slot'["mqtt"] = slot["mqtt"]
        /\ \A c \in {"ftps", "camera"} : slot'[c] = (IF dial[c] = "ok" THEN "live" ELSE slot[c])
    BY <1>1, <1>2 DEF AllInstalls
  <1>4. /\ config' \in [Channel -> {"none", "dial", "pre"}]
        /\ \A c \in {"mqtt", "camera"} : config'[c] = config[c]
        /\ dial["ftps"] # "ok" => config'["ftps"] = config["ftps"]
    BY <1>1, <1>2 DEF AllInstalls, ConfigAfterInstall
  <1>5. SlotTypeOK'
    BY <1>2, <1>3, <1>4 DEF SlotInv, SlotTypeOK, SlotOp
  <1>6. ConfigInv'
    BY <1>2, <1>3, <1>4 DEF SlotInv, ConfigInv, FtpsConfigKept
  <1>7. DialInv'
    <2>1. Told("mqtt") /\ \A c \in {"ftps", "camera"} : Awaited(c) /\ dial[c] # "wait"
      BY <1>2 DEF SlotInv, DialInv
    <2>2. Told("mqtt")'
      BY <1>2, <1>3, <1>4, <2>1 DEF Told, NotDialled, Applicable
    <2>3. ASSUME NEW c \in {"ftps", "camera"} PROVE Told(c)'
      <3>1. Awaited(c) /\ dial[c] # "wait" /\ dial[c] \in {"no", "ok", "err"}  BY <1>1, <2>1
      <3>2. slot'[c] = (IF dial[c] = "ok" THEN "live" ELSE slot[c])  BY <1>3
      <3>3. dial[c] # "ok" => config'[c] = config[c]  BY <1>4
      <3> QED BY <1>2, <3>1, <3>2, <3>3 DEF Told, Awaited, NotDialled, AllWants, Applicable
    <2> QED BY <1>1, <1>2, <2>2, <2>3 DEF DialInv
  <1> QED BY <1>5, <1>6, <1>7 DEF SlotInv

LEMMA AllEndsStep ==
  ASSUME SlotInv, AllPrimed \/ AllReturns
  PROVE  SlotInv'
  <1>1. CASE AllReturns
    <2>1. NoDials \in [Channel -> {"no", "wait", "ok", "err"}]  BY DEF NoDials
    <2> QED BY <1>1, <2>1, SlotOps, SlotMoves DEF AllReturns
  <1>2. CASE AllPrimed
    <2>1. /\ sop.at = "all_prime" /\ sop' \in SlotOp /\ sop'.at = "all_done"
          /\ UNCHANGED <<slot, config, profile, dial, supplied, torn>>
      BY <1>2, SlotOps DEF AllPrimed, SlotSteps, Slots, Channel
    <2>2. SlotTypeOK'  BY <2>1 DEF SlotInv, SlotTypeOK, SlotOp
    <2>3. ConfigInv'  BY <2>1 DEF SlotInv, ConfigInv, FtpsConfigKept
    <2>4. \A c \in Channel : Told(c)'
      BY <2>1 DEF SlotInv, DialInv, Told, NotDialled, Applicable
    <2>5. DialInv'  BY <2>1, <2>4 DEF DialInv
    <2> QED BY <2>2, <2>3, <2>5 DEF SlotInv
  <1> QED BY <1>1, <1>2

LEMMA SlotStep == SlotInv /\ [SlotNext]_slotVars => SlotInv'
  <1> SUFFICES ASSUME SlotInv, [SlotNext]_slotVars PROVE SlotInv'  OBVIOUS
  <1>0. Channel \subseteq Slots /\ {"ftps", "tunnel"} \subseteq Slots  BY DEF Channel, Slots
  <1>1. CASE \E c \in {"ftps", "camera"} : WithConfig(c) \/ WithAttached(c)
    BY <1>1, BuilderStep
  <1>2. CASE \/ \E c \in Slots : EnsureDial(c)
             \/ ConnectMqttAgain \/ DialFails \/ FinishPushall \/ FinishPrime \/ SlotCancel
    BY <1>2, EnsureStep
  <1>3. CASE \/ \E c \in Slots : Disconnect(c)
             \/ \E c \in {"ftps", "tunnel"} : EnsureReplace(c)
             \/ \E c \in Channel : Attach(c)
    <2>1. PICK c \in Slots, then \in {"end", "dial", "attach"} : sop = SlotIdle /\ TakeAndClose(c, then)
      BY <1>0, <1>3 DEF Disconnect, EnsureReplace, Attach
    <2> QED BY <2>1, CloseStep
  <1>4. CASE \E c \in {"ftps", "tunnel"} : Poison(c)
    BY <1>4, PoisonStep
  <1>5. CASE \E c \in Channel : AllDialEnds(c)
    BY <1>5, DialEndsStep
  <1>6. CASE DialSucceeds \/ CloseEnds
    BY <1>6, DialSucceedsStep, CloseEndsStep
  <1>7. CASE ConnectAll \/ AllJoined \/ AllInstall \/ AllPrimed \/ AllReturns
    BY <1>7, ConnectAllStep, JoinedStep, InstallStep, AllEndsStep
  <1>8. CASE UNCHANGED slotVars
    BY <1>8 DEF slotVars, SlotInv, SlotTypeOK, ConfigInv, FtpsConfigKept, DialInv, Told, Awaited,
                NotDialled, AllWants, Applicable
  <1> QED BY <1>1, <1>2, <1>3, <1>4, <1>5, <1>6, <1>7, <1>8 DEF SlotNext

\* PrinterClient (connect.rs, mod.rs, storage.rs): an FTPS configuration the caller
\* supplied is never lost, through failed, dropped and replaced dials, connect_all,
\* attach and disconnect, but for a disconnect dropped at its await; and what connect_all
\* reports of each channel is true when it returns, in whatever order its dials ended.
THEOREM SlotsTheorem == SlotSpec => []SlotsHonest
  <1>1. SlotInit => SlotInv  BY SlotInitInv
  <1>2. SlotInv /\ [SlotNext]_slotVars => SlotInv'  BY SlotStep
  <1>3. SlotInv => SlotsHonest
    BY DEF SlotInv, ConfigInv, DialInv, Told, NotDialled, SlotsHonest, ConnectAllHonest
  <1> QED BY <1>1, <1>2, <1>3, PTL DEF SlotSpec

-----------------------------------------------------------------------------
(* The k-profile requests.  RequestNotWasted alone is not inductive: what    *)
(* carries it from the reading of the flag to the publish is that a trusted  *)
(* flag, and a request past its priming, mean a live connection that has     *)
(* heard a request.                                                          *)

Spent == kLive /\ heard # 0

PrimingInv ==
  /\ kLive \in BOOLEAN /\ primed \in BOOLEAN /\ ownRisk \in BOOLEAN /\ wasted \in BOOLEAN
  /\ kStep \in {"none", "prime", "ask", "wait"}
  /\ primed /\ ~ownRisk => Spent
  /\ kStep = "ask" /\ ~ownRisk => Spent
  /\ wasted => kStep = "wait" /\ ownRisk

LEMMA InitPriming == KInit => PrimingInv
BY DEF KInit, PrimingInv, Spent

\* Publishing leaves a live connection; what the printer has heard never goes
\* back to nothing on a connection that was live.
LEMMA PublishedSpends ==
  ASSUME NEW done \in BOOLEAN, Published(done)
  PROVE  /\ kLive' = TRUE
         /\ done => heard' # 0
         /\ Spent => heard' # 0
<1>1. kLive' = TRUE
  BY DEF Published
<1>2. CASE done
  <2>1. Heard(EnsureSession)
    BY <1>2 DEF Published
  <2>2. heard' # 0
    BY <2>1 DEF Heard
  <2>3. QED
    BY <1>1, <2>2
<1>3. CASE ~done
  <2>1. heard' = EnsureSession.heard
    BY <1>3 DEF Published
  <2>2. ASSUME Spent PROVE heard' # 0
    BY <2>1, <2>2 DEF Spent, EnsureSession
  <2>3. QED
    BY <1>1, <1>3, <2>2
<1>4. QED
  BY <1>2, <1>3

\* The flag after the publish is up only where it was up on a live connection.
LEMMA EnsuredFlag ==
  ASSUME PrimingInv
  PROVE  /\ EnsureSession.primed \in BOOLEAN
         /\ EnsureSession.primed => kLive /\ primed
         /\ EnsureSession.heard = 0 => ~Spent
<1>1. CASE kLive
  BY <1>1 DEF EnsureSession, PrimingInv, Spent
<1>2. CASE ~kLive
  BY <1>2 DEF EnsureSession, PrimedAtConnect, PrimingInv, Spent
<1>3. QED
  BY <1>1, <1>2

LEMMA StepPriming == PrimingInv /\ [KNext]_kVars => PrimingInv'
<1> SUFFICES ASSUME PrimingInv, [KNext]_kVars PROVE PrimingInv'
  OBVIOUS
<1>1. ASSUME NEW asked \in Opt(Diameters), GetKProfiles(asked) PROVE PrimingInv'
  BY <1>1 DEF GetKProfiles, PrimingInv, Spent
<1>2. CASE PrimePublished
  <2>1. kLive' = TRUE /\ heard' # 0
    BY <1>2, PublishedSpends DEF PrimePublished
  <2>2. QED
    BY <1>2, <2>1 DEF PrimePublished, PrimingInv, Spent
<1>3. CASE RequestPublished
  <2>1. kLive' = TRUE /\ heard' # 0
    BY <1>3, PublishedSpends DEF RequestPublished
  <2>2. wasted' => ownRisk
    BY <1>3, EnsuredFlag DEF RequestPublished, PrimingInv
  <2>3. primed' \in BOOLEAN /\ wasted' \in BOOLEAN
    BY <1>3, EnsuredFlag DEF RequestPublished
  <2>4. kStep' = "wait" /\ ownRisk' = ownRisk
    BY <1>3 DEF RequestPublished
  <2>5. QED
    BY <2>1, <2>2, <2>3, <2>4 DEF PrimingInv, Spent
<1>4. ASSUME NEW b \in BOOLEAN, PublishCut(b) PROVE PrimingInv'
  <2>1. kLive' = TRUE /\ (Spent => heard' # 0)
    BY <1>4, PublishedSpends DEF PublishCut
  <2>2. primed' \in BOOLEAN /\ (primed' => kLive /\ primed)
    BY <1>4, EnsuredFlag DEF PublishCut
  <2>3. kStep' = "none" /\ ownRisk' = ownRisk /\ wasted' = wasted /\ kStep # "wait"
    BY <1>4 DEF PublishCut
  <2>4. QED
    BY <2>1, <2>2, <2>3 DEF PrimingInv, Spent
<1>5. CASE DialCut
  BY <1>5 DEF DialCut, PrimingInv, Spent
<1>6. ASSUME NEW r \in replies, Answered(r) PROVE PrimingInv'
  BY <1>6 DEF Answered, PrimingInv, Spent
<1>7. CASE WaitEnds
  BY <1>7 DEF WaitEnds, PrimingInv, Spent
<1>8. ASSUME NEW b \in BOOLEAN, DisconnectSession(b) PROVE PrimingInv'
  BY <1>8 DEF DisconnectSession, PrimedAtConnect, PrimingInv, Spent
<1>9. CASE AttachSession
  BY <1>9 DEF AttachSession, PrimedAtConnect, PrimingInv, Spent
<1>10. ASSUME NEW b \in BOOLEAN, SetKProfilePrimed(b) PROVE PrimingInv'
  BY <1>10 DEF SetKProfilePrimed, PrimingInv, Spent
<1>11. CASE UNCHANGED kVars
  BY <1>11 DEF kVars, PrimingInv, Spent
<1>12. QED
  BY <1>1, <1>2, <1>3, <1>4, <1>5, <1>6, <1>7, <1>8, <1>9, <1>10, <1>11 DEF KNext

\* However many requests are made, fail or are dropped, and however often the
\* connection is replaced under them, the request that get_k_profiles awaits is
\* never the first of its connection, which the firmware ignores.
THEOREM RequestNotWastedTheorem == KSpec => []RequestNotWasted
<1>1. PrimingInv => RequestNotWasted
  BY DEF PrimingInv, RequestNotWasted
<1>2. QED
  BY <1>1, InitPriming, StepPriming, PTL DEF KSpec

----------------------------------------------------------------------------
(* The answers                                                               *)

Reply == [seq : Nat, of : Opt(Diameters), envelope : Opt(Diameters),
          entries : SUBSET [is : Diameters, named : Opt(Diameters)]]

\* An entry carries no diameter but its own, and so does the envelope, for those
\* that carry none.
Consistent(r) ==
  \A e \in r.entries : e.named \in {None, e.is} /\ (e.named = None => r.envelope \in {None, e.is})

\* A reply on the wire answers a request made by now, and what has the awaited
\* request's id is of the table asked for.
Known(r) ==
  /\ r \in Reply /\ Consistent(r)
  /\ r.seq <= kSeq
  /\ r.seq = kSeq => r.of = kAsked

AnswerInv ==
  /\ kSeq \in Nat /\ kAsked \in Opt(Diameters)
  /\ \A r \in replies : Known(r)
  /\ AnswerIsOwn

\* What the firmware answers is of the table asked for and names no wrong diameter.
LEMMA FirmwareReply ==
  ASSUME kSeq \in Nat, kAsked \in Opt(Diameters),
         NEW names \in SUBSET Table(kAsked), NEW envelope \in Opt(Table(kAsked)),
         \A d \in Table(kAsked) \ names : envelope \in {None, d}
  PROVE  Known(ReplyOf(kSeq, kAsked, envelope, Entries(kAsked, names)))
<1>1. Table(kAsked) \subseteq Diameters
  BY DEF Table, Opt
<1>2. \A e \in Entries(kAsked, names) :
        /\ e \in [is : Diameters, named : Opt(Diameters)]
        /\ e.named \in {None, e.is}
        /\ e.named = None => envelope \in {None, e.is}
  <2> SUFFICES ASSUME NEW d \in Table(kAsked),
                      NEW e, e = [is |-> d, named |-> IF d \in names THEN d ELSE None]
               PROVE  /\ e \in [is : Diameters, named : Opt(Diameters)]
                      /\ e.named \in {None, e.is}
                      /\ e.named = None => envelope \in {None, e.is}
    BY DEF Entries
  <2>1. d # None /\ d \in Diameters
    BY <1>1, DiametersAssumption
  <2>2. QED
    BY <2>1 DEF Opt
<1>3. DEFINE r == ReplyOf(kSeq, kAsked, envelope, Entries(kAsked, names))
<1>4. r.seq = kSeq /\ r.of = kAsked /\ r.envelope = envelope /\ r.entries = Entries(kAsked, names)
  BY DEF ReplyOf
<1>5. r \in Reply
  <2>1. envelope \in Opt(Diameters)
    BY <1>1 DEF Opt
  <2>2. Entries(kAsked, names) \in SUBSET [is : Diameters, named : Opt(Diameters)]
    BY <1>2
  <2>3. QED
    BY <2>1, <2>2 DEF ReplyOf, Reply
<1>6. Consistent(r)
  BY <1>2, <1>4 DEF Consistent
<1> HIDE DEF r
<1>7. QED
  BY <1>4, <1>5, <1>6 DEF Known, r

LEMMA PublishedReplies ==
  ASSUME AnswerInv, NEW done \in BOOLEAN, Published(done)
  PROVE  \A r \in replies' : Known(r)
<1>1. \A r \in EnsureSession.replies : Known(r)
  BY DEF EnsureSession, AnswerInv
<1>2. CASE ~done
  BY <1>1, <1>2 DEF Published
<1>3. CASE done
  <2>1. Heard(EnsureSession)
    BY <1>3 DEF Published
  <2>2. CASE replies' = EnsureSession.replies
    BY <1>1, <2>2
  <2>3. CASE replies' # EnsureSession.replies
    <3>1. PICK names \in SUBSET Table(kAsked), envelope \in Opt(Table(kAsked)) :
            /\ \A d \in Table(kAsked) \ names : envelope \in {None, d}
            /\ replies' = EnsureSession.replies
                            \cup {ReplyOf(kSeq, kAsked, envelope, Entries(kAsked, names))}
      BY <2>1, <2>3, Zenon DEF Heard
    <3>2. Known(ReplyOf(kSeq, kAsked, envelope, Entries(kAsked, names)))
      BY <3>1, FirmwareReply DEF AnswerInv
    <3>3. QED
      BY <1>1, <3>1, <3>2, Zenon
  <2>4. QED
    BY <2>2, <2>3
<1>4. QED
  BY <1>2, <1>3

\* A reply handed over is of the table it was, and no entry gets a wrong diameter.
LEMMA WithDiameterNames ==
  ASSUME NEW r \in Reply, Consistent(r)
  PROVE  /\ WithDiameter(r).of = r.of
         /\ \A e \in WithDiameter(r).entries :
              e.named = e.is \/ (e.named = None /\ WithDiameter(r).envelope = None)
<1>1. /\ WithDiameter(r).of = r.of /\ WithDiameter(r).envelope = r.envelope
      /\ WithDiameter(r).entries = {[is |-> e.is, named |-> Or(e.named, r.envelope)] : e \in r.entries}
  BY DEF WithDiameter, Reply
<1>2. ASSUME NEW e \in r.entries
      PROVE  Or(e.named, r.envelope) = e.is \/ (Or(e.named, r.envelope) = None /\ r.envelope = None)
  BY DEF Consistent, Or
<1>3. QED
  BY <1>1, <1>2

LEMMA InitAnswer == KInit => AnswerInv
BY DEF KInit, AnswerInv, AnswerIsOwn, Opt

\* Under the same awaited request, what is known of a reply stays known.
LEMMA KnownStays ==
  ASSUME kSeq' = kSeq, kAsked' = kAsked, NEW r, Known(r)
  PROVE  Known(r)'
BY DEF Known, Consistent, Reply

\* A new id is awaited by no reply yet.
LEMMA KnownOfEarlier ==
  ASSUME kSeq \in Nat, kSeq' = kSeq + 1, NEW r, Known(r)
  PROVE  Known(r)'
<1>1. r.seq \in Nat /\ r.seq <= kSeq
  BY DEF Known, Reply
<1>2. r.seq <= kSeq' /\ r.seq # kSeq'
  BY <1>1
<1>3. QED
  BY <1>2 DEF Known, Consistent, Reply

LEMMA StepAnswer == AnswerInv /\ [KNext]_kVars => AnswerInv'
<1> SUFFICES ASSUME AnswerInv, [KNext]_kVars PROVE AnswerInv'
  OBVIOUS
<1>0. kSeq \in Nat /\ kAsked \in Opt(Diameters) /\ AnswerIsOwn /\ \A r \in replies : Known(r)
  BY DEF AnswerInv
<1>1. CASE PrimePublished
  <2>1. \A r \in replies' : Known(r)
    BY <1>1, PublishedReplies DEF PrimePublished
  <2>2. kSeq' = kSeq + 1 /\ kAsked' = kAsked /\ answer' = answer
    BY <1>1 DEF PrimePublished
  <2>3. \A r \in replies' : Known(r)'
    BY <1>0, <2>1, <2>2, KnownOfEarlier
  <2>4. QED
    BY <1>0, <2>2, <2>3 DEF AnswerInv, AnswerIsOwn
<1>2. CASE RequestPublished \/ \E b \in BOOLEAN : PublishCut(b)
  <2>1. \A r \in replies' : Known(r)
    BY <1>2, PublishedReplies DEF RequestPublished, PublishCut
  <2>2. kSeq' = kSeq /\ kAsked' = kAsked /\ answer' = answer
    BY <1>2 DEF RequestPublished, PublishCut
  <2>3. \A r \in replies' : Known(r)'
    BY <2>1, <2>2, KnownStays
  <2>4. QED
    BY <1>0, <2>2, <2>3 DEF AnswerInv, AnswerIsOwn
<1>3. ASSUME NEW asked \in Opt(Diameters), GetKProfiles(asked) PROVE AnswerInv'
  <2>1. kSeq' = kSeq + 1 /\ kAsked' = asked /\ answer' = answer /\ replies' = replies
    BY <1>3 DEF GetKProfiles
  <2>2. \A r \in replies' : Known(r)'
    BY <1>0, <2>1, KnownOfEarlier
  <2>3. QED
    BY <1>0, <2>1, <2>2 DEF AnswerInv, AnswerIsOwn
<1>4. ASSUME NEW r \in replies, Answered(r) PROVE AnswerInv'
  <2>1. /\ answer' = [asked |-> kAsked, reply |-> WithDiameter(r)]
        /\ replies' \subseteq replies /\ kSeq' = kSeq /\ kAsked' = kAsked
        /\ r \in Reply /\ Consistent(r) /\ r.of = kAsked
    BY <1>0, <1>4 DEF Answered, OwnReply, Known
  <2>2. answer'.asked = kAsked /\ answer'.reply = WithDiameter(r)
    BY <2>1
  <2>3. AnswerIsOwn'
    BY <2>1, <2>2, WithDiameterNames DEF AnswerIsOwn
  <2>4. \A s \in replies' : Known(s)'
    BY <1>0, <2>1, KnownStays
  <2>5. QED
    BY <1>0, <2>1, <2>3, <2>4 DEF AnswerInv
<1>5. CASE \/ DialCut \/ WaitEnds \/ AttachSession \/ UNCHANGED kVars
           \/ \E b \in BOOLEAN : DisconnectSession(b) \/ SetKProfilePrimed(b)
  <2>1. kSeq' = kSeq /\ kAsked' = kAsked /\ answer' = answer /\ replies' \in {replies, {}}
    BY <1>5 DEF DialCut, WaitEnds, AttachSession, DisconnectSession, SetKProfilePrimed, kVars
  <2>2. \A r \in replies' : Known(r)'
    BY <1>0, <2>1, KnownStays
  <2>3. QED
    BY <1>0, <2>1, <2>2 DEF AnswerInv, AnswerIsOwn
<1>6. QED
  BY <1>1, <1>2, <1>3, <1>4, <1>5 DEF KNext

\* get_k_profiles returns the table it was asked for, never one that an earlier,
\* dropped call left behind, and hands over no entry under another's diameter, and
\* none without where the printer's entry or envelope has it: for any requests,
\* replies and connections.
THEOREM AnswerIsOwnTheorem == KSpec => []AnswerIsOwn
<1>1. AnswerInv => AnswerIsOwn
  BY DEF AnswerInv
<1>2. QED
  BY <1>1, InitAnswer, StepAnswer, PTL DEF KSpec
=============================================================================
