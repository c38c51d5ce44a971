------------------------- MODULE RequestGuardProofs -------------------------
(* The guard with its cache per request, for any number of fields, any roles, *)
(* any lifetimes with AccessTTL at most SevenDays, and any number of logouts  *)
(* and role changes.                                                          *)
EXTENDS RequestGuard, TLAPS

Inv == TypeOK /\ LostForGood /\ VerifiedSinceBegin /\ CacheSound

USE DEF Token

\* Components of the types that the steps below need.
LEMMA Typed ==
  ASSUME TypeOK
  PROVE  /\ op.begun \in Nat /\ op.needs \in [Field -> Needs] /\ op.serial \in BOOLEAN
         /\ row.version \in Nat /\ claims.version \in Nat
         /\ row.role \in Role /\ claims.role \in Role
         /\ now \in Nat /\ cacheTtl \in Nat
         /\ blacklistedTokens["token"] \in Nat
         /\ \A f \in Field : check[f].since \in Nat
         /\ Expiry \in Nat \ {0}
BY RequestGuardAssumption DEF TypeOK, Operation, Row, Blacklist!TypeOK, Expiry

\* Deciding one field ends, at most, other fields that were waiting or under way.
LEMMA DecideShape ==
  ASSUME TypeOK, NEW f \in Field, NEW v \in Status, Decide(f, v)
  PROVE  /\ status' \in [Field -> Status]
         /\ status'[f] = v
         /\ \A g \in Field \ {f} : status'[g] = status[g] \/ status'[g] = "failed"
BY DEF TypeOK, Decide, Status

\* The role check decides, one way or the other.
LEMMA RolesDecide ==
  ASSUME NEW f \in Field, CheckUserRoles(f)
  PROVE  \E v \in {"granted", "refused"} : v \in Status /\ Decide(f, v) /\ (v = "granted" <=> HasRole(f))
BY DEF CheckUserRoles, Status

---------------------------------------------------------------------------
\* At the start nothing is under way and the token is acceptable.
LEMMA InitInv == Init => Inv
<1> SUFFICES ASSUME Init PROVE Inv
  OBVIOUS
<1> USE RequestGuardAssumption
<1>1. TypeOK
  <2>1. op \in Operation
    <3>1. [f \in Field |-> Open] \in [Field -> Needs]
      BY DEF Needs
    <3>2. op = [serial |-> FALSE, presents |-> "other", needs |-> [f \in Field |-> Open],
                begun |-> 0]
      BY DEF Init
    <3> QED
      BY <3>1, <3>2 DEF Operation, Presented
  <2>2. row \in Row /\ claims \in Row
    BY DEF Init, Row
  <2>3. check \in [Field -> [since : Nat, seen : Row \cup {None}]]
    BY DEF Init, Unchecked
  <2> QED
    BY <2>1, <2>2, <2>3 DEF Init, TypeOK, Status, Blacklist!TypeOK, Blacklist!Missing
<1>2. Acceptable
  BY DEF Init, Acceptable, Valid, Expiry, Blacklist!IsListed, Blacklist!Missing
<1>3. LostForGood
  BY <1>2 DEF Init, LostForGood, Blacklist!IsListed, Blacklist!Missing
<1>4. VerifiedSinceBegin /\ CacheSound
  BY DEF Init, VerifiedSinceBegin, CacheSound
<1> QED
  BY <1>1, <1>3, <1>4 DEF Inv

---------------------------------------------------------------------------
\* Steps of the guard leave the token as acceptable as it was.
LEMMA GuardKeepsLoss ==
  ASSUME Inv, UNCHANGED <<user, blacklist, now, spoiled>>
  PROVE  LostForGood' /\ (Acceptable' <=> Acceptable)
BY DEF Inv, LostForGood, user, blacklist, Acceptable, Valid, Expiry,
       Blacklist!IsListed, Blacklist!Expired

\* A decision changes nothing that is under way elsewhere: what was verified stays so.
LEMMA DecisionKeepsVerified ==
  ASSUME Inv, NEW f \in Field,
         \A g \in Field \ {f} : status'[g] = status[g] \/ status'[g] = "failed",
         \A g \in Field \ {f} : check'[g] = check[g],
         status'[f] \notin {"asked", "answered"},
         UNCHANGED <<op, user, now, spoiled>>
  PROVE  VerifiedSinceBegin'
BY DEF Inv, VerifiedSinceBegin, WasAcceptable, user

\* Begin: nothing is under way, and the cache of the new request is empty.
LEMMA BeginInv ==
  ASSUME Inv, NEW serial \in BOOLEAN, NEW presents \in Presented, NEW needs \in [Field -> Needs],
         Begin(serial, presents, needs)
  PROVE  Inv'
<1> USE DEF Begin
<1>1. TypeOK'
  BY Typed DEF Inv, TypeOK, user, blacklist, Operation, Status, Blacklist!TypeOK
<1>2. LostForGood'
  BY GuardKeepsLoss
<1>3. VerifiedSinceBegin' /\ CacheSound'
  BY Typed DEF Inv, VerifiedSinceBegin, CacheSound
<1> QED
  BY <1>1, <1>2, <1>3 DEF Inv

\* The decisions that leave the cache alone or empty it: Public, Unverified,
\* CacheHit, Fail, Serve.
LEMMA DecisionInv ==
  ASSUME Inv, NEW f \in Field, NEW v \in Status \ {"asked", "answered"}, Decide(f, v),
         check' \in {check, [check EXCEPT ![f] = Unchecked]},
         verifiedAt' \in {verifiedAt, None},
         UNCHANGED <<op, user, blacklist, now, spoiled, slowest>>
  PROVE  Inv'
<1>1. /\ status' \in [Field -> Status] /\ status'[f] = v
      /\ \A g \in Field \ {f} : status'[g] = status[g] \/ status'[g] = "failed"
  BY DecideShape DEF Inv
<1>2. check' \in [Field -> [since : Nat, seen : Row \cup {None}]]
      /\ \A g \in Field \ {f} : check'[g] = check[g]
  BY DEF Inv, TypeOK, Unchecked
<1>3. TypeOK'
  BY <1>1, <1>2 DEF Inv, TypeOK, user, blacklist, Blacklist!TypeOK
<1>4. LostForGood'
  BY GuardKeepsLoss
<1>5. VerifiedSinceBegin'
  BY <1>1, <1>2, DecisionKeepsVerified
<1>6. CacheSound'
  BY DEF Inv, CacheSound
<1> QED
  BY <1>3, <1>4, <1>5, <1>6 DEF Inv

\* Verify: an expired entry that the lookup drops was not listed any more, and the
\* token is acceptable at this instant, if the row agrees with it.
LEMMA VerifyInv ==
  ASSUME Inv, NEW f \in Field, Verify(f)
  PROVE  Inv'
<1> USE DEF Verify
<1>1. blacklistedTokens' \in [{"token"} -> Nat]
      /\ (blacklistedTokens' = blacklistedTokens
          \/ (~Blacklist!IsListed("token") /\ ~Blacklist!IsListed("token")'))
  BY Typed DEF Inv, TypeOK, Blacklist!TypeOK, Blacklist!LookUp, Blacklist!Pruned,
               Blacklist!Expired, Blacklist!Missing, Blacklist!IsListed
<1>2. LostForGood'
  BY <1>1 DEF Inv, LostForGood, user, Acceptable, Valid, Expiry,
         Blacklist!IsListed, Blacklist!Expired
<1>3. CASE Blacklist!IsListed("token")
  <2>1. /\ status' \in [Field -> Status] /\ status'[f] = "refused"
        /\ \A g \in Field \ {f} : status'[g] = status[g] \/ status'[g] = "failed"
    BY <1>3, DecideShape DEF Inv, Status
  <2>2. TypeOK'
    BY <1>1, <1>3, <2>1 DEF Inv, TypeOK, user, Blacklist!TypeOK
  <2>3. VerifiedSinceBegin'
    BY <1>3, <2>1, DecisionKeepsVerified
  <2> QED
    BY <1>2, <2>2, <2>3 DEF Inv, CacheSound
<1>4. CASE ~Blacklist!IsListed("token")
  <2>1. /\ status' = [status EXCEPT ![f] = "asked"]
        /\ check' = [check EXCEPT ![f].since = now]
    BY <1>4
  <2>2. /\ check' \in [Field -> [since : Nat, seen : Row \cup {None}]]
        /\ check'[f].since = now
        /\ \A g \in Field \ {f} : check'[g] = check[g]
    BY <2>1, Typed DEF Inv, TypeOK
  <2>3. status' \in [Field -> Status] /\ status'[f] = "asked"
        /\ \A g \in Field \ {f} : status'[g] = status[g]
    BY <2>1 DEF Inv, TypeOK, Status
  <2>4. TypeOK'
    BY <1>1, <2>2, <2>3 DEF Inv, TypeOK, user, Blacklist!TypeOK
  <2>5. row = claims => spoiled = None
    BY <1>4 DEF Inv, LostForGood, Acceptable
  <2>6. VerifiedSinceBegin'
    BY <2>2, <2>3, <2>5, Typed DEF Inv, VerifiedSinceBegin, WasAcceptable, user
  <2> QED
    BY <1>2, <2>4, <2>6 DEF Inv, CacheSound
<1> QED
  BY <1>3, <1>4

\* ReadRow: a row that agrees with the claims now has agreed with them all along.
LEMMA ReadRowInv ==
  ASSUME Inv, NEW f \in Field, ReadRow(f)
  PROVE  Inv'
<1> USE DEF ReadRow
<1>1. /\ status' \in [Field -> Status] /\ status'[f] = "answered"
      /\ \A g \in Field \ {f} : status'[g] = status[g]
  BY DEF Inv, TypeOK, Status
<1>2. /\ check' \in [Field -> [since : Nat, seen : Row \cup {None}]]
      /\ check'[f].since = check[f].since /\ check'[f].seen = row
      /\ \A g \in Field \ {f} : check'[g] = check[g]
  BY DEF Inv, TypeOK
<1>3. TypeOK'
  BY <1>1, <1>2 DEF Inv, TypeOK, user, blacklist, Blacklist!TypeOK
<1>4. LostForGood'
  BY GuardKeepsLoss
<1>5. VerifiedSinceBegin'
  BY <1>1, <1>2 DEF Inv, VerifiedSinceBegin, WasAcceptable, user
<1>6. CacheSound'
  BY DEF Inv, CacheSound
<1> QED
  BY <1>3, <1>4, <1>5, <1>6 DEF Inv

\* Answer: what is cached now was acceptable when its verification began, which is
\* not longer ago than the slowest verification takes.
LEMMA AnswerInv ==
  ASSUME Inv, NEW f \in Field, Answer(f)
  PROVE  /\ Inv'
         /\ status'[f] = "granted" =>
               /\ HasRole(f) /\ op.presents = "token"
               /\ spoiled = None \/ (spoiled >= op.begun /\ now <= spoiled + slowest')
<1> USE DEF Answer, Measure
<1>1. PICK v \in Status \ {"asked", "answered"} :
        Decide(f, v) /\ (v = "granted" => HasRole(f) /\ check[f].seen = claims)
  <2>1. CASE check[f].seen = claims
    BY <2>1, RolesDecide
  <2>2. CASE check[f].seen # claims
    BY <2>2 DEF Status
  <2> QED
    BY <2>1, <2>2
<1>2. /\ status' \in [Field -> Status] /\ status'[f] = v
      /\ \A g \in Field \ {f} : status'[g] = status[g] \/ status'[g] = "failed"
  BY <1>1, DecideShape DEF Inv
<1>3. check' \in [Field -> [since : Nat, seen : Row \cup {None}]]
      /\ \A g \in Field \ {f} : check'[g] = check[g]
  BY DEF Inv, TypeOK, Unchecked
<1>4. /\ slowest' \in Nat /\ slowest' >= slowest /\ now <= check[f].since + slowest'
      /\ check[f].since <= now
  BY Typed DEF Inv, TypeOK, VerifiedSinceBegin
<1>5. TypeOK'
  BY <1>2, <1>3, <1>4, Typed DEF Inv, TypeOK, user, blacklist, Blacklist!TypeOK
<1>6. LostForGood'
  BY GuardKeepsLoss
<1>7. VerifiedSinceBegin'
  BY <1>2, <1>3, DecisionKeepsVerified
<1>8. op.presents = "token" /\ op.begun <= check[f].since
  BY DEF Inv, VerifiedSinceBegin
<1>9. check[f].seen = claims =>
        spoiled = None \/ (spoiled >= op.begun /\ now <= spoiled + slowest')
  BY <1>4, <1>8, Typed DEF Inv, TypeOK, VerifiedSinceBegin, WasAcceptable
<1>10. CacheSound'
  <2>1. CASE check[f].seen = claims
    BY <2>1, <1>8, <1>9, Typed DEF Inv, CacheSound
  <2>2. CASE check[f].seen # claims
    BY <2>2, <1>4, Typed DEF Inv, TypeOK, CacheSound
  <2> QED
    BY <2>1, <2>2
<1> QED
  BY <1>1, <1>2, <1>5, <1>6, <1>7, <1>8, <1>9, <1>10 DEF Inv

---------------------------------------------------------------------------
\* A step outside of the guard that keeps lost what is lost keeps all the rest, too.
LEMMA OutsideInv ==
  ASSUME Inv, TypeOK', LostForGood', now <= now',
         row' = claims => row = claims, claims' = claims,
         spoiled' = spoiled \/ (spoiled = None /\ spoiled' = now'),
         UNCHANGED <<op, check, verifiedAt, slowest>>,
         \A g \in Field : status'[g] \in {"asked", "answered"} => status'[g] = status[g]
  PROVE  Inv'
<1>1. now' \in Nat /\ now \in Nat /\ op.begun \in Nat /\ op.begun <= now
      /\ spoiled \in Nat \cup {None} /\ verifiedAt \in Nat \cup {None} /\ slowest \in Nat
      /\ None \notin Nat
  BY Typed, RequestGuardAssumption DEF Inv, TypeOK, VerifiedSinceBegin, Blacklist!TypeOK
<1>2. \A f \in Field : check[f].since \in Nat
  BY Typed DEF Inv
<1>3. ASSUME NEW f \in Field, status'[f] \in {"asked", "answered"}
      PROVE  /\ status[f] = status'[f]
             /\ op.presents = "token" /\ op.needs[f] # Open
             /\ op.begun <= check[f].since /\ check[f].since <= now /\ check[f].since <= now'
             /\ WasAcceptable(f) => WasAcceptable(f)'
  <2>1. /\ status[f] = status'[f]
        /\ op.presents = "token" /\ op.needs[f] # Open
        /\ op.begun <= check[f].since /\ check[f].since <= now
    BY <1>3 DEF Inv, VerifiedSinceBegin
  <2>2. check[f].since <= now'
    BY <2>1, <1>1, <1>2
  <2> QED
    BY <2>1, <2>2, <1>1, <1>2 DEF WasAcceptable
<1>4. (op.begun <= now)'
  BY <1>1
<1>5. VerifiedSinceBegin'
  BY <1>3, <1>4 DEF Inv, VerifiedSinceBegin
<1>6. CacheSound'
  BY <1>1 DEF Inv, CacheSound
<1> QED
  BY <1>5, <1>6 DEF Inv

\* A deadline that is not before the token's expiry makes the token unacceptable.
LEMMA NoteLoss ==
  ASSUME Inv, Note, now' \in Nat, now <= now', UNCHANGED <<claims>>, row' \in Row,
         row' = row \/ row'.version > 0,
         blacklistedTokens'["token"] \in Nat,
         Blacklist!IsListed("token")' => blacklistedTokens'["token"] >= Expiry,
         ~Acceptable => ~Acceptable'
  PROVE  /\ LostForGood'
         /\ spoiled' \in Nat \cup {None}
         /\ spoiled' = spoiled \/ (spoiled = None /\ spoiled' = now')
         /\ row' = claims => row = claims
<1>1. spoiled' = IF spoiled = None /\ ~Acceptable' THEN now' ELSE spoiled
  BY DEF Note
<1>2. row' = claims => row = claims
  BY DEF Inv, LostForGood
<1>3. (row'.version = 0 => row' = claims) /\ claims'.version = 0
  BY DEF Inv, LostForGood
<1>4. None \notin Nat
  BY RequestGuardAssumption
<1>5. spoiled' = None <=> Acceptable'
  BY <1>1, <1>4 DEF Inv, LostForGood
<1>6. spoiled' # None => spoiled' <= now'
  BY <1>1, Typed DEF Inv, TypeOK, LostForGood
<1>7. (Blacklist!IsListed(Token) => blacklistedTokens[Token] >= Expiry)'
  BY DEF Expiry
<1> QED
  BY <1>1, <1>2, <1>3, <1>5, <1>6, <1>7 DEF LostForGood, Inv, TypeOK

\* What RevokeToken lists stays listed until the token expires.
LEMMA RevokeTokenLoss ==
  ASSUME Inv, RevokeToken
  PROVE  /\ LostForGood' /\ Blacklist!TypeOK'
         /\ spoiled' \in Nat \cup {None}
         /\ spoiled' = spoiled \/ (spoiled = None /\ spoiled' = now')
<1> USE DEF RevokeToken, user
<1> USE RequestGuardAssumption
<1>1. /\ blacklistedTokens' \in [{"token"} -> Nat]
      /\ blacklistedTokens'["token"] >= Expiry
      /\ blacklistedTokens'["token"] > 0
      /\ now <= blacklistedTokens'["token"]
  BY Typed DEF Inv, TypeOK, Blacklist!TypeOK, Blacklist!BlacklistToken, Blacklist!ExpiresAt, Expiry
<1>2. Blacklist!IsListed("token")'
  BY <1>1, Typed DEF Inv, Blacklist!IsListed, Blacklist!Expired, Blacklist!Missing
<1>3. ~Acceptable'
  BY <1>2 DEF Acceptable
<1>4. Blacklist!TypeOK'
  BY <1>1 DEF Inv, TypeOK, Blacklist!TypeOK
<1> QED
  BY <1>1, <1>3, <1>4, Typed, NoteLoss DEF Inv, TypeOK

\* Logout, as a field of the operation or elsewhere.
LEMMA LogoutInv ==
  ASSUME Inv, \/ LogoutElsewhere
              \/ \E f \in Field : Logout(f)
  PROVE  Inv'
<1>1. /\ RevokeToken /\ UNCHANGED <<op, check, verifiedAt>>
      /\ status' \in [Field -> Status]
      /\ \A g \in Field : status'[g] \in {"asked", "answered"} => status'[g] = status[g]
  <2>1. CASE LogoutElsewhere
    BY <2>1 DEF LogoutElsewhere, guard, Inv, TypeOK
  <2>2. ASSUME NEW f \in Field, Logout(f) PROVE <1>1!1 /\ <1>1!2 /\ <1>1!3
    BY <2>2, DecideShape DEF Logout, Inv, Status
  <2> QED
    BY <2>1, <2>2
<1>2. UNCHANGED <<user, now, slowest>>
  BY <1>1 DEF RevokeToken
<1>3. TypeOK'
  BY <1>1, <1>2, RevokeTokenLoss DEF Inv, TypeOK, user
<1> QED
  BY <1>1, <1>2, <1>3, RevokeTokenLoss, OutsideInv, Typed DEF user, Inv

\* ChangeRole: the version moves on, and the claims are left behind.
LEMMA ChangeRoleInv ==
  ASSUME Inv, NEW role \in Role, ChangeRole(role)
  PROVE  Inv'
<1> USE DEF ChangeRole, guard, blacklist
<1>1. row' \in Row /\ row'.version > 0
  BY Typed DEF Row, Inv
<1>2. row' # claims
  BY <1>1 DEF Inv, LostForGood
<1>3. ~Acceptable'
  BY <1>2 DEF Acceptable
<1>4. Blacklist!IsListed("token")' => blacklistedTokens'["token"] >= Expiry
  BY DEF Inv, LostForGood, Blacklist!IsListed, Blacklist!Expired
<1>5. /\ LostForGood' /\ spoiled' \in Nat \cup {None} /\ (row' = claims => row = claims)
      /\ spoiled' = spoiled \/ (spoiled = None /\ spoiled' = now')
  BY <1>1, <1>3, <1>4, Typed, NoteLoss DEF Inv
<1>6. TypeOK'
  BY <1>1, <1>5 DEF Inv, TypeOK, Blacklist!TypeOK
<1> QED
  BY <1>5, <1>6, OutsideInv, Typed DEF Inv

\* RevokeUserTokens: the default life of an entry is not shorter than the token's.
LEMMA RevokeUserTokensInv ==
  ASSUME Inv, RevokeUserTokens
  PROVE  Inv'
<1> USE DEF RevokeUserTokens, guard, user
<1> USE RequestGuardAssumption
<1>1. /\ blacklistedTokens' \in [{"token"} -> Nat]
      /\ userTokens' \in [{"user"} -> SUBSET {"token"}]
      /\ blacklistedTokens' = blacklistedTokens \/ blacklistedTokens'["token"] >= Expiry
  BY Typed DEF Inv, TypeOK, Blacklist!TypeOK, Blacklist!BlacklistUserTokens, Expiry
<1>2. Blacklist!IsListed("token")' => blacklistedTokens'["token"] >= Expiry
  BY <1>1 DEF Inv, LostForGood, Blacklist!IsListed, Blacklist!Expired
<1>3. ~Acceptable'
  BY DEF Acceptable
<1>4. /\ LostForGood' /\ spoiled' \in Nat \cup {None}
      /\ spoiled' = spoiled \/ (spoiled = None /\ spoiled' = now')
  BY <1>1, <1>2, <1>3, Typed, NoteLoss DEF Inv, TypeOK
<1>5. TypeOK'
  BY <1>1, <1>4 DEF Inv, TypeOK, Blacklist!TypeOK
<1> QED
  BY <1>4, <1>5, OutsideInv, Typed DEF Inv

\* Tick: an entry does not lapse before the token has expired.
LEMMA TickInv ==
  ASSUME Inv, Tick
  PROVE  Inv'
<1> USE DEF Tick, guard, user, blacklist
<1>1. now' \in Nat /\ now < now'
  BY Typed DEF Inv
<1>2. Blacklist!IsListed("token")' => blacklistedTokens'["token"] >= Expiry
  BY <1>1, Typed DEF Inv, LostForGood, Blacklist!IsListed, Blacklist!Expired
<1>3. ~Acceptable => ~Acceptable'
  <2>1. CASE ~Valid
    BY <2>1, <1>1, Typed DEF Inv, Acceptable, Valid, Expiry
  <2>2. CASE row # claims
    BY <2>2 DEF Acceptable
  <2>3. CASE Blacklist!IsListed("token")
    <3>1. blacklistedTokens["token"] >= Expiry /\ blacklistedTokens["token"] # 0
      BY <2>3 DEF Inv, LostForGood, Blacklist!IsListed, Blacklist!Missing
    <3>2. CASE now' > blacklistedTokens["token"]
      BY <3>1, <3>2, <1>1, Typed DEF Inv, Acceptable, Valid, Expiry
    <3>3. CASE ~(now' > blacklistedTokens["token"])
      BY <3>1, <3>3 DEF Acceptable, Blacklist!IsListed, Blacklist!Expired, Blacklist!Missing
    <3> QED
      BY <3>2, <3>3
  <2> QED
    BY <2>1, <2>2, <2>3 DEF Acceptable
<1>4. /\ LostForGood' /\ spoiled' \in Nat \cup {None}
      /\ spoiled' = spoiled \/ (spoiled = None /\ spoiled' = now')
  BY <1>1, <1>2, <1>3, Typed, NoteLoss DEF Inv, TypeOK
<1>5. TypeOK'
  BY <1>1, <1>4 DEF Inv, TypeOK, Blacklist!TypeOK
<1> QED
  BY <1>1, <1>4, <1>5, OutsideInv, Typed DEF Inv

---------------------------------------------------------------------------
\* CacheHit: what the cache vouches for, at the time it does.
LEMMA HitSound ==
  ASSUME Inv, NEW f \in Field, CacheHit(f)
  PROVE  /\ Inv'
         /\ spoiled = None \/ spoiled >= op.begun
         /\ cacheTtl > 0 => spoiled = None \/ now <= spoiled + slowest + cacheTtl
         /\ status'[f] = "granted" => HasRole(f)
<1> USE DEF CacheHit
<1>1. PICK v \in {"granted", "refused"} :
        v \in Status /\ Decide(f, v) /\ (v = "granted" <=> HasRole(f))
  BY RolesDecide
<1>2. Inv'
  BY <1>1, DecisionInv
<1>3. status'[f] = v
  BY <1>1, DecideShape DEF Inv
<1>4. spoiled = None \/ (spoiled >= op.begun /\ verifiedAt <= spoiled + slowest)
  BY DEF Fresh, Inv, CacheSound
<1>5. cacheTtl > 0 => now <= verifiedAt + cacheTtl
  BY Typed DEF Fresh, Inv, TypeOK
<1> QED
  BY <1>1, <1>2, <1>3, <1>4, <1>5, Typed DEF Fresh, Inv, TypeOK

\* Every step keeps the invariant.
LEMMA NextInv == Inv /\ [Next]_vars => Inv'
<1> SUFFICES ASSUME Inv, [Next]_vars PROVE Inv'
  OBVIOUS
<1>1. ASSUME NEW serial \in BOOLEAN, NEW presents \in Presented, NEW needs \in [Field -> Needs],
             Begin(serial, presents, needs)
      PROVE  Inv'
  BY <1>1, BeginInv
<1>2. ASSUME NEW f \in Field, Handle(f) PROVE Inv'
  <2>1. CASE Public(f)
    BY <2>1, DecisionInv DEF Public, Status
  <2>2. CASE Unverified(f)
    BY <2>2, DecisionInv DEF Unverified, Status
  <2>3. CASE CacheHit(f)
    BY <2>3, HitSound
  <2>4. CASE Fail(f)
    BY <2>4, DecisionInv DEF Fail, Status
  <2>5. CASE Serve(f)
    BY <2>5, DecisionInv DEF Serve, Status
  <2> QED
    BY <1>2, <2>1, <2>2, <2>3, <2>4, <2>5, VerifyInv, ReadRowInv, AnswerInv, LogoutInv DEF Handle
<1>3. CASE LogoutElsewhere
  BY <1>3, LogoutInv
<1>4. ASSUME NEW role \in Role, ChangeRole(role) PROVE Inv'
  BY <1>4, ChangeRoleInv
<1>5. CASE UNCHANGED vars
  <2> USE <1>5 DEF vars, guard, user, blacklist
  <2>1. TypeOK' /\ LostForGood'
    BY GuardKeepsLoss DEF Inv, TypeOK, Blacklist!TypeOK
  <2> QED
    BY <2>1, OutsideInv, Typed DEF Inv
<1> QED
  BY <1>1, <1>2, <1>3, <1>4, <1>5, RevokeUserTokensInv, TickInv DEF Next

\* The state is well typed in every behaviour, whatever the bounds.
THEOREM TypeCorrect == Spec => []TypeOK
<1>1. Inv => TypeOK
  BY DEF Inv
<1> QED
  BY InitInv, NextInv, <1>1, PTL DEF Spec

\* A guarded field is granted by a cache hit or by an answer; nothing else does.
LEMMA GrantedBy ==
  ASSUME Inv, [Next]_vars, NEW f \in Field, Grants(f), op.needs[f] # Open
  PROVE  CacheHit(f) \/ Answer(f)
<1> USE DEF Grants
<1>1. ASSUME NEW serial \in BOOLEAN, NEW presents \in Presented, NEW needs \in [Field -> Needs],
             Begin(serial, presents, needs)
      PROVE  FALSE
  BY <1>1 DEF Begin
<1>2. ASSUME NEW g \in Field, Handle(g) PROVE CacheHit(f) \/ Answer(f)
  <2>1. CASE Public(g)
    <3>1. status'[f] # "granted" \/ f = g
      BY <2>1, DecideShape DEF Public, Inv, Status
    <3> QED
      BY <2>1, <3>1 DEF Public
  <2>2. CASE CacheHit(g) \/ Answer(g)
    <3>1. \E v \in Status : Decide(g, v)
      BY <2>2, RolesDecide DEF CacheHit, Answer, Status
    <3>2. status'[f] # "granted" \/ f = g
      BY <3>1, DecideShape DEF Inv
    <3> QED
      BY <2>2, <3>2
  <2>3. CASE Unverified(g) \/ Fail(g) \/ Serve(g) \/ Logout(g)
    <3>1. \E v \in Status \ {"granted"} : Decide(g, v)
      BY <2>3 DEF Unverified, Fail, Serve, Logout, Status
    <3> QED
      BY <3>1, DecideShape DEF Inv
  <2>4. CASE Verify(g)
    <3>1. CASE Blacklist!IsListed("token")
      BY <2>4, <3>1, DecideShape DEF Verify, Inv, Status
    <3>2. CASE ~Blacklist!IsListed("token")
      BY <2>4, <3>2 DEF Verify, Inv, TypeOK
    <3> QED
      BY <3>1, <3>2
  <2>5. CASE ReadRow(g)
    BY <2>5 DEF ReadRow, Inv, TypeOK
  <2> QED
    BY <1>2, <2>1, <2>2, <2>3, <2>4, <2>5 DEF Handle
<1>3. CASE \/ LogoutElsewhere \/ RevokeUserTokens \/ Tick \/ UNCHANGED vars
           \/ \E role \in Role : ChangeRole(role)
  BY <1>3 DEF LogoutElsewhere, RevokeUserTokens, Tick, ChangeRole, vars, guard
<1> QED
  BY <1>1, <1>2, <1>3 DEF Next

\* What a granting step may rely on, by whichever way the field is granted.
LEMMA GrantSound ==
  ASSUME Inv, [Next]_vars, NEW f \in Field, Grants(f), op.needs[f] # Open
  PROVE  /\ op.presents = "token"
         /\ spoiled = None \/ spoiled >= op.begun
         /\ claims.role \in op.needs[f]
         /\ cacheTtl > 0 => spoiled = None \/ now <= spoiled + slowest' + cacheTtl
<1>1. status'[f] = "granted"
  BY DEF Grants
<1>2. CASE CacheHit(f)
  BY <1>1, <1>2, HitSound DEF CacheHit, HasRole
<1>3. CASE Answer(f)
  <2>1. /\ HasRole(f) /\ op.presents = "token" /\ TypeOK'
        /\ spoiled = None \/ (spoiled >= op.begun /\ now <= spoiled + slowest')
    BY <1>1, <1>3, AnswerInv DEF Inv
  <2> QED
    BY <2>1, Typed DEF HasRole, Inv, TypeOK
<1> QED
  BY <1>2, <1>3, GrantedBy

\* A cached verification never outlives its operation: a field is granted only if
\* the token was acceptable at some instant since the operation began.
THEOREM GrantsScoped == Spec => GrantedWhileAcceptable
<1>1. Inv /\ [Next]_vars =>
        [\A f \in Field : Grants(f) /\ op.needs[f] # Open =>
           /\ op.presents = "token"
           /\ spoiled = None \/ spoiled >= op.begun
           /\ claims.role \in op.needs[f]]_vars
  BY GrantSound
<1> QED
  BY InitInv, NextInv, <1>1, PTL DEF Spec, GrantedWhileAcceptable

\* The window in which a lost token still works is the time to live and the
\* slowest verification, for every number of fields and every interleaving.
THEOREM StalenessSound == Spec => StalenessBounded
<1>1. Inv /\ [Next]_vars =>
        [\A f \in Field : Grants(f) /\ op.needs[f] # Open /\ cacheTtl > 0 =>
           spoiled = None \/ now <= spoiled + slowest' + cacheTtl]_vars
  BY GrantSound
<1> QED
  BY InitInv, NextInv, <1>1, PTL DEF Spec, StalenessBounded

\* A field is refused by a step of its own guard: no token, the cache, the blacklist
\* or the row.
LEMMA RefusedBy ==
  ASSUME Inv, [Next]_vars, NEW f \in Field, Refuses(f)
  PROVE  Unverified(f) \/ CacheHit(f) \/ Verify(f) \/ Answer(f)
<1> USE DEF Refuses
<1>1. ASSUME NEW g \in Field, Handle(g)
      PROVE  Unverified(f) \/ CacheHit(f) \/ Verify(f) \/ Answer(f)
  <2>1. CASE Unverified(g) \/ CacheHit(g) \/ Answer(g)
    <3>1. \E v \in Status : Decide(g, v)
      BY <2>1, RolesDecide DEF Unverified, CacheHit, Answer, Status
    <3>2. f = g
      BY <3>1, DecideShape DEF Inv
    <3> QED
      BY <2>1, <3>2
  <2>2. CASE Public(g) \/ Fail(g) \/ Serve(g) \/ Logout(g)
    <3>1. \E v \in Status \ {"refused"} : Decide(g, v)
      BY <2>2 DEF Public, Fail, Serve, Logout, Status
    <3> QED
      BY <3>1, DecideShape DEF Inv
  <2>3. CASE Verify(g)
    <3>1. CASE Blacklist!IsListed("token")
      <4>1. f = g
        BY <2>3, <3>1, DecideShape DEF Verify, Inv, Status
      <4> QED
        BY <2>3, <4>1
    <3>2. CASE ~Blacklist!IsListed("token")
      BY <2>3, <3>2 DEF Verify, Inv, TypeOK
    <3> QED
      BY <3>1, <3>2
  <2>4. CASE ReadRow(g)
    BY <2>4 DEF ReadRow, Inv, TypeOK
  <2> QED
    BY <1>1, <2>1, <2>2, <2>3, <2>4 DEF Handle
<1>2. CASE \/ LogoutElsewhere \/ RevokeUserTokens \/ Tick \/ UNCHANGED vars
           \/ \E role \in Role : ChangeRole(role)
           \/ \E serial \in BOOLEAN, presents \in Presented, needs \in [Field -> Needs] :
                 Begin(serial, presents, needs)
  BY <1>2 DEF LogoutElsewhere, RevokeUserTokens, Tick, ChangeRole, Begin, vars, guard
<1> QED
  BY <1>1, <1>2 DEF Next

\* Refusing a token that is acceptable takes a role that is not asked for: a row that
\* does not agree has been left behind, and what is listed is not acceptable.
LEMMA RefusalSound ==
  ASSUME Inv, [Next]_vars, NEW f \in Field, Refuses(f)
  PROVE  op.presents # "token" \/ spoiled # None \/ claims.role \notin op.needs[f]
<1>1. SUFFICES ASSUME op.presents = "token", spoiled = None
               PROVE  claims.role \notin op.needs[f]
  OBVIOUS
<1>2. Acceptable
  BY <1>1 DEF Inv, LostForGood
<1>3. status'[f] = "refused"
  BY DEF Refuses
<1>4. CASE CacheHit(f)
  BY <1>3, <1>4, HitSound, RolesDecide, DecideShape DEF CacheHit, HasRole, Inv
<1>5. CASE Answer(f)
  <2>1. check[f].seen = claims
    BY <1>1, <1>2, <1>5, <1>3 DEF Answer, Acceptable, Inv, VerifiedSinceBegin
  <2> QED
    BY <2>1, <1>3, <1>5, RolesDecide, DecideShape DEF Answer, HasRole, Inv
<1>6. ~Unverified(f) /\ ~(Verify(f) /\ Blacklist!IsListed("token"))
  BY <1>1, <1>2 DEF Unverified, Acceptable
<1>7. ~Verify(f)
  BY <1>3, <1>6 DEF Verify, Inv, TypeOK
<1> QED
  BY <1>4, <1>5, <1>6, <1>7, RefusedBy

\* No guard refuses without a reason, however many fields share a verification.
THEOREM RefusalsSound == Spec => RefusalEarned
<1>1. Inv /\ [Next]_vars =>
        [\A f \in Field : Refuses(f) =>
           op.presents # "token" \/ spoiled # None \/ claims.role \notin op.needs[f]]_vars
  BY RefusalSound
<1> QED
  BY InitInv, NextInv, <1>1, PTL DEF Spec, RefusalEarned
=============================================================================
