---------------------------- MODULE AuthProofs ----------------------------
(***************************************************************************)
(* Theorems about Auth, for any number of conversations, commands,         *)
(* registrations and grants. The steps fall into a few kinds, with one     *)
(* lemma for each kind and one proof per part of the invariant below it.   *)
(***************************************************************************)
EXTENDS Auth, TLAPS

\* What is the same for an actor that neither enters nor leaves a section of the
\* provider's lock or a login: its new record is r, and the file of credentials,
\* the endpoint and the lock stay as they are.
Walks(a, r) ==
    /\ act' = [act EXCEPT ![a] = r]
    /\ r \in Acts /\ Issued(r.cred) /\ Issued(r.prev)
    /\ act[a].pc \notin Section \cup {"login"} /\ r.pc \notin Section \cup {"login"}
    /\ a \in Callers => r.pc \in {"idle", "want"}
    /\ r.pc \in {"discover", "publish"} => r.cred.type = "oauth"
    /\ r.pc = "publish" => r.prev.type = "oauth" /\ SameRegistration(r.prev, r.cred)
    /\ r.cred \in {act[a].cred, stored, NoCredential}
    /\ r.host \in {0, hostFile}
    /\ r.pc \in {"unlock", "client", "browser", "exchange"} => r.host # 0
    /\ r.pc = "write" => hostFile = 0
    /\ r.pc \in Under => hostLock' /\ (act[a].pc \in Under \/ ~hostLock)
    /\ r.pc \notin Under => hostLock' = hostLock \/ act[a].pc \in Under
    /\ a \in Commands => r.models.label = r.models.of
    /\ catalog' \in Catalogs /\ catalog'.label = catalog'.of
    /\ hostLock' \in BOOLEAN /\ started' \in Nat /\ overlap' \in BOOLEAN
    /\ overlap => overlap'
    /\ UNCHANGED <<stored, server, lock, hostFile, reused, lost, crashes, made>>

\* An actor that is done, at any place: nothing of it stays but what it saved
\* before, and a rotation it had not saved is lost.
Leaves(a) ==
    /\ Ends(a)
    /\ act[a].pc = "answered" /\ Rotated(a) => lost'
    /\ reused' => reused \/ overlap \/ lost
    /\ hostLock' = hostLock \/ act[a].pc \in Under
    /\ catalog' \in Catalogs /\ catalog'.label = catalog'.of
    /\ hostLock' \in BOOLEAN /\ overlap' \in BOOLEAN /\ reused' \in BOOLEAN /\ lost' \in BOOLEAN
    /\ (overlap => overlap') /\ (lost => lost')
    /\ UNCHANGED <<stored, server, hostFile, bounds>>

\* The endpoint has issued one more grant.
Grows(g) ==
    /\ grants' \in Seq(Grants) /\ Len(grants') = Len(grants) + 1
    /\ \A i \in 1..Len(grants) : grants'[i] = grants[i]
    /\ grants'[Len(grants) + 1] = g

\* The records the code begins and ends with.
LEMMA Records ==
    /\ NoCredential \in Credentials /\ NoCredential.type = "none"
    /\ APIKey \in Credentials /\ APIKey.type = "api_key"
    /\ NoCatalog \in Catalogs /\ NoCatalog.label = NoCatalog.of
    /\ Static \in Catalogs /\ Static.label = Static.of
    /\ Idle \in Acts /\ Idle.pc = "idle" /\ Idle.cred = NoCredential /\ Idle.prev = NoCredential
    /\ Idle.host = 0 /\ Idle.models = NoCatalog
    /\ \A n \in Nat : OAuth(n) \in Credentials /\ OAuth(n).type = "oauth" /\ OAuth(n).grant = n
    /\ \A c \in Credentials, n \in Nat : c = OAuth(n) <=> c.type = "oauth" /\ c.grant = n
<1>1. /\ NoCredential \in Credentials /\ NoCredential.type = "none"
      /\ APIKey \in Credentials /\ APIKey.type = "api_key"
  BY DEF Credentials, NoCredential, APIKey
<1>2. /\ NoCatalog \in Catalogs /\ NoCatalog.label = NoCatalog.of
      /\ Static \in Catalogs /\ Static.label = Static.of
  BY DEF Catalogs, NoCatalog, Static
<1>3. /\ Idle \in Acts /\ Idle.pc = "idle" /\ Idle.cred = NoCredential /\ Idle.prev = NoCredential
      /\ Idle.host = 0 /\ Idle.models = NoCatalog
  BY <1>1, <1>2 DEF Acts, Idle, Places
<1>4. \A n \in Nat : OAuth(n) \in Credentials /\ OAuth(n).type = "oauth" /\ OAuth(n).grant = n
  BY DEF Credentials, OAuth
<1>5. \A c \in Credentials, n \in Nat : c = OAuth(n) <=> c.type = "oauth" /\ c.grant = n
  <2> SUFFICES ASSUME NEW c \in Credentials, NEW n \in Nat
               PROVE  c = OAuth(n) <=> c.type = "oauth" /\ c.grant = n
    OBVIOUS
  <2>1. c = [type |-> c.type, grant |-> c.grant]
    BY DEF Credentials
  <2> QED BY <2>1 DEF OAuth
<1> QED BY <1>1, <1>2, <1>3, <1>4, <1>5

\* What the types say of each actor's record and of each grant.
LEMMA Typed ==
    ASSUME TypeOK
    PROVE  /\ \A a \in Actors :
                 /\ act[a] \in Acts /\ act[a].pc \in Places
                 /\ act[a].cred \in Credentials /\ act[a].prev \in Credentials
                 /\ act[a].host \in Nat /\ act[a].models \in Catalogs
                 /\ act[a].cred.type = "oauth" => act[a].cred.grant \in 1..Len(grants)
                 /\ act[a].prev.type = "oauth" => act[a].prev.grant \in 1..Len(grants)
                 /\ act[a].cred.grant \in Nat /\ act[a].prev.grant \in Nat
           /\ stored.type = "oauth" => stored.grant \in 1..Len(grants)
           /\ stored.grant \in Nat /\ Len(grants) \in Nat /\ DOMAIN grants = 1..Len(grants)
           /\ \A i \in 1..Len(grants) :
                 /\ grants[i] \in Grants /\ grants[i].refresh \in Nat
                 /\ grants[i].host \in Nat /\ grants[i].registration \in Registrations
<1>1. \A a \in Actors :
         /\ act[a] \in Acts /\ act[a].pc \in Places
         /\ act[a].cred \in Credentials /\ act[a].prev \in Credentials
         /\ act[a].host \in Nat /\ act[a].models \in Catalogs
  BY DEF TypeOK, Acts
<1>2. \A c \in Credentials : c.grant \in Nat
  BY DEF Credentials
<1>3. \A i \in 1..Len(grants) :
         /\ grants[i] \in Grants /\ grants[i].refresh \in Nat
         /\ grants[i].host \in Nat /\ grants[i].registration \in Registrations
  <2>1. \A i \in 1..Len(grants) : grants[i] \in Grants
    BY DEF TypeOK
  <2>2. \A g \in Grants : g.refresh \in Nat /\ g.host \in Nat /\ g.registration \in Registrations
    BY DEF Grants
  <2> QED BY <2>1, <2>2
<1> QED BY <1>1, <1>2, <1>3 DEF TypeOK, Issued

\* What is known of one actor and of the files before its step.
LEMMA Has ==
    ASSUME AuthInvariant, NEW a \in Actors
    PROVE  /\ act[a] \in Acts /\ act[a].cred \in Credentials /\ act[a].prev \in Credentials
           /\ act[a].host \in Nat /\ act[a].host \in {0, hostFile} /\ act[a].models \in Catalogs
           /\ Issued(act[a].cred) /\ Issued(act[a].prev) /\ Issued(NoCredential)
           /\ a \in Commands => act[a].models.label = act[a].models.of /\ a \notin Callers
           /\ a \notin Callers => a \in Commands
           /\ stored \in Credentials /\ Issued(stored)
           /\ catalog \in Catalogs /\ catalog.label = catalog.of
           /\ hostFile \in Nat /\ made \in Nat /\ hostLock \in BOOLEAN /\ started \in Nat
           /\ reused \in BOOLEAN /\ lost \in BOOLEAN /\ overlap \in BOOLEAN
<1>1. stored \in Credentials /\ Issued(stored)
  BY DEF AuthInvariant, TypeOK
<1>2. catalog \in Catalogs /\ catalog.label = catalog.of
  BY DEF AuthInvariant, TypeOK, AccountsDoNotMix
<1>3. a \in Commands => act[a].models.label = act[a].models.of /\ a \notin Callers
  BY AuthAssumption DEF AuthInvariant, AccountsDoNotMix
<1>4. Issued(act[a].cred) /\ Issued(act[a].prev) /\ Issued(NoCredential)
  BY Records DEF AuthInvariant, TypeOK, Issued
<1>5. /\ hostFile \in Nat /\ made \in Nat /\ hostLock \in BOOLEAN /\ started \in Nat
      /\ reused \in BOOLEAN /\ lost \in BOOLEAN /\ overlap \in BOOLEAN
  BY DEF AuthInvariant, TypeOK
<1>6. act[a].host \in {0, hostFile}
  BY DEF AuthInvariant, HostOK, HostIDIsOne
<1>7. /\ act[a] \in Acts /\ act[a].cred \in Credentials /\ act[a].prev \in Credentials
      /\ act[a].host \in Nat /\ act[a].models \in Catalogs
  BY Typed DEF AuthInvariant
<1>8. a \notin Callers => a \in Commands
  BY DEF Actors
<1> QED BY <1>1, <1>2, <1>3, <1>4, <1>5, <1>6, <1>7, <1>8

\* Steps outside the provider's lock, the logins and the writing of the host file.
LEMMA WalkStep ==
    ASSUME AuthInvariant, NEW a \in Actors, NEW r \in Acts, Walks(a, r)
    PROVE  AuthInvariant'
<1>1. TypeOK'
  BY DEF AuthInvariant, TypeOK, Issued, Walks, server
<1>2. ActorOK'
  BY DEF AuthInvariant, TypeOK, ActorOK, Issued, Acts, Credentials, Section, Under,
         SameRegistration, Registration, Walks, server
<1>3. LockOK'
  BY DEF AuthInvariant, TypeOK, LockOK, Acts, Section, Walks, server
<1>4. SectionOK'
  BY DEF AuthInvariant, TypeOK, SectionOK, Acts, Section, SameRegistration,
         Registration, Walks, server
<1>5. LoginOK'
  BY Typed, Records DEF AuthInvariant, LoginOK, Section, Walks, server
<1>6. TokensOK'
  BY DEF AuthInvariant, TypeOK, TokensOK, Acts, Section, Rotated, Walks, server
<1>7. HostOK'
  BY DEF AuthInvariant, TypeOK, HostOK, HostIDIsOne, Acts, Under, Walks, server
<1>8. AccountsDoNotMix'
  BY DEF AuthInvariant, TypeOK, AccountsDoNotMix, Acts, Walks, server
<1> QED BY <1>1, <1>2, <1>3, <1>4, <1>5, <1>6, <1>7, <1>8 DEF AuthInvariant

\* Whoever returns leaves the lock, and nothing it knew.
LEMMA LeaveStep ==
    ASSUME AuthInvariant, NEW a \in Actors, Leaves(a)
    PROVE  AuthInvariant'
<1>1. TypeOK'
  BY Typed, Records DEF AuthInvariant, TypeOK, Issued, Leaves, Ends, server, bounds
<1>2. ActorOK'
  BY Typed, Records DEF AuthInvariant, TypeOK, ActorOK, Section, SameRegistration,
                        Registration, Leaves, Ends, server, bounds
<1>3. LockOK'
  BY Typed, Records DEF AuthInvariant, TypeOK, LockOK, Actors, Leaves, Ends, server,
                        bounds
<1>4. SectionOK'
  BY Typed, Records DEF AuthInvariant, SectionOK, Section, SameRegistration,
                        Registration, Leaves, Ends, server, bounds
<1>5. LoginOK'
  BY Typed, Records DEF AuthInvariant, LoginOK, Section, Leaves, Ends, server, bounds
<1>6. TokensOK'
  BY AuthAssumption, Typed, Records DEF AuthInvariant, TokensOK, SectionOK, ActorOK,
                                        LoginOK, Section, Rotated, TypeOK, Leaves,
                                        Ends, server, bounds
<1>7. HostOK'
  BY Typed, Records DEF AuthInvariant, HostOK, HostIDIsOne, TypeOK, ActorOK, Under,
                        Leaves, Ends, server, bounds
<1>8. AccountsDoNotMix'
  BY Typed, Records DEF AuthInvariant, TypeOK, AccountsDoNotMix, Leaves, Ends, server,
                        bounds
<1> QED BY <1>1, <1>2, <1>3, <1>4, <1>5, <1>6, <1>7, <1>8 DEF AuthInvariant

\* A credential is taken out for a refresh: nobody else of the process can be at
\* it, and somebody of another process makes an overlap.
LEMMA BeginStep ==
    ASSUME AuthInvariant, NEW a \in Actors, act[a].pc = "want", stored.type = "oauth",
           NEW r \in Acts, act' = [act EXCEPT ![a] = r], r.pc = "refresh",
           r.cred = stored, r.prev = act[a].prev, r.host = act[a].host,
           r.models = act[a].models, a \in Callers => lock = {},
           lock' = IF a \in Callers THEN lock \cup {a} ELSE lock,
           overlap' = (overlap \/ Overlaps(a)),
           UNCHANGED <<files, server, reused, lost, bounds>>
    PROVE  AuthInvariant'
<1>1. TypeOK'
  BY DEF AuthInvariant, TypeOK, Issued, Overlaps, server, files, bounds
<1>2. ActorOK'
  BY DEF AuthInvariant, TypeOK, ActorOK, Acts, SameRegistration, Registration,
         Overlaps, server, files, bounds
<1>3. LockOK'
  BY DEF AuthInvariant, TypeOK, LockOK, Acts, Section, Overlaps, server, files, bounds
<1>4. SectionOK'
  <2>1. ASSUME ~overlap', NEW b \in Actors \ {a}
        PROVE  act[b].pc \notin Section
    <3>1. act[b].pc \in Section => {a, b} \subseteq Callers
      BY <2>1 DEF Overlaps
    <3>2. a \in Callers /\ b \in Callers => act[b].pc \notin Section
      BY <2>1 DEF AuthInvariant, LockOK, ActorOK, Section
    <3> QED BY <3>1, <3>2
  <2>2. act'[a] = r /\ (\A b \in Actors \ {a} : act'[b] = act[b]) /\ stored' = stored
    BY DEF AuthInvariant, TypeOK, files
  <2> QED BY <2>1, <2>2 DEF SectionOK, Section
<1>5. LoginOK'
  BY DEF AuthInvariant, TypeOK, LoginOK, Acts, Section, OAuth, Overlaps, server,
         files, bounds
<1>6. TokensOK'
  BY DEF AuthInvariant, TypeOK, TokensOK, Acts, Section, Rotated, Overlaps, server,
         files, bounds
<1>7. HostOK'
  BY DEF AuthInvariant, TypeOK, HostOK, HostIDIsOne, Acts, Under, Overlaps, server,
         files, bounds
<1>8. AccountsDoNotMix'
  BY DEF AuthInvariant, TypeOK, AccountsDoNotMix, Acts, Overlaps, server, files,
         bounds
<1> QED BY <1>1, <1>2, <1>3, <1>4, <1>5, <1>6, <1>7, <1>8 DEF AuthInvariant

\* The endpoint refreshes: the one grant of a rotation still known is on its way
\* to the file.
LEMMA GrantStep ==
    ASSUME AuthInvariant, NEW a \in Actors, act[a].pc = "refresh", NEW g \in Grants,
           Grows(g), g.registration = grants[act[a].cred.grant].registration,
           g.host = grants[act[a].cred.grant].host,
           grants[act[a].cred.grant].refresh \notin spent,
           \/ /\ g.refresh = Len(grants) + 1
              /\ spent' = spent \cup {grants[act[a].cred.grant].refresh}
           \/ (g.refresh = grants[act[a].cred.grant].refresh /\ spent' = spent),
           NEW r \in Acts, act' = [act EXCEPT ![a] = r], r.pc = "answered",
           r.prev = act[a].cred, r.cred = OAuth(Len(grants) + 1),
           r.host = act[a].host, r.models = act[a].models,
           UNCHANGED <<files, lock, history, bounds>>
    PROVE  AuthInvariant'
<1>0. /\ act'[a] = r /\ (\A b \in Actors \ {a} : act'[b] = act[b]) /\ DOMAIN act' = Actors
      /\ Len(grants) \in Nat /\ Len(grants') = Len(grants) + 1
      /\ grants' \in Seq(Grants) /\ DOMAIN grants' = 1..Len(grants) + 1
      /\ \A i \in 1..Len(grants) : grants'[i] = grants[i]
      /\ grants'[Len(grants) + 1] = g
      /\ r.cred \in Credentials /\ r.cred.type = "oauth" /\ r.cred.grant = Len(grants) + 1
      /\ act' \in [Actors -> Acts]
  BY Records DEF AuthInvariant, TypeOK, Grows
<1>1. TypeOK'
  <2>0. act[a].cred.grant \in 1..Len(grants)
    BY Typed DEF AuthInvariant, ActorOK
  <2>1. /\ grants[act[a].cred.grant].refresh \in 1..Len(grants)
        /\ \A i \in 1..Len(grants) : grants[i].refresh \in 1..i
    BY <1>0, <2>0 DEF AuthInvariant, TypeOK
  <2>2. grants' \in Seq(Grants) /\ spent' \subseteq 1..Len(grants')
    <3>1. spent \subseteq 1..Len(grants)
      BY DEF AuthInvariant, TypeOK
    <3>2. spent' \subseteq spent \cup {grants[act[a].cred.grant].refresh}
      OBVIOUS
    <3>3. 1..Len(grants) \subseteq 1..Len(grants')
      BY <1>0
    <3> QED BY <1>0, <2>1, <3>1, <3>2, <3>3
  <2>3. \A i \in 1..Len(grants') : grants'[i].refresh \in 1..i
    <3>1. g.refresh \in 1..Len(grants) + 1
      BY <1>0, <2>1
    <3> QED BY <1>0, <2>1, <3>1
  <2>4. \A b \in Actors : Issued(act[b].cred)' /\ Issued(act[b].prev)'
    BY <1>0, Typed, Records DEF AuthInvariant, TypeOK, Issued
  <2>5. Issued(stored)'
    BY <1>0, Typed DEF AuthInvariant, TypeOK, Issued, files
  <2> QED BY <1>0, <2>2, <2>3, <2>4, <2>5 DEF AuthInvariant, TypeOK, files, history, bounds
<1>2. ActorOK'
  <2>1. \A b \in Actors \ {a} : act[b].pc \in {"answered", "publish"} =>
           /\ act[b].prev.type = "oauth"
           /\ SameRegistration(act[b].prev, act[b].cred)'
    BY <1>0, Typed DEF AuthInvariant, ActorOK, SameRegistration, Registration
  <2>2. r.pc = "answered" => SameRegistration(r.prev, r.cred)'
    BY <1>0, Typed DEF AuthInvariant, ActorOK, SameRegistration, Registration
  <2> QED BY <1>0, <2>1, <2>2, AuthAssumption DEF AuthInvariant, ActorOK
<1>3. LockOK'
  BY <1>0 DEF AuthInvariant, TypeOK, LockOK, Acts, Section, Grows, files, history,
              bounds
<1>4. SectionOK'
  BY <1>0 DEF AuthInvariant, TypeOK, SectionOK, Acts, Section, SameRegistration,
              Registration, Grows, files, history, bounds
<1>5. LoginOK'
  <2> SUFFICES ASSUME NEW b \in Actors, act'[b].pc \in {"login", "save"}
               PROVE  LET h == act'[b].cred.grant IN
                      /\ h \notin spent' /\ stored' # OAuth(h)
                      /\ \A i \in 1..Len(grants') : grants'[i].refresh = h <=> i = h
                      /\ \A d \in Actors \ {b} : act'[d].cred # OAuth(h)
    BY DEF LoginOK
  <2> DEFINE h == act[b].cred.grant  old == act[a].cred.grant
  <2>1. b # a /\ act'[b] = act[b] /\ act[b].cred.type = "oauth"
    BY <1>0 DEF AuthInvariant, ActorOK
  <2>2. /\ h \in 1..Len(grants) /\ old \in 1..Len(grants)
        /\ h \notin spent /\ stored # OAuth(h)
        /\ \A i \in 1..Len(grants) : grants[i].refresh = h <=> i = h
        /\ \A d \in Actors \ {b} : act[d].cred # OAuth(h)
    BY <1>0, <2>1, Typed DEF AuthInvariant, LoginOK, ActorOK
  <2>3. old # h
    BY <2>1, <2>2, Typed, Records DEF AuthInvariant, ActorOK
  <2>4. grants[old].refresh # h /\ g.refresh # h
    BY <1>0, <2>2, <2>3
  <2>5. h \notin spent' /\ stored' # OAuth(h)
    BY <2>2, <2>4 DEF files
  <2>6. \A i \in 1..Len(grants') : grants'[i].refresh = h <=> i = h
    BY <1>0, <2>2, <2>4
  <2>7. \A d \in Actors \ {b} : act'[d].cred # OAuth(h)
    BY <1>0, <2>2, Records
  <2> QED BY <2>1, <2>5, <2>6, <2>7
<1>6. TokensOK'
  <2> SUFFICES ASSUME ~overlap, ~lost
               PROVE  /\ ~reused
                      /\ stored.type = "oauth" /\ grants'[stored.grant].refresh \in spent' =>
                            \E b \in Actors : act'[b].pc = "answered" /\ (Rotated(b))'
                      /\ \A b \in Actors : act'[b].pc = "answered" =>
                            grants'[act'[b].cred.grant].refresh \notin spent'
    BY DEF TokensOK, files, history
  <2> DEFINE old == act[a].cred.grant  n == Len(grants) + 1
  <2>1. old \in 1..Len(grants) /\ stored = act[a].cred
    BY Typed DEF AuthInvariant, ActorOK, SectionOK
  <2>2. \A b \in Actors \ {a} : act[b].pc # "answered" /\ act'[b] = act[b]
    BY <1>0 DEF AuthInvariant, SectionOK, Section
  <2>3. grants[old].refresh \in 1..Len(grants) /\ spent \subseteq 1..Len(grants)
    BY <1>0, <2>1 DEF AuthInvariant, TypeOK
  <2>4. ~reused
    BY DEF AuthInvariant, TokensOK
  <2>5. grants'[old].refresh \in spent' =>
           \E b \in Actors : act'[b].pc = "answered" /\ (Rotated(b))'
    <3>1. grants'[old].refresh \in spent' => g.refresh = n /\ n # grants[old].refresh
      BY <1>0, <2>1, <2>3
    <3>2. (Rotated(a))' <=> g.refresh # grants[old].refresh
      BY <1>0, <2>1 DEF Rotated
    <3> QED BY <1>0, <3>1, <3>2
  <2>6. g.refresh \notin spent'
    BY <1>0, <2>1, <2>3
  <2>7. \A b \in Actors : act'[b].pc = "answered" =>
           grants'[act'[b].cred.grant].refresh \notin spent'
    BY <1>0, <2>2, <2>6
  <2> QED BY <2>1, <2>4, <2>5, <2>7
<1>7. HostOK'
  <2>1. \A i \in 1..Len(grants') : grants'[i].host = hostFile /\ grants'[i].host # 0
    <3>1. \A i \in 1..Len(grants) : grants[i].host = hostFile /\ grants[i].host # 0
      BY Typed DEF AuthInvariant, HostOK, HostIDIsOne
    <3>2. g.host = hostFile /\ g.host # 0
      BY <3>1, Typed DEF AuthInvariant, HostOK, HostIDIsOne, ActorOK
    <3> QED BY <1>0, <3>1, <3>2
  <2>2. \A b \in Actors : act'[b].host = act[b].host
    BY <1>0
  <2>3. \A b \in Actors : act'[b].pc \in Under \cup {"client", "browser", "exchange"} =>
           act'[b].pc = act[b].pc
    BY <1>0 DEF Under
  <2>4. HostIDIsOne'
    BY <1>0, <2>1, <2>2 DEF AuthInvariant, HostOK, HostIDIsOne, files
  <2> QED BY <2>1, <2>2, <2>3, <2>4 DEF AuthInvariant, HostOK, Under, files
<1>8. AccountsDoNotMix'
  BY <1>0 DEF AuthInvariant, TypeOK, AccountsDoNotMix, Acts, Grows, files, history,
              bounds
<1> QED BY <1>1, <1>2, <1>3, <1>4, <1>5, <1>6, <1>7, <1>8 DEF AuthInvariant

\* A conversation saves what it got, and has its credential or an error.
LEMMA SaveEndsStep ==
    ASSUME AuthInvariant, NEW a \in Actors, act[a].pc = "answered",
           stored' = act[a].cred, Ends(a),
           UNCHANGED <<hostFile, hostLock, catalog, server, history, bounds>>
    PROVE  AuthInvariant'
<1>1. TypeOK'
  BY Typed, Records DEF AuthInvariant, TypeOK, Issued, Ends, server, history, bounds
<1>2. ActorOK'
  BY Typed, Records DEF AuthInvariant, TypeOK, ActorOK, Section, SameRegistration,
                        Registration, Ends, server, history, bounds
<1>3. LockOK'
  BY Typed, Records DEF AuthInvariant, TypeOK, LockOK, Actors, Ends, server, history,
                        bounds
<1>4. SectionOK'
  <2>1. \A b \in Actors \ {a} : ~overlap => act[b].pc \notin Section
    BY DEF AuthInvariant, SectionOK, Section
  <2>2. act'[a] = Idle /\ (\A b \in Actors \ {a} : act'[b] = act[b]) /\ overlap' = overlap
    BY DEF AuthInvariant, TypeOK, Ends, history
  <2> QED BY <2>1, <2>2, Records DEF SectionOK, Section
<1>5. LoginOK'
  BY Typed, Records DEF AuthInvariant, LoginOK, Section, Ends, server, history, bounds
<1>6. TokensOK'
  BY Typed, Records DEF AuthInvariant, TokensOK, SectionOK, Section, Rotated, Ends,
                        server, history, bounds
<1>7. HostOK'
  BY Typed, Records DEF AuthInvariant, HostOK, HostIDIsOne, Under, Ends, server,
                        history, bounds
<1>8. AccountsDoNotMix'
  BY Typed, Records DEF AuthInvariant, TypeOK, AccountsDoNotMix, Ends, server,
                        history, bounds
<1> QED BY <1>1, <1>2, <1>3, <1>4, <1>5, <1>6, <1>7, <1>8 DEF AuthInvariant

\* A command saves what it got and goes on to discover models.
LEMMA SaveObtainsStep ==
    ASSUME AuthInvariant, NEW a \in Actors, a \in Commands, act[a].pc = "answered",
           stored' = act[a].cred, NEW r \in Acts, act' = [act EXCEPT ![a] = r],
           r.pc = "discover", r.cred = act[a].cred, r.prev = act[a].prev,
           r.host = act[a].host, r.models = act[a].models,
           UNCHANGED <<hostFile, hostLock, catalog, lock, server, history, bounds>>
    PROVE  AuthInvariant'
<1>1. TypeOK'
  BY Typed, Records DEF AuthInvariant, TypeOK, Issued, server, history, bounds
<1>2. ActorOK'
  BY AuthAssumption DEF AuthInvariant, TypeOK, ActorOK, Acts, SameRegistration,
                        Registration, server, history, bounds
<1>3. LockOK'
  BY AuthAssumption DEF AuthInvariant, TypeOK, LockOK, Acts, Section, server, history,
                        bounds
<1>4. SectionOK'
  <2>1. \A b \in Actors \ {a} : ~overlap => act[b].pc \notin Section
    BY DEF AuthInvariant, SectionOK, Section
  <2>2. act'[a] = r /\ (\A b \in Actors \ {a} : act'[b] = act[b]) /\ overlap' = overlap
    BY DEF AuthInvariant, TypeOK, history
  <2> QED BY <2>1, <2>2 DEF SectionOK, Section
<1>5. LoginOK'
  BY DEF AuthInvariant, TypeOK, LoginOK, Acts, Section, OAuth, server, history, bounds
<1>6. TokensOK'
  BY DEF AuthInvariant, TypeOK, TokensOK, Acts, Section, Rotated, server, history,
         bounds
<1>7. HostOK'
  BY DEF AuthInvariant, TypeOK, HostOK, HostIDIsOne, Acts, Under, server, history,
         bounds
<1>8. AccountsDoNotMix'
  BY DEF AuthInvariant, TypeOK, AccountsDoNotMix, Acts, server, history, bounds
<1> QED BY <1>1, <1>2, <1>3, <1>4, <1>5, <1>6, <1>7, <1>8 DEF AuthInvariant

\* The first ID is written: nobody has one yet, and no grant carries one.
LEMMA WriteHostStep ==
    ASSUME AuthInvariant, NEW a \in Actors, a \in Commands, act[a].pc = "write",
           NEW r \in Acts, act' = [act EXCEPT ![a] = r], r.pc = "unlock",
           r.cred = act[a].cred, r.prev = act[a].prev, r.host = made + 1,
           r.models = act[a].models, hostFile' = made + 1, made' = made + 1,
           UNCHANGED <<Unwritten, hostLock, server, lock, history, started, crashes>>
    PROVE  AuthInvariant'
<1>1. TypeOK'
  BY DEF AuthInvariant, TypeOK, Issued, Unwritten, server, history
<1>2. ActorOK'
  BY DEF AuthInvariant, TypeOK, ActorOK, Acts, SameRegistration, Registration,
         Unwritten, server, history
<1>3. LockOK'
  BY DEF AuthInvariant, TypeOK, LockOK, Acts, Section, Unwritten, server, history
<1>4. SectionOK'
  BY DEF AuthInvariant, TypeOK, SectionOK, Acts, Section, SameRegistration,
         Registration, Unwritten, server, history
<1>5. LoginOK'
  BY DEF AuthInvariant, TypeOK, LoginOK, Acts, Section, OAuth, Unwritten, server,
         history
<1>6. TokensOK'
  BY DEF AuthInvariant, TypeOK, TokensOK, Acts, Section, Rotated, Unwritten, server,
         history
<1>7. HostOK'
  BY DEF AuthInvariant, TypeOK, HostOK, HostIDIsOne, Acts, Under, Unwritten, server,
         history
<1>8. AccountsDoNotMix'
  BY DEF AuthInvariant, TypeOK, AccountsDoNotMix, Acts, Unwritten, server, history
<1> QED BY <1>1, <1>2, <1>3, <1>4, <1>5, <1>6, <1>7, <1>8 DEF AuthInvariant

\* A login is granted: its tokens are new to everybody.
LEMMA ExchangeStep ==
    ASSUME AuthInvariant, NEW a \in Actors, a \in Commands, act[a].pc = "exchange",
           NEW g \in Grants, Grows(g), g.host = act[a].host,
           g.refresh = Len(grants) + 1, NEW r \in Acts, act' = [act EXCEPT ![a] = r],
           r.pc = "login", r.cred = OAuth(Len(grants) + 1), r.prev = NoCredential,
           r.host = 0, r.models = act[a].models,
           UNCHANGED <<files, spent, lock, history, bounds>>
    PROVE  AuthInvariant'
<1>0. /\ act'[a] = r /\ (\A b \in Actors \ {a} : act'[b] = act[b]) /\ DOMAIN act' = Actors
      /\ Len(grants) \in Nat /\ Len(grants') = Len(grants) + 1
      /\ grants' \in Seq(Grants) /\ DOMAIN grants' = 1..Len(grants) + 1
      /\ \A i \in 1..Len(grants) : grants'[i] = grants[i]
      /\ grants'[Len(grants) + 1] = g
      /\ r.cred \in Credentials /\ r.cred.type = "oauth" /\ r.cred.grant = Len(grants) + 1
      /\ act' \in [Actors -> Acts]
  BY Records DEF AuthInvariant, TypeOK, Grows
<1>1. TypeOK'
  <2>1. grants' \in Seq(Grants) /\ spent' \subseteq 1..Len(grants')
    BY <1>0, Typed DEF AuthInvariant, TypeOK
  <2>2. \A i \in 1..Len(grants') : grants'[i].refresh \in 1..i
    BY <1>0, Typed DEF AuthInvariant, TypeOK
  <2>3. \A b \in Actors : Issued(act[b].cred)' /\ Issued(act[b].prev)'
    BY <1>0, Typed, Records DEF AuthInvariant, TypeOK, Issued
  <2>4. Issued(stored)'
    BY <1>0, Typed DEF AuthInvariant, TypeOK, Issued, files
  <2> QED BY <1>0, <2>1, <2>2, <2>3, <2>4 DEF AuthInvariant, TypeOK, files, history, bounds
<1>2. ActorOK'
  <2>1. \A b \in Actors \ {a} : act[b].pc \in {"answered", "publish"} =>
           /\ act[b].prev.type = "oauth"
           /\ SameRegistration(act[b].prev, act[b].cred)'
    BY <1>0, Typed DEF AuthInvariant, ActorOK, SameRegistration, Registration
  <2> QED BY <1>0, <2>1, AuthAssumption DEF AuthInvariant, ActorOK
<1>3. LockOK'
  BY <1>0 DEF AuthInvariant, TypeOK, LockOK, Acts, Section, Grows, files, history,
              bounds
<1>4. SectionOK'
  BY <1>0, Typed, Records DEF AuthInvariant, SectionOK, ActorOK, LockOK, Section,
                              Actors, SameRegistration, Registration, Grows, files,
                              history, bounds
<1>5. LoginOK'
  <2> SUFFICES ASSUME NEW b \in Actors, act'[b].pc \in {"login", "save"}
               PROVE  LET h == act'[b].cred.grant IN
                      /\ h \notin spent' /\ stored' # OAuth(h)
                      /\ \A i \in 1..Len(grants') : grants'[i].refresh = h <=> i = h
                      /\ \A d \in Actors \ {b} : act'[d].cred # OAuth(h)
    BY DEF LoginOK
  <2>1. CASE b = a
    <3> DEFINE n == Len(grants) + 1
    <3>1. n \notin spent' /\ stored' # OAuth(n)
      BY <1>0, Typed, Records DEF AuthInvariant, TypeOK, files
    <3>2. \A i \in 1..Len(grants') : grants'[i].refresh = n <=> i = n
      BY <1>0, Typed DEF AuthInvariant, TypeOK
    <3>3. \A d \in Actors \ {a} : act'[d].cred # OAuth(n)
      BY <1>0, Typed, Records DEF AuthInvariant
    <3> QED BY <2>1, <1>0, <3>1, <3>2, <3>3
  <2>2. CASE b # a
    <3> DEFINE h == act[b].cred.grant
    <3>1. act'[b] = act[b] /\ act[b].cred.type = "oauth"
      BY <2>2, <1>0 DEF AuthInvariant, ActorOK
    <3>2. /\ h \in 1..Len(grants) /\ h \notin spent /\ stored # OAuth(h)
          /\ \A i \in 1..Len(grants) : grants[i].refresh = h <=> i = h
          /\ \A d \in Actors \ {b} : act[d].cred # OAuth(h)
      BY <3>1, Typed DEF AuthInvariant, LoginOK
    <3>3. h \notin spent' /\ stored' # OAuth(h)
      BY <3>2 DEF files
    <3>4. \A i \in 1..Len(grants') : grants'[i].refresh = h <=> i = h
      BY <1>0, <3>2
    <3>5. \A d \in Actors \ {b} : act'[d].cred # OAuth(h)
      BY <1>0, <3>2, Records
    <3> QED BY <3>1, <3>3, <3>4, <3>5
  <2> QED BY <2>1, <2>2
<1>6. TokensOK'
  <2>1. \A b \in Actors : act[b].pc = "answered" =>
           /\ act'[b] = act[b] /\ act[b].cred.grant \in 1..Len(grants)
           /\ act[b].prev.grant \in 1..Len(grants)
    BY <1>0, Typed DEF AuthInvariant, ActorOK
  <2>2. \A b \in Actors : act[b].pc = "answered" => (Rotated(b))' = Rotated(b)
    BY <1>0, <2>1 DEF Rotated
  <2>3. \A b \in Actors : act'[b].pc = "answered" => act[b].pc = "answered"
    BY <1>0
  <2>4. stored.type = "oauth" => grants'[stored.grant] = grants[stored.grant]
    BY <1>0, Typed DEF AuthInvariant
  <2>5. UNCHANGED <<stored, spent, reused, lost, overlap>>
    BY DEF files, history
  <2>6. ~overlap /\ ~lost => ~reused'
    BY <2>5 DEF AuthInvariant, TokensOK
  <2>7. ~overlap /\ ~lost /\ stored.type = "oauth" /\ grants'[stored.grant].refresh \in spent =>
           \E b \in Actors : act'[b].pc = "answered" /\ (Rotated(b))'
    BY <2>1, <2>2, <2>4 DEF AuthInvariant, TokensOK
  <2>8. ~overlap /\ ~lost => \A b \in Actors : act'[b].pc = "answered" =>
           grants'[act'[b].cred.grant].refresh \notin spent
    BY <1>0, <2>1, <2>3 DEF AuthInvariant, TokensOK
  <2> QED BY <2>5, <2>6, <2>7, <2>8 DEF TokensOK
<1>7. HostOK'
  <2>1. \A i \in 1..Len(grants') : grants'[i].host = hostFile /\ grants'[i].host # 0
    <3>1. \A i \in 1..Len(grants) : grants[i].host = hostFile /\ grants[i].host # 0
      BY Typed DEF AuthInvariant, HostOK, HostIDIsOne
    <3>2. g.host = hostFile /\ g.host # 0
      BY <3>1, Typed DEF AuthInvariant, HostOK, HostIDIsOne, ActorOK
    <3> QED BY <1>0, <3>1, <3>2
  <2>2. \A b \in Actors : act'[b].host = act[b].host \/ (act'[b].host = 0 /\ act'[b].pc = "login")
    BY <1>0
  <2>3. \A b \in Actors : act'[b].pc \in Under \cup {"client", "browser", "exchange"} =>
           act'[b] = act[b]
    BY <1>0 DEF Under
  <2>4. HostIDIsOne'
    BY <1>0, <2>1, <2>2 DEF AuthInvariant, HostOK, HostIDIsOne, files
  <2> QED BY <2>1, <2>2, <2>3, <2>4 DEF AuthInvariant, HostOK, Under, files
<1>8. AccountsDoNotMix'
  BY <1>0 DEF AuthInvariant, TypeOK, AccountsDoNotMix, Acts, Grows, files, history,
              bounds
<1> QED BY <1>1, <1>2, <1>3, <1>4, <1>5, <1>6, <1>7, <1>8 DEF AuthInvariant

\* A login passes its check and is about to be saved.
LEMMA CheckStep ==
    ASSUME AuthInvariant, NEW a \in Actors, a \in Commands, act[a].pc = "login",
           stored.type = "oauth" => SameRegistration(stored, act[a].cred),
           NEW r \in Acts, act' = [act EXCEPT ![a] = r], r.pc = "save",
           r.cred = act[a].cred, r.prev = act[a].prev, r.host = act[a].host,
           r.models = act[a].models, overlap' = (overlap \/ Overlaps(a)),
           UNCHANGED <<files, server, lock, reused, lost, bounds>>
    PROVE  AuthInvariant'
<1>1. TypeOK'
  BY DEF AuthInvariant, TypeOK, Issued, Overlaps, files, server, bounds
<1>2. ActorOK'
  BY DEF AuthInvariant, TypeOK, ActorOK, Acts, SameRegistration, Registration,
         Overlaps, files, server, bounds
<1>3. LockOK'
  BY DEF AuthInvariant, TypeOK, LockOK, Acts, Section, Overlaps, files, server, bounds
<1>4. SectionOK'
  BY AuthAssumption DEF AuthInvariant, TypeOK, SectionOK, Acts, Section,
                        SameRegistration, Registration, Overlaps, files, server,
                        bounds
<1>5. LoginOK'
  BY DEF AuthInvariant, TypeOK, LoginOK, Acts, Section, OAuth, Overlaps, files,
         server, bounds
<1>6. TokensOK'
  BY DEF AuthInvariant, TypeOK, TokensOK, Acts, Section, Rotated, Overlaps, files,
         server, bounds
<1>7. HostOK'
  BY DEF AuthInvariant, TypeOK, HostOK, HostIDIsOne, Acts, Under, Overlaps, files,
         server, bounds
<1>8. AccountsDoNotMix'
  BY DEF AuthInvariant, TypeOK, AccountsDoNotMix, Acts, Overlaps, files, server,
         bounds
<1> QED BY <1>1, <1>2, <1>3, <1>4, <1>5, <1>6, <1>7, <1>8 DEF AuthInvariant

\* A login is saved.
LEMMA LoginSavesStep ==
    ASSUME AuthInvariant, NEW a \in Actors, a \in Commands, act[a].pc = "save",
           stored' = act[a].cred, NEW r \in Acts, act' = [act EXCEPT ![a] = r],
           r.pc = "clear", r.cred = act[a].cred, r.prev = act[a].prev,
           r.host = act[a].host, r.models = act[a].models,
           UNCHANGED <<hostFile, hostLock, catalog, lock, server, history, bounds>>
    PROVE  AuthInvariant'
<1>1. TypeOK'
  BY Typed, Records DEF AuthInvariant, TypeOK, Issued, server, history, bounds
<1>2. ActorOK'
  BY DEF AuthInvariant, TypeOK, ActorOK, Acts, SameRegistration, Registration, server,
         history, bounds
<1>3. LockOK'
  BY DEF AuthInvariant, TypeOK, LockOK, Acts, Section, server, history, bounds
<1>4. SectionOK'
  BY DEF AuthInvariant, TypeOK, SectionOK, Acts, Section, SameRegistration,
         Registration, server, history, bounds
<1>5. LoginOK'
  BY DEF AuthInvariant, TypeOK, LoginOK, Acts, Section, OAuth, server, history, bounds
<1>6. TokensOK'
  BY Typed, Records DEF AuthInvariant, TokensOK, SectionOK, ActorOK, LoginOK, Section,
                        Rotated, TypeOK, server, history, bounds
<1>7. HostOK'
  BY DEF AuthInvariant, TypeOK, HostOK, HostIDIsOne, Acts, Under, server, history,
         bounds
<1>8. AccountsDoNotMix'
  BY DEF AuthInvariant, TypeOK, AccountsDoNotMix, Acts, server, history, bounds
<1> QED BY <1>1, <1>2, <1>3, <1>4, <1>5, <1>6, <1>7, <1>8 DEF AuthInvariant

\* The record is removed, or a key takes its place.
LEMMA ReplaceStep ==
    ASSUME AuthInvariant, NEW a \in Actors, a \in Commands,
           act[a].pc \in {"key", "logout"}, stored' \in {APIKey, NoCredential},
           NEW r \in Acts, act' = [act EXCEPT ![a] = r], r.pc = "clear",
           r.cred = act[a].cred, r.prev = act[a].prev, r.host = act[a].host,
           r.models = act[a].models, overlap' = (overlap \/ Overlaps(a)),
           UNCHANGED <<hostFile, hostLock, catalog, lock, server, reused, lost, bounds>>
    PROVE  AuthInvariant'
<1>0. /\ act'[a] = r /\ (\A b \in Actors \ {a} : act'[b] = act[b])
      /\ \A b \in Actors : ~overlap' => act'[b].pc \notin Section
  <2>1. act'[a] = r /\ (\A b \in Actors \ {a} : act'[b] = act[b])
    BY DEF AuthInvariant, TypeOK
  <2>2. \A b \in Actors \ {a} : ~overlap' => act[b].pc \notin Section
    BY Has DEF Overlaps
  <2> QED BY <2>1, <2>2 DEF Section
<1>1. TypeOK'
  BY <1>0, Typed, Records DEF AuthInvariant, TypeOK, Issued, Overlaps, server, bounds
<1>2. ActorOK'
  BY <1>0 DEF AuthInvariant, TypeOK, ActorOK, Acts, SameRegistration, Registration,
              Overlaps, server, bounds
<1>3. LockOK'
  BY <1>0 DEF AuthInvariant, TypeOK, LockOK, Acts, Section, Overlaps, server, bounds
<1>4. SectionOK'
  BY <1>0 DEF SectionOK, Section
<1>5. LoginOK'
  BY <1>0, Typed, Records DEF AuthInvariant, LoginOK, Section, Overlaps, server,
                              bounds
<1>6. TokensOK'
  <2>1. \A b \in Actors : ~overlap' => act'[b].pc # "answered"
    BY <1>0 DEF Section
  <2>2. stored'.type # "oauth"
    BY Records
  <2>3. ~overlap' /\ ~lost' => ~reused'
    BY DEF AuthInvariant, TokensOK
  <2> QED BY <2>1, <2>2, <2>3 DEF TokensOK
<1>7. HostOK'
  BY <1>0 DEF AuthInvariant, TypeOK, HostOK, HostIDIsOne, Acts, Under, Overlaps,
              server, bounds
<1>8. AccountsDoNotMix'
  BY <1>0 DEF AuthInvariant, TypeOK, AccountsDoNotMix, Acts, Overlaps, server, bounds
<1> QED BY <1>1, <1>2, <1>3, <1>4, <1>5, <1>6, <1>7, <1>8 DEF AuthInvariant

\* Time passes, or nothing happens.
LEMMA DueStep ==
    ASSUME AuthInvariant, grants' \in Seq(Grants), Len(grants') = Len(grants),
           \A i \in 1..Len(grants) :
              /\ grants'[i].registration = grants[i].registration
              /\ grants'[i].host = grants[i].host
              /\ grants'[i].refresh = grants[i].refresh,
           UNCHANGED <<files, spent, lock, act, history, bounds>>
    PROVE  AuthInvariant'
<1>1. TypeOK'
  BY DEF AuthInvariant, TypeOK, Issued, files, history, bounds
<1>2. ActorOK'
  <2>1. UNCHANGED act
    OBVIOUS
  <2>2. \A b \in Actors : act[b].pc \in {"answered", "publish"} =>
           act[b].prev.grant \in 1..Len(grants) /\ act[b].cred.grant \in 1..Len(grants)
    BY Typed DEF AuthInvariant, ActorOK
  <2>3. \A b \in Actors : act[b].pc \in {"answered", "publish"} =>
           (SameRegistration(act[b].prev, act[b].cred)'
               <=> SameRegistration(act[b].prev, act[b].cred))
    BY <2>1, <2>2 DEF SameRegistration, Registration
  <2> QED BY <2>1, <2>3 DEF AuthInvariant, ActorOK
<1>3. LockOK'
  BY DEF AuthInvariant, LockOK
<1>4. SectionOK'
  <2>1. UNCHANGED <<stored, act, overlap>>
    BY DEF files, history
  <2>2. \A b \in Actors : act[b].pc = "save" /\ stored.type = "oauth" =>
           stored.grant \in 1..Len(grants) /\ act[b].cred.grant \in 1..Len(grants)
    BY Typed DEF AuthInvariant, ActorOK
  <2>3. \A b \in Actors : act[b].pc = "save" /\ stored.type = "oauth" =>
           (SameRegistration(stored, act[b].cred)' <=> SameRegistration(stored, act[b].cred))
    BY <2>1, <2>2 DEF SameRegistration, Registration
  <2> QED BY <2>1, <2>3 DEF AuthInvariant, SectionOK
<1>5. LoginOK'
  <2>1. UNCHANGED <<stored, spent, act>>
    BY DEF files
  <2>2. \A i \in 1..Len(grants') : grants'[i].refresh = grants[i].refresh
    OBVIOUS
  <2> QED BY <2>1, <2>2 DEF AuthInvariant, LoginOK
<1>6. TokensOK'
  BY DEF AuthInvariant, TypeOK, TokensOK, SectionOK, Issued, ActorOK, Acts,
         Credentials, Section, Rotated, files, history, bounds
<1>7. HostOK'
  <2>1. DOMAIN grants = 1..Len(grants) /\ DOMAIN grants' = 1..Len(grants)
    BY DEF AuthInvariant, TypeOK
  <2>2. \A i \in 1..Len(grants) : grants'[i].host = hostFile /\ grants'[i].host # 0
    BY <2>1 DEF AuthInvariant, HostOK, HostIDIsOne
  <2>3. HostIDIsOne'
    BY <2>1, <2>2 DEF AuthInvariant, HostOK, HostIDIsOne, files
  <2> QED BY <2>2, <2>3 DEF AuthInvariant, HostOK, files
<1>8. AccountsDoNotMix'
  BY DEF AuthInvariant, TypeOK, AccountsDoNotMix, Acts, files, history, bounds
<1> QED BY <1>1, <1>2, <1>3, <1>4, <1>5, <1>6, <1>7, <1>8 DEF AuthInvariant

\* A command or all conversations are killed.
LEMMA CrashStep ==
    ASSUME AuthInvariant, NEW killed,
           act' = [b \in Actors |-> IF b \in killed THEN Idle ELSE act[b]],
           lock' = lock \ killed,
           lost' = (lost \/ \E b \in killed \cap Actors : act[b].pc = "answered" /\ Rotated(b)),
           crashes' = crashes + 1,
           UNCHANGED <<files, server, reused, overlap, started, made>>
    PROVE  AuthInvariant'
<1>1. TypeOK'
  BY Typed, Records DEF AuthInvariant, TypeOK, Issued, files, server
<1>2. ActorOK'
  BY Typed, Records DEF AuthInvariant, TypeOK, ActorOK, Section, Actors,
                        SameRegistration, Registration, files, server
<1>3. LockOK'
  BY Typed, Records DEF AuthInvariant, TypeOK, LockOK, Actors, files, server
<1>4. SectionOK'
  BY Typed, Records DEF AuthInvariant, SectionOK, Section, SameRegistration,
                        Registration, files, server
<1>5. LoginOK'
  BY Typed, Records DEF AuthInvariant, LoginOK, Section, files, server
<1>6. TokensOK'
  BY Typed, Records DEF AuthInvariant, TokensOK, SectionOK, Section, Rotated, files,
                        server
<1>7. HostOK'
  BY Typed, Records DEF AuthInvariant, HostOK, HostIDIsOne, Under, files, server
<1>8. AccountsDoNotMix'
  BY Typed, Records DEF AuthInvariant, TypeOK, AccountsDoNotMix, Actors, files, server
<1> QED BY <1>1, <1>2, <1>3, <1>4, <1>5, <1>6, <1>7, <1>8 DEF AuthInvariant

\* A call or a command that returns without having done anything.
LEMMA EndsStep ==
    ASSUME AuthInvariant, NEW a \in Actors, Ends(a), act[a].pc # "answered",
           UNCHANGED <<files, server, reused, lost, bounds>>,
           overlap' = overlap \/ overlap' = (overlap \/ Overlaps(a))
    PROVE  AuthInvariant'
<1>1. Leaves(a)
  BY Typed DEF Leaves, AuthInvariant, TypeOK, AccountsDoNotMix, files, server
<1> QED BY <1>1, LeaveStep

\* The catalog a command starts with is of the account it is labelled with.
LEMMA Loaded ==
    ASSUME AuthInvariant, NEW f \in Catalogs, f.label = f.of
    PROVE  /\ LoadedCatalog(stored, f) \in Catalogs
           /\ LoadedCatalog(stored, f).label = LoadedCatalog(stored, f).of
BY Records DEF LoadedCatalog

\* GetCredential, in every process.
LEMMA CredentialStep ==
    ASSUME AuthInvariant, NEW a \in Actors, Credential(a)
    PROVE  AuthInvariant'
<1>1. CASE Call(a)
  <2> DEFINE r == [act[a] EXCEPT !.pc = "want"]
  <2>1. r \in Acts /\ r.pc = "want" /\ r.cred = act[a].cred /\ r.prev = act[a].prev
        /\ r.host = act[a].host /\ r.models = act[a].models
    BY Has, Records DEF Acts, Places
  <2>2. act' = [act EXCEPT ![a] = r]
    BY <1>1 DEF Call, Goto
  <2> HIDE DEF r
  <2>3. Walks(a, r)
    BY <1>1, <2>1, <2>2, Has, Records DEF Call, Goto, Walks,
       Section, Under, files, server, history, bounds
  <2> QED BY <2>1, <2>3, WalkStep
<1>2. CASE Resolve(a)
  <2>1. CASE Ends(a)
    BY <1>2, <2>1, EndsStep DEF Resolve
  <2>2. CASE /\ stored.type = "oauth" /\ CanUse(stored) /\ grants[stored.grant].due
             /\ act' = [act EXCEPT ![a] = [@ EXCEPT !.pc = "refresh", !.cred = stored]]
             /\ lock' = IF a \in Callers THEN lock \cup {a} ELSE lock
    <3> DEFINE r == [act[a] EXCEPT !.pc = "refresh", !.cred = stored]
    <3>1. /\ r \in Acts /\ r.pc = "refresh" /\ r.cred = stored /\ r.prev = act[a].prev
          /\ r.host = act[a].host /\ r.models = act[a].models
      BY Has, Records DEF Acts, Places
    <3>2. act' = [act EXCEPT ![a] = r]
      BY <2>2
    <3> HIDE DEF r
    <3> QED BY <1>2, <2>2, <3>1, <3>2, BeginStep DEF Resolve
  <2>3. CASE /\ a \notin Callers /\ stored.type = "oauth" /\ UNCHANGED lock
             /\ act' = [act EXCEPT ![a] = [@ EXCEPT !.pc = "discover", !.cred = stored]]
    <3> DEFINE r == [act[a] EXCEPT !.pc = "discover", !.cred = stored]
    <3>1. r \in Acts /\ r.pc = "discover" /\ r.cred = stored /\ r.prev = act[a].prev
          /\ r.host = act[a].host /\ r.models = act[a].models
      BY Has, Records DEF Acts, Places
    <3>2. act' = [act EXCEPT ![a] = r]
      BY <1>2, <2>3 DEF Resolve
    <3> HIDE DEF r
    <3>3. Walks(a, r)
      BY <1>2, <2>3, <3>1, <3>2, Has, Records DEF Resolve, Walks,
         Section, Under, files, server, history, bounds
    <3> QED BY <3>1, <3>3, WalkStep
  <2> QED BY <1>2, <2>1, <2>2, <2>3 DEF Resolve, Receives
<1>3. CASE Refresh(a)
  <2> DEFINE old == grants[act[a].cred.grant]
  <2>0. /\ act[a].pc = "refresh" /\ act[a].cred.type = "oauth"
        /\ act[a].cred.grant \in 1..Len(grants) /\ old \in Grants
    BY <1>3, Typed DEF Refresh, AuthInvariant, ActorOK
  <2>1. CASE Ends(a) /\ UNCHANGED server /\ reused' = (reused \/ old.refresh \in spent)
    <3>1. reused' => reused \/ overlap \/ lost
      <4> SUFFICES ASSUME ~overlap, ~lost, old.refresh \in spent PROVE FALSE
        BY <2>1
      <4>1. act[a].cred = stored
        BY <2>0 DEF AuthInvariant, SectionOK
      <4>2. PICK b \in Actors : act[b].pc = "answered"
        BY <2>0, <4>1 DEF AuthInvariant, TokensOK
      <4>3. b = a
        BY <2>0, <4>2 DEF AuthInvariant, SectionOK, Section
      <4> QED BY <2>0, <4>2, <4>3
    <3>2. Leaves(a)
      BY <1>3, <2>0, <2>1, <3>1, Has DEF Refresh, Leaves, Under, files
    <3> QED BY <3>2, LeaveStep
  <2>2. ASSUME NEW p \in BOOLEAN, NEW rotates \in BOOLEAN, old.refresh \notin spent,
               Issue(old.registration, old.host, p,
                     IF rotates THEN Len(grants) + 1 ELSE old.refresh),
               spent' = IF rotates THEN spent \cup {old.refresh} ELSE spent,
               act' = [act EXCEPT ![a] = [@ EXCEPT !.pc = "answered", !.prev = act[a].cred,
                                                   !.cred = OAuth(Len(grants) + 1)]],
               UNCHANGED <<lock, reused>>
        PROVE  AuthInvariant'
    <3> DEFINE r == [act[a] EXCEPT !.pc = "answered", !.prev = act[a].cred,
                                   !.cred = OAuth(Len(grants) + 1)]
               g == [registration |-> old.registration, host |-> old.host, plan |-> p,
                     refresh |-> IF rotates THEN Len(grants) + 1 ELSE old.refresh, due |-> FALSE]
    <3>0. OAuth(Len(grants) + 1) \in Credentials
      BY Typed, Records DEF AuthInvariant
    <3>1. /\ r \in Acts /\ r.pc = "answered" /\ r.prev = act[a].cred
          /\ r.cred = OAuth(Len(grants) + 1)
          /\ r.host = act[a].host /\ r.models = act[a].models
      BY <3>0, Has DEF Acts, Places
    <3>2. act' = [act EXCEPT ![a] = r]
      BY <2>2
    <3>3. /\ g \in Grants /\ g.registration = old.registration /\ g.host = old.host
          /\ g.refresh = IF rotates THEN Len(grants) + 1 ELSE old.refresh
      BY <2>0, Typed DEF Grants, AuthInvariant
    <3>4. grants' = Append(grants, g)
      BY <2>2 DEF Issue
    <3> HIDE DEF r, g
    <3>5. Grows(g)
      BY <3>3, <3>4 DEF Grows, AuthInvariant, TypeOK
    <3>6. UNCHANGED <<files, lock, history, bounds>>
      BY <1>3, <2>2 DEF Refresh, history
    <3>7. CASE rotates
      BY <2>0, <2>2, <3>1, <3>2, <3>3, <3>5, <3>6, <3>7, GrantStep
    <3>8. CASE ~rotates
      BY <2>0, <2>2, <3>1, <3>2, <3>3, <3>5, <3>6, <3>8, GrantStep
    <3> QED BY <3>7, <3>8
  <2> QED BY <1>3, <2>1, <2>2 DEF Refresh
<1>4. CASE Answer(a)
  <2>0. act[a].pc = "answered"
    BY <1>4 DEF Answer
  <2>1. CASE /\ stored' = act[a].cred /\ Ends(a) /\ UNCHANGED lost
    BY <1>4, <2>0, <2>1, SaveEndsStep DEF Answer, history
  <2>2. CASE /\ stored' = act[a].cred /\ a \notin Callers /\ UNCHANGED <<lock, lost>>
             /\ act' = [act EXCEPT ![a] = [@ EXCEPT !.pc = "discover", !.cred = act[a].cred]]
    <3> DEFINE r == [act[a] EXCEPT !.pc = "discover", !.cred = act[a].cred]
    <3>1. /\ r \in Acts /\ r.pc = "discover" /\ r.cred = act[a].cred /\ r.prev = act[a].prev
          /\ r.host = act[a].host /\ r.models = act[a].models
      BY Has, Records DEF Acts, Places
    <3>2. act' = [act EXCEPT ![a] = r]
      BY <2>2
    <3>3. a \in Commands
      BY <2>2 DEF Actors
    <3> HIDE DEF r
    <3> QED BY <1>4, <2>0, <2>2, <3>1, <3>2, <3>3, SaveObtainsStep DEF Answer, history
  <2>3. CASE Ends(a) /\ UNCHANGED stored /\ lost' = (lost \/ Rotated(a))
    <3>1. Leaves(a)
      BY <1>4, <2>0, <2>3, Has DEF Answer, Leaves, Under, Rotated
    <3> QED BY <3>1, LeaveStep
  <2> QED BY <1>4, <2>1, <2>2, <2>3 DEF Answer, Receives
<1> QED BY <1>1, <1>2, <1>3, <1>4 DEF Credential

\* The host ID: a command starts, looks, locks, writes and unlocks.
LEMMA HostStep ==
    ASSUME AuthInvariant, NEW a \in Actors, a \in Commands, Start(a) \/ Host(a)
    PROVE  AuthInvariant'
<1>1. ASSUME NEW p \in {"host", "key", "logout", "models"}, Start(a),
             act' = [act EXCEPT ![a] = [Idle EXCEPT !.pc = p,
                                                    !.models = LoadedCatalog(stored, catalog)]]
      PROVE  AuthInvariant'
  <2> DEFINE m == LoadedCatalog(stored, catalog)
             r == [Idle EXCEPT !.pc = p, !.models = m]
  <2>1. m \in Catalogs /\ m.label = m.of
    BY Has, Loaded
  <2>2. act' = [act EXCEPT ![a] = r]
    BY <1>1
  <2> HIDE DEF m
  <2>3. /\ r \in Acts /\ r.pc = p /\ r.cred = NoCredential /\ r.prev = NoCredential
        /\ r.host = 0 /\ r.models = m
    BY <2>1, Records DEF Acts, Places
  <2> HIDE DEF r
  <2>4. r.pc \notin Section \cup {"login", "discover", "publish", "unlock", "client", "browser",
                              "exchange", "write"} \cup Under
    BY <2>3 DEF Section, Under
  <2>5. /\ act[a].pc \notin Section \cup {"login"} \cup Under
        /\ UNCHANGED <<files, server, lock, history>>
    BY <1>1 DEF Start, Section, Under
  <2>6. started' \in Nat /\ UNCHANGED <<crashes, made>>
    BY <1>1, Has DEF Start
  <2>7. Walks(a, r)
    BY <2>4, <2>5, <2>6, <2>1, <2>2, <2>3, Has, Records DEF Walks, files, server, history
  <2> QED BY <2>3, <2>7, WalkStep
<1>2. CASE ReadHost(a)
  <2>1. CASE hostFile # 0
    <3> DEFINE r == [act[a] EXCEPT !.pc = "client", !.host = hostFile]
    <3>1. r \in Acts /\ r.pc = "client" /\ r.cred = act[a].cred /\ r.prev = act[a].prev
          /\ r.host = hostFile /\ r.models = act[a].models
      BY Has, Records DEF Acts, Places
    <3>2. act' = [act EXCEPT ![a] = r]
      BY <1>2, <2>1 DEF ReadHost
    <3> HIDE DEF r
    <3>3. Walks(a, r)
      BY <1>2, <2>1, <3>1, <3>2, Has, Records DEF ReadHost, Walks,
         Section, Under, files, server, history, bounds
    <3> QED BY <3>1, <3>3, WalkStep
  <2>2. CASE hostFile = 0
    <3> DEFINE r == [act[a] EXCEPT !.pc = "mkdir"]
    <3>1. r \in Acts /\ r.pc = "mkdir" /\ r.cred = act[a].cred /\ r.prev = act[a].prev
          /\ r.host = act[a].host /\ r.models = act[a].models
      BY Has, Records DEF Acts, Places
    <3>2. act' = [act EXCEPT ![a] = r]
      BY <1>2, <2>2 DEF ReadHost
    <3> HIDE DEF r
    <3>3. Walks(a, r)
      BY <1>2, <2>2, <3>1, <3>2, Has, Records DEF ReadHost, Walks,
         Section, Under, files, server, history, bounds
    <3> QED BY <3>1, <3>3, WalkStep
  <2> QED BY <2>1, <2>2
<1>3. CASE MakeLock(a)
  <2>1. CASE Ends(a) /\ UNCHANGED hostLock
    BY <1>3, <2>1, EndsStep DEF MakeLock, files, history
  <2>2. CASE ~hostLock /\ hostLock' = TRUE /\ Goto(a, "reread") /\ UNCHANGED lock
    <3> DEFINE r == [act[a] EXCEPT !.pc = "reread"]
    <3>1. r \in Acts /\ r.pc = "reread" /\ r.cred = act[a].cred /\ r.prev = act[a].prev
          /\ r.host = act[a].host /\ r.models = act[a].models
      BY Has, Records DEF Acts, Places
    <3>2. act' = [act EXCEPT ![a] = r]
      BY <1>3, <2>2 DEF MakeLock, Goto
    <3> HIDE DEF r
    <3>3. Walks(a, r)
      BY <1>3, <2>2, <3>1, <3>2, Has, Records DEF MakeLock, Goto, Walks,
         Section, Under, files, server, history, bounds
    <3> QED BY <3>1, <3>3, WalkStep
  <2> QED BY <1>3, <2>1, <2>2 DEF MakeLock
<1>4. CASE RereadHost(a)
  <2>0. hostLock
    BY <1>4 DEF RereadHost, AuthInvariant, HostOK, Under
  <2>1. CASE hostFile # 0
    <3> DEFINE r == [act[a] EXCEPT !.pc = "unlock", !.host = hostFile]
    <3>1. r \in Acts /\ r.pc = "unlock" /\ r.cred = act[a].cred /\ r.prev = act[a].prev
          /\ r.host = hostFile /\ r.models = act[a].models
      BY Has, Records DEF Acts, Places
    <3>2. act' = [act EXCEPT ![a] = r]
      BY <1>4, <2>0, <2>1 DEF RereadHost
    <3> HIDE DEF r
    <3>3. Walks(a, r)
      BY <1>4, <2>0, <2>1, <3>1, <3>2, Has, Records DEF RereadHost, Walks,
         Section, Under, files, server, history, bounds
    <3> QED BY <3>1, <3>3, WalkStep
  <2>2. CASE hostFile = 0
    <3> DEFINE r == [act[a] EXCEPT !.pc = "write"]
    <3>1. r \in Acts /\ r.pc = "write" /\ r.cred = act[a].cred /\ r.prev = act[a].prev
          /\ r.host = act[a].host /\ r.models = act[a].models
      BY Has, Records DEF Acts, Places
    <3>2. act' = [act EXCEPT ![a] = r]
      BY <1>4, <2>0, <2>2 DEF RereadHost
    <3> HIDE DEF r
    <3>3. Walks(a, r)
      BY <1>4, <2>0, <2>2, <3>1, <3>2, Has, Records DEF RereadHost, Walks,
         Section, Under, files, server, history, bounds
    <3> QED BY <3>1, <3>3, WalkStep
  <2> QED BY <2>1, <2>2
<1>5. CASE WriteHost(a)
  <2> DEFINE r == [act[a] EXCEPT !.pc = "unlock", !.host = made + 1]
  <2>0. made + 1 \in Nat
    BY Has
  <2>1. /\ r \in Acts /\ r.pc = "unlock" /\ r.cred = act[a].cred /\ r.prev = act[a].prev
        /\ r.host = made + 1 /\ r.models = act[a].models
    BY <2>0, Has DEF Acts, Places
  <2>2. act' = [act EXCEPT ![a] = r]
    BY <1>5 DEF WriteHost
  <2> HIDE DEF r
  <2> QED BY <1>5, <2>1, <2>2, WriteHostStep DEF WriteHost
<1>6. CASE Unlock(a)
  <2>0. act[a].pc = "unlock" => act[a].host # 0
    BY DEF AuthInvariant, HostOK
  <2>1. CASE act[a].pc = "unlock"
    <3> DEFINE r == [act[a] EXCEPT !.pc = "client"]
    <3>1. r \in Acts /\ r.pc = "client" /\ r.cred = act[a].cred /\ r.prev = act[a].prev
          /\ r.host = act[a].host /\ r.models = act[a].models
      BY Has, Records DEF Acts, Places
    <3>2. act' = [act EXCEPT ![a] = r]
      BY <1>6, <2>0, <2>1 DEF Unlock, Goto
    <3> HIDE DEF r
    <3>3. Walks(a, r)
      BY <1>6, <2>0, <2>1, <3>1, <3>2, Has, Records DEF Unlock, Goto, Walks,
         Section, Under, files, server, history, bounds, Unwritten
    <3> QED BY <3>1, <3>3, WalkStep
  <2>2. CASE act[a].pc # "unlock"
    <3>1. Leaves(a)
      BY <1>6, <2>2, Has DEF Unlock, Leaves, Under, Unwritten, history
    <3> QED BY <3>1, LeaveStep
  <2> QED BY <2>1, <2>2
<1> QED BY <1>1, <1>2, <1>3, <1>4, <1>5, <1>6 DEF Start, Host

\* Login, logout and the storing of a key.
LEMMA LoginStep ==
    ASSUME AuthInvariant, NEW a \in Actors, a \in Commands, Login(a)
    PROVE  AuthInvariant'
<1>1. CASE Ends(a) /\ UNCHANGED <<files, server, reused, lost, bounds>>
  <2>1. act[a].pc # "answered" /\ (overlap' = overlap \/ overlap' = (overlap \/ Overlaps(a)))
    BY DEF Login, LoginClient, Authorize, Exchange, LoginChecks, LoginSaves, Replace, history
  <2> QED BY <1>1, <2>1, EndsStep
<1>2. CASE LoginClient(a) /\ UNCHANGED lock
             /\ act' = [act EXCEPT ![a] = [@ EXCEPT !.pc = "browser", !.prev = stored]]
  <2> DEFINE r == [act[a] EXCEPT !.pc = "browser", !.prev = stored]
  <2>1. r \in Acts /\ r.pc = "browser" /\ r.cred = act[a].cred /\ r.prev = stored
        /\ r.host = act[a].host /\ r.models = act[a].models
    BY Has, Records DEF Acts, Places
  <2>2. act' = [act EXCEPT ![a] = r]
    BY <1>2 DEF LoginClient
  <2> HIDE DEF r
  <2>3. Walks(a, r)
    BY <1>2, <2>1, <2>2, Has, Records DEF LoginClient, Walks,
       Section, Under, files, server, history, bounds, AuthInvariant, HostOK
  <2> QED BY <2>1, <2>3, WalkStep
<1>3. CASE Authorize(a) /\ Goto(a, "exchange") /\ UNCHANGED lock
  <2> DEFINE r == [act[a] EXCEPT !.pc = "exchange"]
  <2>1. r \in Acts /\ r.pc = "exchange" /\ r.cred = act[a].cred /\ r.prev = act[a].prev
        /\ r.host = act[a].host /\ r.models = act[a].models
    BY Has, Records DEF Acts, Places
  <2>2. act' = [act EXCEPT ![a] = r]
    BY <1>3 DEF Authorize, Goto
  <2> HIDE DEF r
  <2>3. Walks(a, r)
    BY <1>3, <2>1, <2>2, Has, Records DEF Authorize, Goto, Walks,
       Section, Under, files, server, history, bounds, AuthInvariant, HostOK
  <2> QED BY <2>1, <2>3, WalkStep
<1>4. ASSUME NEW q \in Registrations, NEW p \in BOOLEAN, Exchange(a),
             Issue(q, act[a].host, p, Len(grants) + 1), UNCHANGED lock,
             act' = [act EXCEPT ![a] = [@ EXCEPT !.pc = "login", !.cred = OAuth(Len(grants) + 1),
                                                 !.prev = NoCredential, !.host = 0]]
      PROVE  AuthInvariant'
  <2> DEFINE r == [act[a] EXCEPT !.pc = "login", !.cred = OAuth(Len(grants) + 1),
                                 !.prev = NoCredential, !.host = 0]
             g == [registration |-> q, host |-> act[a].host, plan |-> p,
                   refresh |-> Len(grants) + 1, due |-> FALSE]
  <2>0. act[a] \in Acts /\ NoCredential \in Credentials /\ OAuth(Len(grants) + 1) \in Credentials
    BY Typed, Records DEF AuthInvariant
  <2>1. /\ r \in Acts /\ r.pc = "login" /\ r.cred = OAuth(Len(grants) + 1)
        /\ r.prev = NoCredential /\ r.host = 0 /\ r.models = act[a].models
    BY <2>0 DEF Acts, Places
  <2>2. act' = [act EXCEPT ![a] = r]
    BY <1>4
  <2>3. g \in Grants /\ g.host = act[a].host /\ g.refresh = Len(grants) + 1
    BY Typed DEF Grants, AuthInvariant
  <2>4. grants' = Append(grants, g)
    BY <1>4 DEF Issue
  <2> HIDE DEF r, g
  <2>5. Grows(g)
    BY <2>3, <2>4 DEF Grows, AuthInvariant, TypeOK
  <2> QED BY <1>4, <2>1, <2>2, <2>3, <2>5, ExchangeStep DEF Exchange
<1>5. CASE LoginChecks(a) /\ Goto(a, "save") /\ UNCHANGED lock
           /\ (stored.type = "oauth" => SameRegistration(stored, act[a].cred))
  <2> DEFINE r == [act[a] EXCEPT !.pc = "save"]
  <2>1. /\ r \in Acts /\ r.pc = "save" /\ r.cred = act[a].cred /\ r.prev = act[a].prev
        /\ r.host = act[a].host /\ r.models = act[a].models
    BY Has, Records DEF Acts, Places
  <2>2. act' = [act EXCEPT ![a] = r]
    BY <1>5 DEF Goto
  <2> HIDE DEF r
  <2> QED BY <1>5, <2>1, <2>2, CheckStep DEF LoginChecks
<1>6. CASE LoginSaves(a) /\ stored' = act[a].cred /\ Goto(a, "clear") /\ UNCHANGED lock
  <2> DEFINE r == [act[a] EXCEPT !.pc = "clear"]
  <2>1. /\ r \in Acts /\ r.pc = "clear" /\ r.cred = act[a].cred /\ r.prev = act[a].prev
        /\ r.host = act[a].host /\ r.models = act[a].models
    BY Has, Records DEF Acts, Places
  <2>2. act' = [act EXCEPT ![a] = r]
    BY <1>6 DEF Goto
  <2> HIDE DEF r
  <2> QED BY <1>6, <2>1, <2>2, LoginSavesStep DEF LoginSaves
<1>7. CASE Replace(a) /\ stored' \in {APIKey, NoCredential} /\ Goto(a, "clear") /\ UNCHANGED lock
  <2> DEFINE r == [act[a] EXCEPT !.pc = "clear"]
  <2>1. /\ r \in Acts /\ r.pc = "clear" /\ r.cred = act[a].cred /\ r.prev = act[a].prev
        /\ r.host = act[a].host /\ r.models = act[a].models
    BY Has, Records DEF Acts, Places
  <2>2. act' = [act EXCEPT ![a] = r]
    BY <1>7 DEF Goto
  <2> HIDE DEF r
  <2> QED BY <1>7, <2>1, <2>2, ReplaceStep DEF Replace
<1>8. CASE LoginClient(a)
  BY <1>1, <1>2, <1>8 DEF LoginClient, history
<1>9. CASE Authorize(a)
  BY <1>1, <1>3, <1>9 DEF Authorize, history
<1>10. CASE Exchange(a)
  BY <1>1, <1>4, <1>10 DEF Exchange, history, server
<1>11. CASE LoginChecks(a)
  BY <1>1, <1>5, <1>11 DEF LoginChecks
<1>12. CASE LoginSaves(a)
  BY <1>1, <1>6, <1>12 DEF LoginSaves, files, history
<1>13. CASE Replace(a)
  BY <1>1, <1>7, <1>13 DEF Replace, files
<1> QED BY <1>8, <1>9, <1>10, <1>11, <1>12, <1>13 DEF Login

\* Discovery and the catalog.
LEMMA CatalogStep ==
    ASSUME AuthInvariant, NEW a \in Actors, a \in Commands, Catalog(a)
    PROVE  AuthInvariant'
<1>1. CASE ClearCatalog(a)
  <2>1. CASE Ends(a)
    <3>1. Leaves(a)
      BY <1>1, <2>1, Records, Has DEF ClearCatalog, Leaves, Under, history
    <3> QED BY <3>1, LeaveStep
  <2>2. CASE act' = [act EXCEPT ![a] = [@ EXCEPT !.pc = "reload", !.models = NoCatalog]]
             /\ catalog' = NoCatalog /\ UNCHANGED lock
    <3> DEFINE r == [act[a] EXCEPT !.pc = "reload", !.models = NoCatalog]
    <3>1. r \in Acts /\ r.pc = "reload" /\ r.cred = act[a].cred /\ r.prev = act[a].prev
          /\ r.host = act[a].host /\ r.models = NoCatalog
      BY Has, Records DEF Acts, Places
    <3>2. act' = [act EXCEPT ![a] = r]
      BY <2>2
    <3> HIDE DEF r
    <3>3. Walks(a, r)
      BY <1>1, <2>2, <3>1, <3>2, Has, Records DEF ClearCatalog, Walks, Section, Under,
         server, history, bounds
    <3> QED BY <3>1, <3>3, WalkStep
  <2> QED BY <1>1, <2>1, <2>2 DEF ClearCatalog
<1>2. CASE ListModels(a)
  <2>1. CASE stored.type = "oauth"
    <3> DEFINE r == [act[a] EXCEPT !.pc = "want", !.models = NoCatalog]
    <3>1. r \in Acts /\ r.pc = "want" /\ r.cred = act[a].cred /\ r.prev = act[a].prev
          /\ r.host = act[a].host /\ r.models = NoCatalog
      BY Has, Records DEF Acts, Places
    <3>2. act' = [act EXCEPT ![a] = r]
      BY <1>2, <2>1 DEF ListModels
    <3> HIDE DEF r
    <3>3. Walks(a, r)
      BY <1>2, <2>1, <3>1, <3>2, Has, Records DEF ListModels, Walks,
         Section, Under, files, server, history, bounds
    <3> QED BY <3>1, <3>3, WalkStep
  <2>2. CASE stored.type # "oauth"
    <3> DEFINE r == [Idle EXCEPT !.pc = "shown", !.models = Static]
    <3>1. r \in Acts /\ r.pc = "shown" /\ r.cred = NoCredential /\ r.prev = NoCredential
          /\ r.host = 0 /\ r.models = Static
      BY Has, Records DEF Acts, Places
    <3>2. act' = [act EXCEPT ![a] = r]
      BY <1>2, <2>2 DEF ListModels
    <3> HIDE DEF r
    <3>3. Walks(a, r)
      BY <1>2, <2>2, <3>1, <3>2, Has, Records DEF ListModels, Walks,
         Section, Under, files, server, history, bounds
    <3> QED BY <3>1, <3>3, WalkStep
  <2> QED BY <2>1, <2>2
<1>3. CASE Recheck(a)
  <2>0. act[a].cred.type = "oauth"
    BY <1>3 DEF Recheck, AuthInvariant, ActorOK
  <2>1. CASE Ends(a)
    BY <1>3, <2>1, EndsStep DEF Recheck, history
  <2>2. CASE /\ stored.type = "oauth" /\ SameRegistration(stored, act[a].cred) /\ UNCHANGED lock
             /\ act' = [act EXCEPT ![a] = [@ EXCEPT !.pc = "publish", !.prev = stored]]
    <3> DEFINE r == [act[a] EXCEPT !.pc = "publish", !.prev = stored]
    <3>1. r \in Acts /\ r.pc = "publish" /\ r.cred = act[a].cred /\ r.prev = stored
          /\ r.host = act[a].host /\ r.models = act[a].models
      BY Has, Records DEF Acts, Places
    <3>2. act' = [act EXCEPT ![a] = r]
      BY <1>3, <2>0, <2>2 DEF Recheck
    <3> HIDE DEF r
    <3>3. Walks(a, r)
      BY <1>3, <2>0, <2>2, <3>1, <3>2, Has, Records DEF Recheck, Walks,
         Section, Under, files, server, history, bounds
    <3> QED BY <3>1, <3>3, WalkStep
  <2> QED BY <1>3, <2>1, <2>2 DEF Recheck
<1>4. CASE Publish(a)
  <2> DEFINE c == [NoCatalog EXCEPT !.label = {Registration(act[a].prev)},
                                    !.of = {Registration(act[a].cred)}]
             r == [Idle EXCEPT !.pc = "shown", !.models = c]
  <2>1. CASE Ends(a) /\ UNCHANGED catalog
    BY <1>4, <2>1, EndsStep DEF Publish, files, history
  <2>2. CASE catalog' = c /\ act' = [act EXCEPT ![a] = r] /\ UNCHANGED lock
    <3>1. /\ Registration(act[a].prev) = Registration(act[a].cred)
          /\ Registration(act[a].cred) \in Registrations
      BY <1>4, Typed DEF Publish, AuthInvariant, ActorOK, SameRegistration, Registration
    <3>2. c \in Catalogs /\ c.label = c.of
      BY <3>1 DEF Catalogs, NoCatalog
    <3>3. catalog' = c /\ act' = [act EXCEPT ![a] = r]
      BY <2>2
    <3> HIDE DEF c
    <3>4. /\ r \in Acts /\ r.pc = "shown" /\ r.cred = NoCredential /\ r.prev = NoCredential
          /\ r.host = 0 /\ r.models = c
      BY <3>2, Records DEF Acts, Places
    <3> HIDE DEF r
    <3>5. Walks(a, r)
      BY <1>4, <2>2, <3>2, <3>3, <3>4, Has, Records DEF Publish, Walks, Section, Under,
         server, history, bounds
    <3> QED BY <3>4, <3>5, WalkStep
  <2> QED BY <1>4, <2>1, <2>2 DEF Publish
<1>5. CASE ReloadCatalog(a)
  <2>1. CASE Ends(a)
    BY <1>5, <2>1, EndsStep DEF ReloadCatalog, history
  <2>2. CASE act' = [act EXCEPT ![a] = [@ EXCEPT !.pc = "models",
                                                 !.models = LoadedCatalog(stored, catalog)]]
             /\ UNCHANGED lock
    <3> DEFINE m == LoadedCatalog(stored, catalog)
               r == [act[a] EXCEPT !.pc = "models", !.models = m]
    <3>1. m \in Catalogs /\ m.label = m.of
      BY Loaded, Records DEF AuthInvariant, TypeOK, AccountsDoNotMix
    <3>2. act' = [act EXCEPT ![a] = r]
      BY <2>2
    <3> HIDE DEF m
    <3>3. /\ r \in Acts /\ r.pc = "models" /\ r.cred = act[a].cred /\ r.prev = act[a].prev
          /\ r.host = act[a].host /\ r.models = m
      BY <3>1, Typed DEF AuthInvariant, TypeOK, Acts, Places
    <3> HIDE DEF r
    <3>4. Walks(a, r)
      BY <1>5, <2>2, <3>1, <3>2, <3>3, Has, Records DEF ReloadCatalog, Walks, Section, Under,
         files, server, history, bounds
    <3> QED BY <3>3, <3>4, WalkStep
  <2> QED BY <1>5, <2>1, <2>2 DEF ReloadCatalog
<1> QED BY <1>1, <1>2, <1>3, <1>4, <1>5 DEF Catalog

\* Types and the inductive invariant, for any number of conversations, commands,
\* accounts and grants (Manager, HostStore, OAuthClient).
THEOREM AuthCorrect == Spec => []AuthInvariant
<1>1. Init => AuthInvariant
  <2> SUFFICES ASSUME Init PROVE AuthInvariant
    OBVIOUS
  <2>1. \A a \in Actors : act[a] = Idle
    BY DEF Init
  <2>2. TypeOK
    <3>1. act \in [Actors -> Acts]
      BY Records DEF Init
    <3>2. grants \in Seq(Grants) /\ Len(grants) = 0
      BY DEF Init
    <3>3. spent \subseteq 1..Len(grants) /\ \A i \in 1..Len(grants) : grants[i].refresh \in 1..i
      BY <3>2 DEF Init
    <3>4. \A a \in Actors : Issued(act[a].cred) /\ Issued(act[a].prev)
      BY <2>1, Records DEF Issued
    <3> QED BY <3>1, <3>2, <3>3, <3>4, Records DEF Init, TypeOK, Issued
  <2>3. ActorOK /\ LockOK /\ SectionOK /\ LoginOK
    BY <2>1, Records DEF Init, ActorOK, LockOK, SectionOK, LoginOK, Section, Actors
  <2>4. TokensOK /\ HostOK
    BY <2>1, Records DEF Init, TokensOK, HostOK, HostIDIsOne, Under
  <2>5. AccountsDoNotMix
    BY <2>1, Records DEF Init, AccountsDoNotMix, Actors
  <2> QED BY <2>2, <2>3, <2>4, <2>5 DEF AuthInvariant
<1>2. AuthInvariant /\ [Next]_vars => AuthInvariant'
  <2> SUFFICES ASSUME AuthInvariant, [Next]_vars PROVE AuthInvariant'
    OBVIOUS
  <2>1. CASE TimePasses
    <3>1. /\ grants' \in Seq(Grants) /\ Len(grants') = Len(grants)
          /\ \A i \in 1..Len(grants) : /\ grants'[i].registration = grants[i].registration
                                       /\ grants'[i].host = grants[i].host
                                       /\ grants'[i].refresh = grants[i].refresh
      <4> DEFINE g == [grants[stored.grant] EXCEPT !.due = TRUE]
      <4>1. stored.grant \in 1..Len(grants) /\ grants[stored.grant] \in Grants
        BY <2>1, Typed DEF TimePasses, AuthInvariant
      <4>2. /\ g \in Grants /\ g.registration = grants[stored.grant].registration
            /\ g.host = grants[stored.grant].host /\ g.refresh = grants[stored.grant].refresh
        BY <4>1 DEF Grants
      <4>3. grants' = [grants EXCEPT ![stored.grant] = g]
        BY <2>1 DEF TimePasses
      <4> HIDE DEF g
      <4> QED BY <4>1, <4>2, <4>3 DEF AuthInvariant, TypeOK
    <3> QED BY <2>1, <3>1, DueStep DEF TimePasses
  <2>2. CASE Crash
    <3>1. PICK killed \in {Callers} \cup {{a} : a \in Commands} :
             /\ act' = [b \in Actors |-> IF b \in killed THEN Idle ELSE act[b]]
             /\ lock' = lock \ killed
             /\ lost' = (lost \/ \E b \in killed : act[b].pc = "answered" /\ Rotated(b))
      BY <2>2 DEF Crash
    <3>2. killed \subseteq Actors
      BY <3>1 DEF Actors
    <3>3. lost' = (lost \/ \E b \in killed \cap Actors : act[b].pc = "answered" /\ Rotated(b))
      BY <3>1, <3>2
    <3> QED BY <2>2, <3>1, <3>3, CrashStep DEF Crash
  <2>3. CASE UNCHANGED vars
    <3>1. Len(grants') = Len(grants) /\ grants' \in Seq(Grants) /\ grants' = grants
      BY <2>3 DEF vars, server, AuthInvariant, TypeOK
    <3> QED BY <2>3, <3>1, DueStep DEF vars, server
  <2>4. ASSUME NEW a \in Commands, Start(a) \/ Host(a) \/ Login(a) \/ Catalog(a)
        PROVE  AuthInvariant'
    BY <2>4, HostStep, LoginStep, CatalogStep DEF Actors
  <2> QED BY <2>1, <2>2, <2>3, <2>4, CredentialStep DEF Next
<1> QED BY <1>1, <1>2, PTL DEF Spec

\* However many conversations ask at once, no refresh token is presented twice,
\* unless processes overlapped or an answer was lost (Manager.GetCredential).
THEOREM SpentOnce == Spec => []GrantsSpentOnce
<1>1. AuthInvariant => GrantsSpentOnce
  BY DEF AuthInvariant, TokensOK, GrantsSpentOnce
<1> QED BY <1>1, AuthCorrect, PTL

\* One installation has one host ID, for any number of logins, and of commands
\* killed while they made it (HostStore.OpenAIHostID).
THEOREM OneHostID == Spec => []HostIDIsOne
<1>1. AuthInvariant => HostIDIsOne
  BY DEF AuthInvariant, HostOK
<1> QED BY <1>1, AuthCorrect, PTL

\* No catalog is ever taken for another account's (RefreshOpenAICatalog).
THEOREM NoMixing == Spec => []AccountsDoNotMix
<1>1. AuthInvariant => AccountsDoNotMix
  BY DEF AuthInvariant
<1> QED BY <1>1, AuthCorrect, PTL

\* An account is replaced by another only through a logout or a key, unless
\* processes overlapped (Manager.Login, OAuthClient.Exchange).
THEOREM NoSilentChange == Spec => AccountChangesByLogout
<1>1. AuthInvariant /\ [Next]_vars =>
        [stored.type = "oauth" /\ stored'.type = "oauth" =>
           SameRegistration(stored, stored') \/ overlap']_vars
  <2> SUFFICES ASSUME AuthInvariant, Next, stored.type = "oauth", stored'.type = "oauth", ~overlap'
               PROVE  SameRegistration(stored, stored')
    OBVIOUS
  <2>1. CASE stored' = stored
    BY <2>1 DEF SameRegistration
  <2>2. ASSUME NEW a \in Actors, Answer(a), stored' = act[a].cred
        PROVE  SameRegistration(stored, stored')
    <3>1. act[a].prev = stored /\ SameRegistration(act[a].prev, act[a].cred)
      BY <2>2 DEF Answer, AuthInvariant, SectionOK, ActorOK
    <3> QED BY <2>2, <3>1
  <2>3. ASSUME NEW a \in Actors, LoginSaves(a), stored' = act[a].cred
        PROVE  SameRegistration(stored, stored')
    <3>1. SameRegistration(stored, act[a].cred)
      BY <2>3 DEF LoginSaves, AuthInvariant, SectionOK, history
    <3> QED BY <2>3, <3>1
  <2>4. ASSUME NEW a \in Commands, Login(a) PROVE SameRegistration(stored, stored')
    <3>1. a \in Actors
      BY DEF Actors
    <3>2. CASE LoginSaves(a)
      BY <2>1, <2>3, <3>1, <3>2 DEF LoginSaves
    <3>3. CASE Replace(a)
      BY <2>1, <3>3, Records DEF Replace
    <3> QED BY <2>1, <2>4, <3>2, <3>3 DEF Login, LoginClient, Authorize, Exchange, LoginChecks,
               files
  <2>5. ASSUME NEW a \in Actors, Credential(a) PROVE SameRegistration(stored, stored')
    BY <2>1, <2>2, <2>5 DEF Credential, Call, Resolve, Refresh, Answer, files
  <2>6. ASSUME NEW a \in Commands, Start(a) \/ Host(a) \/ Catalog(a)
        PROVE  stored' = stored
    BY <2>6 DEF Start, Host, ReadHost, MakeLock, RereadHost, WriteHost, Unlock, Catalog,
       ClearCatalog, ReloadCatalog, ListModels, Recheck, Publish, files, Unwritten
  <2>7. TimePasses \/ Crash => stored' = stored
    BY DEF TimePasses, Crash, files
  <2> QED BY <2>1, <2>4, <2>5, <2>6, <2>7 DEF Next
<1> QED BY <1>1, AuthCorrect, PTL DEF Spec, AccountChangesByLogout
=============================================================================
