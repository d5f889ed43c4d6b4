------------------------------ MODULE CliProofs ------------------------------
(***************************************************************************)
(* What holds of the command line tool for any number of invocations,      *)
(* whatever they are asked to do.                                          *)
(***************************************************************************)
EXTENDS Cli, SequenceTheorems, TLAPS

\* Where an invocation holds the lock file.
Locked == {"read", "write", "unlock"}

\* Where an edit is on its way.
Editing == {"try", "break"} \cup Locked

\* Who is on the way to an edit has been asked for one.
Editors == \A i \in Invocations : at[i] \in Editing => Edits(i)

\* Where an invocation is no more.
Gone == {"dead", "exit"}

\* The lock file is its holder's, until that is gone; only then does it grow old, and
\* only then is it broken.  It outlives its holder by a fault.
Guarded ==
    /\ \A i \in Invocations : at[i] \in Locked => lock = i
    /\ lock # None => at[lock] \in Locked \cup Gone
    /\ stale => lock # None /\ at[lock] \in Gone
    /\ \A i \in Invocations : at[i] = "break" => lock # None /\ at[lock] \in Gone
    /\ lock # None => Edits(lock)
    /\ Faults = {} /\ lock # None => at[lock] \in Locked

\* What is about to be written is made of what is in the file still.
Fresh ==
    \A i \in Invocations : at[i] = "write" =>
        Possible(job[i], doc) /\ edited[i].agent = Edited(job[i], doc).agent

SerialInv == TypeOK /\ Editors /\ Guarded /\ Fresh /\ AgreementSerial

\* Two of them edit at most.
TwoEdit ==
    \E a, b \in Invocations : \A i \in Invocations :
        (\E wish \in Jobs[i] : wish.do # "send") => i \in {a, b}

-----------------------------------------------------------------------------
(* Types.                                                                  *)

\* The words in the files and in the wishes.
LEMMA TermsAre ==
    /\ {"brief", "kept", "phones"} \subseteq Terms
    /\ \A i \in Invocations : Jobs[i] \subseteq Wishes
    /\ \A wish \in Wishes : wish.do \in {"add", "output", "set", "rm"} => wish.what \in Terms
  BY DEF Wishes, Terms

\* What a file is made of.
LEMMA FileOf ==
    ASSUME NEW rules \in Seq(Terms), NEW output \in Terms, NEW groups \in SUBSET Terms
    PROVE  [agent |-> [rules |-> rules, output |-> output], groups |-> groups] \in Files
  <1>1. [rules |-> rules, output |-> output] \in [rules : Seq(Terms), output : Terms]
    OBVIOUS
  <1> QED  BY <1>1 DEF Files

LEMMA NoRules == <<>> \in Seq(Terms) /\ IsInjective(<<>>)
  <1>1. <<>> \in Seq(Terms) /\ DOMAIN <<>> = {}
    OBVIOUS
  <1> QED  BY <1>1 DEF IsInjective

LEMMA BlankIs == Blank \in Files /\ IsInjective(Blank.agent.rules)
  <1>1. Blank = [agent |-> [rules |-> <<>>, output |-> "brief"], groups |-> {}]
    BY DEF Blank
  <1>2. Blank.agent.rules = <<>>
    BY <1>1
  <1>3. Blank \in Files
    <2>1. "brief" \in Terms /\ {} \in SUBSET Terms
      BY TermsAre
    <2>2. PICK r, o, g : r = <<>> /\ o = "brief" /\ g = {}
      OBVIOUS
    <2>3. [agent |-> [rules |-> r, output |-> o], groups |-> g] \in Files
      BY <2>1, <2>2, NoRules, FileOf
    <2> QED  BY <1>1, <2>2, <2>3
  <1> QED  BY <1>2, <1>3, NoRules

\* An edit makes a file of a file, and lists no rule twice.
LEMMA EditTypes ==
    ASSUME NEW i \in Invocations, NEW wish \in Jobs[i], wish.do # "send",
           NEW file \in Files, Possible(wish, file), IsInjective(file.agent.rules)
    PROVE  Edited(wish, file) \in Files /\ IsInjective(Edited(wish, file).agent.rules)
  <1>1. PICK rules, output, groups :
           /\ file = [agent |-> [rules |-> rules, output |-> output], groups |-> groups]
           /\ rules \in Seq(Terms) /\ output \in Terms /\ groups \in SUBSET Terms
           /\ IsInjective(rules)
    BY DEF Files
  <1>2. wish.do \in {"add", "remove", "output", "reset", "set", "rm"}
    BY CliAssumption
  <1>3. CASE wish.do = "add"
    <2>1. wish.what \in Terms
      BY <1>3, TermsAre
    <2>2. Append(rules, wish.what) \in Seq(Terms)
      BY <1>1, <2>1
    <2>3. IsInjective(Append(rules, wish.what))
      <3>1. \A k \in 1 .. Len(rules) : rules[k] # wish.what
        BY <1>1, <1>3 DEF Possible, Contains
      <3> QED  BY <1>1, <2>1, <3>1 DEF IsInjective
    <2>4. Edited(wish, file) = [agent |-> [rules |-> Append(rules, wish.what), output |-> output], groups |-> groups]
      BY <1>1, <1>3 DEF Edited
    <2>5. Edited(wish, file).agent.rules = Append(rules, wish.what)
      BY <2>4
    <2>6. Edited(wish, file) \in Files
      BY <1>1, <2>2, <2>4, FileOf
    <2> QED  BY <2>3, <2>5, <2>6
  <1>4. CASE wish.do = "remove"
    <2>1. wish.what \in 1 .. Len(rules)
      BY <1>1, <1>4 DEF Possible
    <2>2. PICK rest : rest = RemoveAt(rules, wish.what)
      OBVIOUS
    <2>3. rest \in Seq(Terms) /\ IsInjective(rest)
      <3>1. PICK n, l, r, k : /\ n = Len(rules) /\ k = wish.what
                              /\ l = SubSeq(rules, 1, k - 1) /\ r = SubSeq(rules, k + 1, n)
        OBVIOUS
      <3>2. n \in Nat /\ k \in 1 .. n /\ DOMAIN rules = 1 .. n
        BY <1>1, <2>1, <3>1
      <3>3. l \in Seq(Terms) /\ Len(l) = k - 1 /\ \A x \in 1 .. k - 1 : l[x] = rules[x]
        BY <1>1, <3>1, <3>2
      <3>4. r \in Seq(Terms) /\ Len(r) = n - k /\ \A x \in 1 .. n - k : r[x] = rules[k + x]
        BY SMTT(30), <1>1, <3>1, <3>2
      <3>5. rest = l \o r
        BY <2>2, <3>1 DEF RemoveAt
      <3>6. /\ rest \in Seq(Terms) /\ DOMAIN rest = 1 .. n - 1
            /\ \A x \in 1 .. n - 1 : rest[x] = IF x < k THEN l[x] ELSE r[x - k + 1]
        BY <3>2, <3>3, <3>4, <3>5
      <3>7. ASSUME NEW x \in 1 .. n - 1
            PROVE  rest[x] = rules[IF x < k THEN x ELSE x + 1]
        <4>1. CASE x < k
          BY <3>2, <3>3, <3>6, <4>1
        <4>2. CASE ~(x < k)
          <5>1. x - k + 1 \in 1 .. n - k /\ k + (x - k + 1) = x + 1
            BY <3>2, <4>2
          <5> QED  BY <3>4, <3>6, <4>2, <5>1
        <4> QED  BY <4>1, <4>2
      <3>8. ASSUME NEW x \in 1 .. n - 1, NEW y \in 1 .. n - 1, rest[x] = rest[y]
            PROVE  x = y
        <4>1. PICK u, v : u = (IF x < k THEN x ELSE x + 1) /\ v = (IF y < k THEN y ELSE y + 1)
          OBVIOUS
        <4>2. u \in DOMAIN rules /\ v \in DOMAIN rules
          BY <3>2, <4>1
        <4>3. rules[u] = rules[v]
          BY <3>7, <3>8, <4>1
        <4>4. u = v
          BY <1>1, <4>2, <4>3 DEF IsInjective
        <4> QED  BY <3>2, <4>1, <4>4
      <3> QED  BY <3>6, <3>8 DEF IsInjective
    <2>4. Edited(wish, file) = [agent |-> [rules |-> rest, output |-> output], groups |-> groups]
      BY <1>1, <1>4, <2>2 DEF Edited
    <2> QED  BY <1>1, <2>3, <2>4 DEF Files
  <1>5. CASE wish.do = "output"
    <2>1. Edited(wish, file) = [agent |-> [rules |-> rules, output |-> wish.what], groups |-> groups]
      BY <1>1, <1>5 DEF Edited
    <2> QED  BY <1>1, <1>5, <2>1, TermsAre DEF Files
  <1>6. CASE wish.do = "reset"
    <2>1. Edited(wish, file) = [agent |-> Blank.agent, groups |-> groups]
      BY <1>1, <1>6 DEF Edited
    <2>2. PICK a : a = Blank.agent
      OBVIOUS
    <2>3. a \in [rules : Seq(Terms), output : Terms] /\ IsInjective(a.rules)
      BY <2>2, BlankIs DEF Files
    <2> QED  BY <1>1, <2>1, <2>2, <2>3 DEF Files
  <1>7. CASE wish.do \in {"set", "rm"}
    <2>1. \E g \in SUBSET Terms :
             Edited(wish, file) = [agent |-> [rules |-> rules, output |-> output], groups |-> g]
      BY <1>1, <1>7, TermsAre DEF Edited
    <2> QED  BY <1>1, <2>1 DEF Files
  <1> QED  BY <1>2, <1>3, <1>4, <1>5, <1>6, <1>7

\* The groups come from what was loaded, the agreement from what is read now.
LEMMA ChangeIs ==
    ASSUME NEW i \in Invocations, job[i] \in Jobs[i], Edits(i), loaded[i] \in SUBSET Terms,
           NEW now \in Files, Possible(job[i], now), IsInjective(now.agent.rules)
    PROVE  /\ Change(i, now) \in Files
           /\ Change(i, now).agent = Edited(job[i], now).agent
           /\ IsInjective(Change(i, now).agent.rules)
  <1>1. CASE job[i].do \in {"set", "rm"}
    <2>1. PICK was : was = [now EXCEPT !.groups = loaded[i]]
      OBVIOUS
    <2>2. was \in Files /\ was.agent = now.agent
      BY <2>1 DEF Files
    <2>3. Edited(job[i], was) \in Files
      BY <1>1, <2>2, EditTypes DEF Edits, Possible
    <2>4. PICK g : g = Edited(job[i], was).groups
      OBVIOUS
    <2>5. Change(i, now) = [now EXCEPT !.groups = g]
      BY <1>1, <2>1, <2>4 DEF Change
    <2>6. g \in SUBSET Terms
      BY <2>3, <2>4 DEF Files
    <2>7. Change(i, now) \in Files /\ Change(i, now).agent = now.agent
      BY <2>5, <2>6 DEF Files
    <2>8. Edited(job[i], now).agent = now.agent
      BY <1>1 DEF Edited, Files
    <2> QED  BY <2>7, <2>8
  <1>2. CASE job[i].do \notin {"set", "rm"}
    <2>1. Change(i, now) = Edited(job[i], now)
      BY <1>2 DEF Change
    <2> QED  BY <2>1, EditTypes DEF Edits
  <1> QED  BY <1>1, <1>2

\* What an edit makes of the agreement is decided by the agreement.
LEMMA AgreementAlone ==
    ASSUME NEW i \in Invocations, NEW wish \in Jobs[i], wish.do # "send",
           NEW f \in Files, NEW g \in Files, f.agent = g.agent
    PROVE  /\ Possible(wish, f) <=> Possible(wish, g)
           /\ Edited(wish, f).agent = Edited(wish, g).agent
  <1>1. Possible(wish, f) <=> Possible(wish, g)
    BY DEF Possible
  <1>2. wish.do \in {"add", "remove", "output", "reset", "set", "rm"}
    BY CliAssumption
  <1>3. PICK a, k, l : /\ a \in [rules : Seq(Terms), output : Terms]
                       /\ f = [agent |-> a, groups |-> k] /\ g = [agent |-> a, groups |-> l]
    BY DEF Files
  <1>4. Edited(wish, f).agent = Edited(wish, g).agent
    BY <1>2, <1>3 DEF Edited
  <1> QED  BY <1>1, <1>4

LEMMA CliTypesInit == Init => TypeOK
  <1> SUFFICES ASSUME Init PROVE TypeOK
    OBVIOUS
  <1>1. PICK r, o, g : r = <<"kept">> /\ o = "brief" /\ g = {"phones"}
    OBVIOUS
  <1>2. ASSUME doc = [agent |-> [rules |-> <<"kept">>, output |-> "brief"], groups |-> {"phones"}]
        PROVE  doc \in Files /\ IsInjective(doc.agent.rules)
    <2>1. "kept" \in Terms /\ o \in Terms /\ g \in SUBSET Terms
      BY <1>1, TermsAre
    <2>2. r \in Seq(Terms) /\ IsInjective(r)
      <3>1. r = [k \in 1 .. 1 |-> "kept"]
        BY <1>1
      <3>2. r \in Seq(Terms) /\ DOMAIN r = 1 .. 1
        BY <2>1, <3>1, IsASeq
      <3> QED  BY <3>2 DEF IsInjective
    <2>3. doc = [agent |-> [rules |-> r, output |-> o], groups |-> g]
      BY <1>1, <1>2
    <2>4. doc \in Files
      BY <2>1, <2>2, <2>3, FileOf
    <2>5. doc.agent.rules = r
      BY <2>3
    <2>6. IsInjective(doc.agent.rules)
      BY <2>2, <2>5
    <2> QED  BY <2>4, <2>6
  <1>3. doc \in Files /\ IsInjective(doc.agent.rules)
    <2>1. CASE doc = Blank
      BY <2>1, BlankIs
    <2>2. CASE doc # Blank
      <3>1. doc = [agent |-> [rules |-> <<"kept">>, output |-> "brief"], groups |-> {"phones"}]
        BY <2>2 DEF Init
      <3> QED  BY <1>2, <3>1
    <2> QED  BY <2>1, <2>2
  <1>4. edited \in [Invocations -> Files] /\ \A i \in Invocations : IsInjective(edited[i].agent.rules)
    BY BlankIs DEF Init
  <1>5. /\ job \in [Invocations -> Wishes \cup {None}]
        /\ \A i \in Invocations : at[i] = "off"
    BY DEF Init
  <1>6. exit \in [Invocations -> (OK .. REJECTED) \cup {None}]
    BY DEF Init, OK, REJECTED
  <1> QED  BY <1>3, <1>4, <1>5, <1>6 DEF Init, TypeOK

\* The changes of types come from those who read and those who write.
LEMMA CliTypesStep ==
    ASSUME TypeOK, Editors, [Next]_vars
    PROVE  TypeOK'
  <1> DEFINE Codes == (OK .. REJECTED) \cup {None}
             Spots == {"off", "load", "try", "break", "read", "write", "unlock",
                       "check", "connect", "greet", "send", "writing", "wait",
                       "exit", "dead"}
             Said == {"none", "no node", "stranger", "stopped", "silent"}
  <1>0. TypeOK /\ at \in [Invocations -> Spots] /\ exit \in [Invocations -> Codes] /\ told \in [Invocations -> Said]
    BY DEF TypeOK
  <1>1. {OK, USAGE, NO_TARGET, PARTIAL, ALL_FAILED, NO_NODE, REJECTED} \subseteq Codes
    BY DEF OK, USAGE, NO_TARGET, PARTIAL, ALL_FAILED, NO_NODE, REJECTED
  <1> HIDE DEF Codes
  <1>2. ASSUME NEW i \in Invocations, Start(i)
        PROVE  TypeOK'
    <2>1. PICK wish \in Jobs[i] : job' = [job EXCEPT ![i] = wish]
      BY <1>2 DEF Start
    <2>2. at' = [at EXCEPT ![i] = "load"]
      BY <1>2 DEF Start, Go
    <2>3. job' \in [Invocations -> Wishes \cup {None}]
      BY <1>0, <2>1, TermsAre DEF TypeOK
    <2>4. at' \in [Invocations -> Spots]
      BY <1>0, <2>2
    <2>5. \A k \in Invocations : at'[k] # "off" => job'[k] \in Jobs[k]
      BY <1>0, <2>1, <2>2 DEF TypeOK
    <2>6. UNCHANGED <<exit, loaded, edited, doc, lock, stale, node, told, ideal>>
      BY <1>2 DEF Start, locks
    <2> QED  BY <1>0, <2>3, <2>4, <2>5, <2>6 DEF TypeOK, Spots
  \* The others leave the wishes alone, and none goes back to "off".
  <1>3. ASSUME UNCHANGED job,
               \/ at' = at
               \/ \E i \in Invocations, p \in Spots : at[i] # "off" /\ at' = [at EXCEPT ![i] = p],
               exit' = exit \/ \E i \in Invocations, c \in Codes : exit' = [exit EXCEPT ![i] = c],
               loaded' \in [Invocations -> SUBSET Terms] /\ edited' \in [Invocations -> Files],
               doc' \in Files /\ ideal' \in Files,
               /\ \A file \in {doc', ideal'} : IsInjective(file.agent.rules)
               /\ \A i \in Invocations : IsInjective(edited'[i].agent.rules),
               lock' \in Invocations \cup {None} /\ stale' \in BOOLEAN /\ (lock' = None => ~stale'),
               node' \in States /\ told' \in [Invocations -> Said]
        PROVE  TypeOK'
    <2>1. at' \in [Invocations -> Spots]
      BY <1>0, <1>3
    <2>3. exit' \in [Invocations -> Codes]
      BY <1>0, <1>3
    <2>2. \A k \in Invocations : at'[k] # "off" => job'[k] \in Jobs[k]
      BY <1>0, <1>3 DEF TypeOK
    <2> QED  BY ZenonT(60), <1>0, <1>3, <2>1, <2>2, <2>3 DEF TypeOK, Codes
  <1>4. /\ \A file \in {doc, ideal} : IsInjective(file.agent.rules)
        /\ \A i \in Invocations : IsInjective(edited[i].agent.rules)
        /\ doc \in Files /\ ideal \in Files /\ edited \in [Invocations -> Files]
        /\ loaded \in [Invocations -> SUBSET Terms]
    BY DEF TypeOK
  <1>5. ASSUME NEW i \in Invocations, Load(i)
        PROVE  TypeOK'
    <2>1. loaded' \in [Invocations -> SUBSET Terms]
      BY <1>4, <1>5 DEF Load, Files
    <2> QED  BY <1>0, <1>1, <1>3, <1>4, <1>5, <2>1 DEF Load, End, Go, Shared, locks, TypeOK
  <1>6. ASSUME NEW i \in Invocations, Try(i) \/ Break(i) \/ Unlock(i)
        PROVE  TypeOK'
    BY <1>0, <1>1, <1>3, <1>4, <1>6 DEF Try, Break, Unlock, Unlink, End, Go, Shared, locks, TypeOK
  <1>7. ASSUME NEW i \in Invocations, Read(i)
        PROVE  TypeOK'
    <2>1. at[i] = "read" /\ Edits(i) /\ job[i] \in Jobs[i]
      BY <1>0, <1>7 DEF Read, Editors, Editing, Locked, TypeOK
    <2>2. Possible(job[i], doc) => Change(i, doc) \in Files /\ IsInjective(Change(i, doc).agent.rules)
      BY <1>4, <2>1, ChangeIs
    <2>3. /\ edited' \in [Invocations -> Files]
          /\ \A k \in Invocations : IsInjective(edited'[k].agent.rules)
      BY <1>4, <1>7, <2>2 DEF Read
    <2> QED  BY <1>0, <1>1, <1>3, <1>4, <1>7, <2>3 DEF Read, Go, Shared, locks, TypeOK
  <1>8. ASSUME NEW i \in Invocations, Write(i)
        PROVE  TypeOK'
    <2>1. at[i] = "write" /\ Edits(i) /\ job[i] \in Jobs[i]
      BY <1>0, <1>8 DEF Write, Editors, Editing, Locked, TypeOK
    <2>2. ideal' \in Files /\ IsInjective(ideal'.agent.rules)
      BY <1>4, <1>8, <2>1, EditTypes DEF Write, Edits
    <2>3. doc' \in Files /\ IsInjective(doc'.agent.rules)
      BY <1>4, <1>8 DEF Write
    <2>5. /\ edited' \in [Invocations -> Files]
          /\ \A k \in Invocations : IsInjective(edited'[k].agent.rules)
      BY <1>4, <1>8, BlankIs DEF Write
    <2> QED  BY <1>0, <1>1, <1>3, <1>4, <1>8, <2>2, <2>3, <2>5 DEF Write, Go, locks, TypeOK
  <1>9. ASSUME NEW i \in Invocations, Check(i) \/ Connect(i) \/ Greet(i) \/ Send(i) \/ Answered(i) \/ GivesUp(i) \/ Die(i)
        PROVE  TypeOK'
    <2>1. /\ at[i] # "off"
          /\ \E p \in Spots : at' = [at EXCEPT ![i] = p]
      BY <1>9 DEF Check, Connect, Greet, Send, Answered, GivesUp, Die, End, Go
    <2>2. exit' = exit \/ \E c \in Codes : exit' = [exit EXCEPT ![i] = c]
      BY <1>1, <1>9 DEF Check, Connect, Greet, Send, Answered, GivesUp, Die, End
    <2>3. told' \in [Invocations -> Said]
      BY <1>0, <1>9 DEF Check, Connect, Greet, Send, Answered, GivesUp, Die
    <2>4. UNCHANGED <<job, loaded, edited, Shared, locks, node>>
      BY <1>9 DEF Check, Connect, Greet, Send, Answered, GivesUp, Die
    <2> QED  BY <1>0, <1>3, <1>4, <2>1, <2>2, <2>3, <2>4 DEF Shared, locks, TypeOK
  <1>10. CASE Age \/ NodeEnds \/ UNCHANGED vars
    <2>1. UNCHANGED <<job, at, exit, loaded, edited, Shared, lock, told>>
      BY <1>10 DEF Age, NodeEnds, vars, locks, Shared
    <2>2. stale' \in BOOLEAN /\ (lock = None => ~stale')
      <3>1. stale \in BOOLEAN /\ (lock = None => ~stale)
        BY DEF TypeOK
      <3>2. CASE Age
        BY <3>2 DEF Age
      <3>3. CASE NodeEnds \/ UNCHANGED vars
        BY <3>1, <3>3 DEF NodeEnds, vars, locks
      <3> QED  BY <1>10, <3>2, <3>3
    <2>3. node' \in States
      <3>1. node \in States
        BY DEF TypeOK
      <3>2. node' = node \/ node' \in States \cap {"down", "wedged"}
        BY <1>10 DEF Age, NodeEnds, vars
      <3> QED  BY <3>1, <3>2
    <2> QED  BY <1>0, <1>3, <1>4, <2>1, <2>2, <2>3 DEF Shared, TypeOK
  <1> QED  BY <1>2, <1>5, <1>6, <1>7, <1>8, <1>9, <1>10 DEF Next, Step

LEMMA EditorsStep ==
    ASSUME TypeOK, Editors, [Next]_vars
    PROVE  Editors'
  <1>1. at \in [Invocations -> {"off", "load", "try", "break", "read", "write", "unlock",
                                "check", "connect", "greet", "send", "writing", "wait",
                                "exit", "dead"}]
        /\ job \in [Invocations -> Wishes \cup {None}]
    BY DEF TypeOK
  <1>2. ASSUME NEW i \in Invocations, NEW p, at' = [at EXCEPT ![i] = p],
               \/ p \notin Editing /\ \A k \in Invocations \ {i} : job'[k] = job[k]
               \/ job' = job /\ Edits(i)
        PROVE  Editors'
    <2> SUFFICES ASSUME NEW k \in Invocations, at'[k] \in Editing
                 PROVE  job'[k].do # "send"
      BY DEF Editors, Edits
    <2>1. CASE k = i
      BY <1>1, <1>2, <2>1 DEF Edits
    <2>2. CASE k # i
      <3>1. at[k] \in Editing /\ job'[k] = job[k]
        BY <1>1, <1>2, <2>2
      <3> QED  BY <3>1 DEF Editors, Edits
    <2> QED  BY <2>1, <2>2
  <1>3. ASSUME NEW i \in Invocations, Start(i)
        PROVE  Editors'
    <2>1. \A k \in Invocations \ {i} : job'[k] = job[k]
      BY <1>1, <1>3 DEF Start
    <2>2. at' = [at EXCEPT ![i] = "load"] /\ "load" \notin Editing
      BY <1>3 DEF Start, Go, Editing, Locked
    <2> QED  BY <1>2, <2>1, <2>2
  <1>4. ASSUME NEW i \in Invocations, Load(i)
        PROVE  Editors'
    <2>1. \/ at' = [at EXCEPT ![i] = "exit"]
          \/ at' = [at EXCEPT ![i] = "try"] /\ Edits(i)
          \/ at' = [at EXCEPT ![i] = "check"]
      BY <1>4 DEF Load, End, Go
    <2>2. "exit" \notin Editing /\ "check" \notin Editing
      BY DEF Editing, Locked
    <2> QED  BY <1>2, <1>4, <2>1, <2>2 DEF Load
  <1>5. ASSUME NEW i \in Invocations, Try(i) \/ Break(i) \/ Read(i) \/ Write(i) \/ Unlock(i)
        PROVE  Editors'
    <2>1. Edits(i) /\ job' = job
      BY <1>5 DEF Editors, Editing, Locked, Try, Break, Read, Write, Unlock
    <2>2. \E p : at' = [at EXCEPT ![i] = p]
      BY <1>5 DEF Try, Break, Read, Write, Unlock, End, Go
    <2> QED  BY <1>2, <2>1, <2>2
  <1>6. ASSUME NEW i \in Invocations, Check(i) \/ Connect(i) \/ Greet(i) \/ Send(i) \/ Answered(i) \/ GivesUp(i) \/ Die(i)
        PROVE  Editors'
    <2>1. \E p \in {"connect", "greet", "send", "writing", "wait", "exit", "dead"} : at' = [at EXCEPT ![i] = p]
      BY <1>6 DEF Check, Connect, Greet, Send, Answered, GivesUp, Die, End, Go
    <2>2. {"connect", "greet", "send", "writing", "wait", "exit", "dead"} \cap Editing = {} /\ job' = job
      BY <1>6 DEF Check, Connect, Greet, Send, Answered, GivesUp, Die, Editing, Locked
    <2> QED  BY <1>2, <2>1, <2>2
  <1>7. CASE Age \/ NodeEnds \/ UNCHANGED vars
    BY <1>7 DEF Age, NodeEnds, vars, Editors, Edits
  <1> QED  BY <1>3, <1>4, <1>5, <1>6, <1>7 DEF Next, Step

\* Every variable has its type, and config.toml lists no rule twice.
THEOREM CliTypes == Spec => []TypeOK
  <1>1. Init => TypeOK /\ Editors
    BY CliTypesInit DEF Init, Editors, Editing, Locked
  <1>2. TypeOK /\ Editors /\ [Next]_vars => (TypeOK /\ Editors)'
    BY CliTypesStep, EditorsStep
  <1> QED  BY <1>1, <1>2, PTL DEF Spec

-----------------------------------------------------------------------------
(* The lock.                                                               *)

\* Somebody's step that leaves the lock alone.
LEMMA HoldsOn ==
    ASSUME TypeOK, Guarded, NEW i \in Invocations, NEW p, at' = [at EXCEPT ![i] = p],
           UNCHANGED <<lock, stale>>,
           \A k \in Invocations \ {i} : job'[k] = job[k],
           job' = job \/ at[i] = "off",
           p \in Locked => at[i] \in Locked,
           at[i] \in Locked => p \in Locked \cup {"dead"},
           at[i] \notin Gone,
           p = "break" => lock # None /\ stale,
           Faults = {} => p # "dead"
    PROVE  Guarded'
  <1>1. at \in [Invocations -> {"off", "load", "try", "break", "read", "write", "unlock",
                                "check", "connect", "greet", "send", "writing", "wait",
                                "exit", "dead"}]
    BY DEF TypeOK
  <1>2. at'[i] = p /\ \A k \in Invocations \ {i} : at'[k] = at[k]
    BY <1>1
  <1>3. lock \in Invocations \cup {None}
    BY DEF TypeOK
  <1>4. \A k \in Invocations : at'[k] \in Locked => lock' = k
    BY <1>2 DEF Guarded
  <1>5. lock' # None => at'[lock'] \in Locked \cup Gone
    BY <1>2, <1>3 DEF Guarded, Gone
  <1>6. stale' => lock' # None /\ at'[lock'] \in Gone
    BY <1>2, <1>3 DEF Guarded
  <1>7. \A k \in Invocations : at'[k] = "break" => lock' # None /\ at'[lock'] \in Gone
    <2>1. lock # None /\ at[lock] \in Gone => at'[lock] \in Gone
      BY <1>2, <1>3
    <2> QED  BY <1>2, <1>6, <2>1 DEF Guarded
  <1>8. lock' # None => Edits(lock)'
    <2>1. lock # None => lock \in Invocations /\ at[lock] # "off" /\ job[lock].do # "send"
      BY <1>3 DEF Guarded, Locked, Gone, Edits
    <2> QED  BY <2>1 DEF Edits
  <1>9. Faults = {} /\ lock' # None => at'[lock'] \in Locked
    BY <1>2, <1>3 DEF Guarded
  <1> QED  BY <1>4, <1>5, <1>6, <1>7, <1>8, <1>9 DEF Guarded

LEMMA GuardedStep ==
    ASSUME TypeOK, Editors, Guarded, Faults = {} \/ TwoEdit, [Next]_vars
    PROVE  Guarded'
  <1>1. /\ at \in [Invocations -> {"off", "load", "try", "break", "read", "write", "unlock",
                                   "check", "connect", "greet", "send", "writing", "wait",
                                   "exit", "dead"}]
        /\ lock \in Invocations \cup {None} /\ None \notin Invocations
        /\ job \in [Invocations -> Wishes \cup {None}]
    BY CliAssumption DEF TypeOK
  <1>2. ASSUME NEW i \in Invocations, Start(i)
        PROVE  Guarded'
    BY <1>1, <1>2, HoldsOn DEF Start, Go, locks, Locked, Gone
  <1>3. ASSUME NEW i \in Invocations, Load(i)
        PROVE  Guarded'
    <2>1. \E p \in {"exit", "try", "check"} : at' = [at EXCEPT ![i] = p]
      BY <1>3 DEF Load, End, Go
    <2> QED  BY <1>3, <2>1, HoldsOn DEF Load, locks, Locked, Gone
  <1>4. ASSUME NEW i \in Invocations, Try(i)
        PROVE  Guarded'
    <2>1. CASE lock # None
      <3>1. \E p \in {"exit", "break"} :
               at' = [at EXCEPT ![i] = p] /\ (p = "break" => stale)
        BY <1>4, <2>1 DEF Try, End, Go
      <3>2. UNCHANGED <<lock, stale, job>> /\ at[i] = "try"
        BY <1>4, <2>1 DEF Try
      <3> QED  BY <2>1, <3>1, <3>2, HoldsOn DEF Locked, Gone
    <2>2. CASE lock = None
      <3>1. /\ lock' = i /\ ~stale' /\ job' = job
            /\ at'[i] = "read" /\ \A k \in Invocations \ {i} : at'[k] = at[k]
        BY <1>1, <1>4, <2>2 DEF Try, Go
      <3>2. \A k \in Invocations : at[k] \notin Locked /\ at[k] # "break"
        BY <1>1, <2>2 DEF Guarded
      <3>3. Edits(i)
        BY <1>4 DEF Editors, Editing, Try
      <3> QED  BY <1>1, <3>1, <3>2, <3>3 DEF Guarded, Locked, Edits
    <2> QED  BY <2>1, <2>2
  <1>5. ASSUME NEW i \in Invocations, Break(i)
        PROVE  Guarded'
    <2>1. /\ at' = [at EXCEPT ![i] = "try"] /\ job' = job /\ at[i] = "break"
          /\ (lock' = None /\ ~stale') \/ UNCHANGED <<lock, stale>>
      BY <1>5 DEF Break, Unlink, Go, locks
    <2>2. CASE UNCHANGED <<lock, stale>>
      BY <2>1, <2>2, HoldsOn DEF Locked, Gone
    <2>3. CASE lock' = None /\ ~stale'
      <3>1. lock # None /\ at[lock] \in Gone /\ lock \in Invocations
        BY <1>1, <2>1 DEF Guarded
      <3>2. \A k \in Invocations : at[k] \notin Locked
        BY <3>1 DEF Guarded, Locked, Gone
      <3>3. \A k \in Invocations : at[k] = "break" => k = i
        <4>1. TwoEdit
          BY <3>1, <3>2 DEF Guarded
        <4>2. SUFFICES ASSUME NEW k \in Invocations, at[k] = "break"
                       PROVE  k = i
          OBVIOUS
        <4>3. \A x \in {lock, i, k} : /\ x \in Invocations /\ job[x] \in Jobs[x]
                                      /\ job[x].do # "send"
          BY <2>1, <3>1, <4>2 DEF TypeOK, Guarded, Editors, Editing, Edits, Gone
        <4>4. \E a, b \in Invocations : {lock, i, k} \subseteq {a, b}
          BY <4>1, <4>3 DEF TwoEdit
        <4> QED  BY <2>1, <3>1, <4>2, <4>4 DEF Gone
      <3>4. at'[i] = "try" /\ \A k \in Invocations \ {i} : at'[k] = at[k]
        BY <1>1, <2>1
      <3> QED  BY <2>3, <3>2, <3>3, <3>4 DEF Guarded, Locked
    <2> QED  BY <2>1, <2>2, <2>3
  <1>6. ASSUME NEW i \in Invocations, Read(i) \/ Write(i)
        PROVE  Guarded'
    <2>1. \E p \in {"write", "unlock"} : at' = [at EXCEPT ![i] = p]
      BY <1>6 DEF Read, Write, Go
    <2> QED  BY <1>6, <2>1, HoldsOn DEF Read, Write, locks, Locked, Gone
  <1>7. ASSUME NEW i \in Invocations, Unlock(i)
        PROVE  Guarded'
    <2>1. /\ job' = job /\ at[i] = "unlock"
          /\ at'[i] = "exit" /\ \A k \in Invocations \ {i} : at'[k] = at[k]
          /\ \/ lock' = None /\ ~stale'
             \/ Faults # {} /\ UNCHANGED <<lock, stale>>
      BY <1>1, <1>7 DEF Unlock, Unlink, Go, locks
    <2>2. lock = i /\ ~stale /\ Edits(i)
      BY <1>1, <2>1 DEF Guarded, Locked, Gone
    <2>3. \A k \in Invocations \ {i} : at[k] \notin Locked /\ at[k] # "break"
      BY <2>1, <2>2 DEF Guarded, Gone
    <2> QED  BY <1>1, <2>1, <2>2, <2>3 DEF Guarded, Locked, Gone, Edits
  <1>8. ASSUME NEW i \in Invocations, Check(i) \/ Connect(i) \/ Greet(i) \/ Send(i) \/ Answered(i) \/ GivesUp(i)
        PROVE  Guarded'
    <2>1. \E p \in {"connect", "greet", "send", "writing", "wait", "exit"} : at' = [at EXCEPT ![i] = p]
      BY <1>8 DEF Check, Connect, Greet, Send, Answered, GivesUp, End, Go
    <2>2. at[i] \in {"check", "connect", "greet", "send", "writing", "wait"} /\ UNCHANGED <<lock, stale, job>>
      BY <1>8 DEF Check, Connect, Greet, Send, Answered, GivesUp, locks
    <2> QED  BY <2>1, <2>2, HoldsOn DEF Locked, Gone
  <1>9. ASSUME NEW i \in Invocations, Die(i)
        PROVE  Guarded'
    <2>1. at' = [at EXCEPT ![i] = "dead"] /\ UNCHANGED <<lock, stale, job>>
          /\ at[i] \notin Gone /\ Faults # {}
      BY <1>9 DEF Die, Go, locks, Gone
    <2> QED  BY <2>1, HoldsOn DEF Locked, Gone
  <1>10. CASE Age
    <2>1. UNCHANGED <<at, job, lock>> /\ lock # None /\ at[lock] \in Gone
      BY <1>10 DEF Age, Gone
    <2> QED  BY <2>1 DEF Guarded, Edits
  <1>11. CASE NodeEnds \/ UNCHANGED vars
    BY <1>11 DEF NodeEnds, vars, locks, Guarded, Edits
  <1> QED  BY <1>2, <1>3, <1>4, <1>5, <1>6, <1>7, <1>8, <1>9, <1>10, <1>11 DEF Next, Step

-----------------------------------------------------------------------------
(* The agreement.                                                          *)

LEMMA FreshStep ==
    ASSUME TypeOK, Editors, Guarded, Fresh, [Next]_vars
    PROVE  Fresh'
  <1>1. /\ at \in [Invocations -> {"off", "load", "try", "break", "read", "write", "unlock",
                                   "check", "connect", "greet", "send", "writing", "wait",
                                   "exit", "dead"}]
        /\ job \in [Invocations -> Wishes \cup {None}]
        /\ edited \in [Invocations -> Files]
        /\ doc \in Files /\ IsInjective(doc.agent.rules)
    BY DEF TypeOK
  \* Who does not come to write, and leaves the file alone.
  <1>2. ASSUME NEW i \in Invocations, NEW p, at' = [at EXCEPT ![i] = p], p # "write",
               \A k \in Invocations \ {i} : job'[k] = job[k], UNCHANGED <<edited, doc>>
        PROVE  Fresh'
    <2> SUFFICES ASSUME NEW k \in Invocations, at'[k] = "write"
                 PROVE  /\ Possible(job[k], doc)' 
                        /\ edited'[k].agent = Edited(job'[k], doc').agent
      BY DEF Fresh
    <2>1. k # i /\ at[k] = "write" /\ job'[k] = job[k]
      BY <1>1, <1>2
    <2>2. Possible(job[k], doc) /\ edited[k].agent = Edited(job[k], doc).agent
      BY <2>1 DEF Fresh
    <2> QED  BY <1>2, <2>1, <2>2 DEF Possible
  <1>3. ASSUME NEW i \in Invocations, Start(i)
        PROVE  Fresh'
    <2>1. \A k \in Invocations \ {i} : job'[k] = job[k]
      BY <1>1, <1>3 DEF Start
    <2> QED  BY <1>2, <1>3, <2>1 DEF Start, Go
  <1>4. ASSUME NEW i \in Invocations,
               \/ Load(i) \/ Try(i) \/ Break(i) \/ Unlock(i)
               \/ Check(i) \/ Connect(i) \/ Greet(i) \/ Send(i) \/ Answered(i) \/ GivesUp(i) \/ Die(i)
        PROVE  Fresh'
    <2>1. \E p : p # "write" /\ at' = [at EXCEPT ![i] = p]
      BY <1>4 DEF Load, Try, Break, Unlock, Check, Connect, Greet, Send, Answered, GivesUp, Die, End, Go
    <2>2. UNCHANGED <<job, edited, doc>>
      BY <1>4 DEF Load, Try, Break, Unlock, Check, Connect, Greet, Send, Answered, GivesUp, Die, Shared
    <2> QED  BY <1>2, <2>1, <2>2
  <1>5. ASSUME NEW i \in Invocations, Read(i)
        PROVE  Fresh'
    <2>1. UNCHANGED <<job, doc>> /\ at[i] = "read"
      BY <1>5 DEF Read, Shared
    <2>2. CASE ~Possible(job[i], doc)
      BY <1>2, <1>5, <2>1, <2>2 DEF Read, Go
    <2>3. CASE Possible(job[i], doc)
      <3>1. /\ edited' = [edited EXCEPT ![i] = Change(i, doc)]
            /\ at' = [at EXCEPT ![i] = "write"]
        BY <1>5, <2>3 DEF Read, Go
      <3>2. job[i] \in Jobs[i] /\ Edits(i) /\ loaded[i] \in SUBSET Terms
        BY <2>1 DEF TypeOK, Editors, Editing, Locked
      <3>3. Change(i, doc).agent = Edited(job[i], doc).agent
        BY <1>1, <2>3, <3>2, ChangeIs
      <3> SUFFICES ASSUME NEW k \in Invocations, at'[k] = "write"
                   PROVE  /\ Possible(job[k], doc)'
                          /\ edited'[k].agent = Edited(job'[k], doc').agent
        BY DEF Fresh
      <3>4. Possible(job[k], doc) /\ edited'[k].agent = Edited(job[k], doc).agent
        <4>1. CASE k = i
          BY <1>1, <2>3, <3>1, <3>3, <4>1
        <4>2. CASE k # i
          BY <1>1, <3>1, <4>2 DEF Fresh
        <4> QED  BY <4>1, <4>2
      <3> QED  BY <2>1, <3>4 DEF Possible
    <2> QED  BY <2>2, <2>3
  <1>6. ASSUME NEW i \in Invocations, Write(i)
        PROVE  Fresh'
    <2>1. lock = i
      BY <1>6 DEF Write, Guarded, Locked
    <2>2. at' = [at EXCEPT ![i] = "unlock"]
      BY <1>6 DEF Write, Go
    <2>3. \A k \in Invocations : at'[k] # "write"
      BY <1>1, <2>1, <2>2 DEF Guarded, Locked
    <2> QED  BY <2>3 DEF Fresh
  <1>7. CASE Age \/ NodeEnds \/ UNCHANGED vars
    BY <1>7 DEF Age, NodeEnds, vars, Shared, Fresh, Possible
  <1> QED  BY <1>3, <1>4, <1>5, <1>6, <1>7 DEF Next, Step

LEMMA SerialStep ==
    ASSUME SerialInv, [Next]_vars
    PROVE  AgreementSerial'
  <1>1. CASE UNCHANGED Shared
    BY <1>1 DEF Shared, SerialInv, AgreementSerial
  <1>2. ASSUME NEW i \in Invocations, Write(i)
        PROVE  AgreementSerial'
    <2>1. at[i] = "write" /\ job[i] \in Jobs[i] /\ job[i].do # "send"
      BY <1>2 DEF Write, SerialInv, TypeOK, Editors, Editing, Locked, Edits
    <2>2. Possible(job[i], doc) /\ edited[i].agent = Edited(job[i], doc).agent
      BY <2>1 DEF SerialInv, Fresh
    <2>3. doc \in Files /\ ideal \in Files /\ doc.agent = ideal.agent
      BY DEF SerialInv, TypeOK, AgreementSerial
    <2>4. Possible(job[i], ideal) /\ Edited(job[i], doc).agent = Edited(job[i], ideal).agent
      BY <2>1, <2>2, <2>3, AgreementAlone
    <2>5. doc' = edited[i] /\ ideal' = Edited(job[i], ideal)
      BY <1>2, <2>4 DEF Write
    <2> QED  BY <2>2, <2>4, <2>5 DEF AgreementSerial
  <1>3. (\E i \in Invocations : Write(i)) \/ UNCHANGED Shared
    <2>1. ASSUME NEW i \in Invocations,
                 \/ Start(i) \/ Load(i) \/ Try(i) \/ Break(i) \/ Read(i) \/ Unlock(i)
                 \/ Check(i) \/ Connect(i) \/ Greet(i) \/ Send(i) \/ Answered(i) \/ GivesUp(i) \/ Die(i)
          PROVE  UNCHANGED Shared
      BY <2>1 DEF Start, Load, Try, Break, Read, Unlock, Check, Connect, Greet, Send, Answered, GivesUp,
                  Die, Shared
    <2> QED  BY <2>1 DEF Next, Step, Age, NodeEnds, vars, Shared
  <1> QED  BY <1>1, <1>2, <1>3

\* However many edit config.toml at once, the agreement in it is what the edits make
\* of it one after the other; so it is of two that edit, wherever they are killed and
\* whether or not their lock files can be removed.  (A third editor may break the
\* lock that a second has taken since: Cli_claims.)
THEOREM EditsAreSerial ==
    ASSUME Faults = {} \/ TwoEdit
    PROVE  Spec => []AgreementSerial
  <1>1. Init => SerialInv
    <2>1. Init => Editors /\ Guarded /\ Fresh
      BY CliAssumption DEF Init, Editors, Guarded, Fresh, Editing, Locked
    <2> QED  BY <2>1, CliTypesInit DEF Init, SerialInv, AgreementSerial
  <1>2. SerialInv /\ [Next]_vars => SerialInv'
    BY CliTypesStep, EditorsStep, GuardedStep, FreshStep, SerialStep DEF SerialInv
  <1>3. SerialInv => AgreementSerial
    BY DEF SerialInv
  <1> QED  BY <1>1, <1>2, <1>3, PTL DEF Spec
=============================================================================
