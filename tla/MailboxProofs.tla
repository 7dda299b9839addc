--------------------------- MODULE MailboxProofs ---------------------------
(* Proofs about Mailbox for every set of messages and of drains and every    *)
(* bound.                                                                    *)
EXTENDS Mailbox, TLAPS

(***************************************************************************)
(* Types.                                                                  *)
(***************************************************************************)

(* A copy is the request or the letter of one message.                       *)
LEMMA CopyType ==
    /\ \A m \in Mail : Request(m) \in Copy /\ Letter(m) \in Copy
    /\ \A m, n \in Mail : Request(m) # Letter(n)
    /\ \A m, n \in Mail : (Request(m) = Request(n) => m = n) /\ (Letter(m) = Letter(n) => m = n)
    /\ \E c \in Copy : TRUE
<1>1. \A m \in Mail : Request(m) \in Copy /\ Letter(m) \in Copy
  BY DEF Copy, Request, Letter
<1>2. /\ \A m, n \in Mail : Request(m) # Letter(n)
      /\ \A m, n \in Mail : (Request(m) = Request(n) => m = n) /\ (Letter(m) = Letter(n) => m = n)
  BY DEF Request, Letter
<1>3. QED
  BY <1>1, <1>2, MailboxAssumption

(* A file is a copy and a number.                                            *)
LEMMA FileType ==
    /\ \A f \in File : f[1] \in Copy /\ f[2] \in Nat /\ f[2] >= 1 /\ f[2] <= MaxFiles /\ f = << f[1], f[2] >>
    /\ \A c \in Copy, n \in Nat : n >= 1 /\ n <= MaxFiles => << c, n >> \in File
    /\ \A c \in Copy : First(c) \in File /\ First(c)[1] = c /\ First(c)[2] = 1
  BY MailboxAssumption DEF File, First

(* The file in an empty hand is one of the files.                            *)
LEMMA NoFileType == NoFile \in File
<1>1. \E f \in File : TRUE
  BY MailboxAssumption, CopyType, FileType
<1>2. QED
  BY <1>1 DEF NoFile

(* The file a parking engine keeps a body as.                                *)
LEMMA NextFile ==
    ASSUME TypeOK, NEW r \in Readers
    PROVE  /\ cur[r] \in File /\ cur[r][1] \in Copy
           /\ cur[r][2] < MaxFiles => << cur[r][1], cur[r][2] + 1 >> \in File
<1>1. cur[r] \in File
  BY DEF TypeOK
<1>2. cur[r][1] \in Copy /\ cur[r][2] \in Nat /\ cur[r][2] >= 1
  BY <1>1, FileType
<1>3. cur[r][2] < MaxFiles => cur[r][2] + 1 \in Nat /\ cur[r][2] + 1 >= 1 /\ cur[r][2] + 1 <= MaxFiles
  BY <1>2, MailboxAssumption
<1>4. QED
  BY <1>1, <1>2, <1>3, FileType

(* Every step keeps every variable's type.                                    *)
LEMMA TypeStep ==
    ASSUME TypeOK, [Next]_vars PROVE TypeOK'
<1>1. ASSUME NEW m \in Mail, Locate(m) PROVE TypeOK'
  BY <1>1, FileType, NoFileType DEF Locate, To, chat, files, drains, sweeper, TypeOK,
     SendStages, ReadStages, Answered, Phases
<1>2. ASSUME NEW m \in Mail, Serve(m) PROVE TypeOK'
  <2>0. First(Request(m)) \in File
    BY CopyType, FileType
  <2>1. phase' \in Phases /\ faults' \in Nat /\ unheard' \subseteq Mail /\ cut' \subseteq Mail
    BY <1>2, <2>0, FileType, NoFileType DEF Serve, To, deposit, Fault, chat, files, drains,
       sweeper, TypeOK, Phases
  <2>2. body' \subseteq File /\ claimed' \subseteq File
    BY <1>2, <2>0, FileType, NoFileType DEF Serve, To, deposit, Fault, chat, files, drains,
       sweeper, TypeOK, ReadStages
  <2>3. stamp' \in [File -> Nat] /\ clock' \in Nat
    BY <1>2, <2>0, FileType, NoFileType DEF Serve, To, deposit, Fault, chat, files, drains,
       sweeper, TypeOK, ReadStages
  <2>4. send' \in [Copy -> SendStages]
    BY <1>2, <2>0, FileType, NoFileType DEF Serve, To, deposit, Fault, chat, files, drains,
       sweeper, TypeOK, SendStages, Answered
  <2>5. at' \in [Readers -> ReadStages]
    BY <1>2, <2>0, FileType, NoFileType DEF Serve, To, deposit, Fault, chat, files, drains,
       sweeper, TypeOK, ReadStages
  <2>6. left' \in [Readers -> SUBSET File] /\ cur' \in [Readers -> File]
    BY <1>2, <2>0, FileType, NoFileType DEF Serve, To, deposit, Fault, chat, files, drains,
       sweeper, TypeOK, ReadStages
  <2>7. late' \in [Readers -> BOOLEAN]
    BY <1>2, <2>0, FileType, NoFileType DEF Serve, To, deposit, Fault, chat, files, drains,
       sweeper, TypeOK, ReadStages
  <2>8. \A r0 \in Readers : late'[r0] => at'[r0] \notin {"off", "timer"}
    BY <1>2, <2>0, FileType, NoFileType DEF Serve, To, deposit, Fault, chat, files, drains,
       sweeper, TypeOK, ReadStages
  <2>9. sweep'.at \in {"off", "body", "claim", "expired"} /\ sweep'.file \in File
    BY <1>2, <2>0, FileType, NoFileType DEF Serve, To, deposit, Fault, chat, files, drains,
       sweeper, TypeOK
  <2>10. swept' \subseteq Copy /\ failed' \subseteq File
    BY <1>2, <2>0, FileType, NoFileType DEF Serve, To, deposit, Fault, chat, files, drains,
       sweeper, TypeOK, ReadStages
  <2>11. turns' \in [Copy -> Nat]
    <3>1. turns' = turns \/ turns' = [turns EXCEPT ![Request(m)] = @ + 1]
      BY <1>2 DEF Serve
    <3>2. Request(m) \in Copy /\ turns \in [Copy -> Nat]
      BY CopyType DEF TypeOK
    <3>3. QED
      BY <3>1, <3>2
  <2>12. QED
    BY <2>1, <2>2, <2>3, <2>4, <2>5, <2>6, <2>7, <2>8, <2>9, <2>10, <2>11 DEF TypeOK
<1>3. ASSUME NEW m \in Mail, GiveUp(m) PROVE TypeOK'
  <2>1. faults' \in Nat /\ unheard' \subseteq Mail
    BY <1>3 DEF GiveUp, Fault, TypeOK
  <2>2. UNCHANGED << chat, files, send, drains, sweeper, turns, failed >>
    BY <1>3 DEF GiveUp
  <2>3. QED
    BY <2>1, <2>2 DEF chat, files, drains, sweeper, TypeOK
<1>4. ASSUME NEW m \in Mail, FallBack(m) PROVE TypeOK'
  BY <1>4, FileType, NoFileType DEF FallBack, To, chat, files, drains, sweeper,
     TypeOK, SendStages, ReadStages, Answered, Phases
<1>5. ASSUME NEW c \in Copy, Seek(c) PROVE TypeOK'
  BY <1>5, FileType, NoFileType DEF Seek, To, chat, files, drains, sweeper, TypeOK,
     SendStages, ReadStages, Answered, Phases
<1>6. ASSUME NEW c \in Copy, Deposit(c) PROVE TypeOK'
  <2>1. phase' \in Phases /\ faults' \in Nat /\ unheard' \subseteq Mail /\ cut' \subseteq Mail
    BY <1>6, FileType, NoFileType DEF Deposit, To, deposit, Fault, chat, files,
       drains, sweeper, TypeOK, Phases
  <2>2. body' \subseteq File /\ claimed' \subseteq File
    BY <1>6, FileType, NoFileType DEF Deposit, To, deposit, Fault, chat, files,
       drains, sweeper, TypeOK, ReadStages
  <2>3. stamp' \in [File -> Nat] /\ clock' \in Nat
    BY <1>6, FileType, NoFileType DEF Deposit, To, deposit, Fault, chat, files,
       drains, sweeper, TypeOK, ReadStages
  <2>4. send' \in [Copy -> SendStages]
    BY <1>6, FileType, NoFileType DEF Deposit, To, deposit, Fault, chat, files,
       drains, sweeper, TypeOK, SendStages, Answered
  <2>5. at' \in [Readers -> ReadStages]
    BY <1>6, FileType, NoFileType DEF Deposit, To, deposit, Fault, chat, files,
       drains, sweeper, TypeOK, ReadStages
  <2>6. left' \in [Readers -> SUBSET File] /\ cur' \in [Readers -> File]
    BY <1>6, FileType, NoFileType DEF Deposit, To, deposit, Fault, chat, files,
       drains, sweeper, TypeOK, ReadStages
  <2>7. late' \in [Readers -> BOOLEAN]
    BY <1>6, FileType, NoFileType DEF Deposit, To, deposit, Fault, chat, files,
       drains, sweeper, TypeOK, ReadStages
  <2>8. \A r0 \in Readers : late'[r0] => at'[r0] \notin {"off", "timer"}
    BY <1>6, FileType, NoFileType DEF Deposit, To, deposit, Fault, chat, files,
       drains, sweeper, TypeOK, ReadStages
  <2>9. sweep'.at \in {"off", "body", "claim", "expired"} /\ sweep'.file \in File
    BY <1>6, FileType, NoFileType DEF Deposit, To, deposit, Fault, chat, files,
       drains, sweeper, TypeOK
  <2>10. swept' \subseteq Copy /\ failed' \subseteq File
    BY <1>6, FileType, NoFileType DEF Deposit, To, deposit, Fault, chat, files,
       drains, sweeper, TypeOK, ReadStages
  <2>11. turns' \in [Copy -> Nat]
    BY <1>6, FileType, NoFileType DEF Deposit, To, deposit, Fault, chat, files,
       drains, sweeper, TypeOK, ReadStages
  <2>12. QED
    BY <2>1, <2>2, <2>3, <2>4, <2>5, <2>6, <2>7, <2>8, <2>9, <2>10, <2>11 DEF TypeOK
<1>7. ASSUME NEW c \in Copy, AskAgain(c) PROVE TypeOK'
  <2>1. phase' \in Phases /\ faults' \in Nat /\ unheard' \subseteq Mail /\ cut' \subseteq Mail
    BY <1>7, FileType, NoFileType DEF AskAgain, To, chat, files, drains, sweeper,
       TypeOK, Phases
  <2>2. body' \subseteq File /\ claimed' \subseteq File
    BY <1>7, FileType, NoFileType DEF AskAgain, To, chat, files, drains, sweeper,
       TypeOK, ReadStages
  <2>3. stamp' \in [File -> Nat] /\ clock' \in Nat
    BY <1>7, FileType, NoFileType DEF AskAgain, To, chat, files, drains, sweeper,
       TypeOK, ReadStages
  <2>4. send' \in [Copy -> SendStages]
    BY <1>7, FileType, NoFileType DEF AskAgain, To, chat, files, drains, sweeper,
       TypeOK, SendStages, Answered
  <2>5. at' \in [Readers -> ReadStages]
    BY <1>7, FileType, NoFileType DEF AskAgain, To, chat, files, drains, sweeper,
       TypeOK, ReadStages
  <2>6. left' \in [Readers -> SUBSET File] /\ cur' \in [Readers -> File]
    BY <1>7, FileType, NoFileType DEF AskAgain, To, chat, files, drains, sweeper,
       TypeOK, ReadStages
  <2>7. late' \in [Readers -> BOOLEAN]
    BY <1>7, FileType, NoFileType DEF AskAgain, To, chat, files, drains, sweeper,
       TypeOK, ReadStages
  <2>8. \A r0 \in Readers : late'[r0] => at'[r0] \notin {"off", "timer"}
    BY <1>7, FileType, NoFileType DEF AskAgain, To, chat, files, drains, sweeper,
       TypeOK, ReadStages
  <2>9. sweep'.at \in {"off", "body", "claim", "expired"} /\ sweep'.file \in File
    BY <1>7, FileType, NoFileType DEF AskAgain, To, chat, files, drains, sweeper, TypeOK
  <2>10. swept' \subseteq Copy /\ failed' \subseteq File
    BY <1>7, FileType, NoFileType DEF AskAgain, To, chat, files, drains, sweeper,
       TypeOK, ReadStages
  <2>11. turns' \in [Copy -> Nat]
    BY <1>7, FileType, NoFileType DEF AskAgain, To, chat, files, drains, sweeper,
       TypeOK, ReadStages
  <2>12. QED
    BY <2>1, <2>2, <2>3, <2>4, <2>5, <2>6, <2>7, <2>8, <2>9, <2>10, <2>11 DEF TypeOK
<1>8. ASSUME NEW c \in Copy, ClaimBack(c) PROVE TypeOK'
  <2>1. phase' \in Phases /\ faults' \in Nat /\ unheard' \subseteq Mail /\ cut' \subseteq Mail
    BY <1>8, FileType, NoFileType DEF ClaimBack, To, Claim, chat, files, drains,
       sweeper, TypeOK, Phases
  <2>2. body' \subseteq File /\ claimed' \subseteq File
    BY <1>8, FileType, NoFileType DEF ClaimBack, To, Claim, chat, files, drains,
       sweeper, TypeOK, ReadStages
  <2>3. stamp' \in [File -> Nat] /\ clock' \in Nat
    BY <1>8, FileType, NoFileType DEF ClaimBack, To, Claim, chat, files, drains,
       sweeper, TypeOK, ReadStages
  <2>4. send' \in [Copy -> SendStages]
    BY <1>8, FileType, NoFileType DEF ClaimBack, To, Claim, chat, files, drains,
       sweeper, TypeOK, SendStages, Answered
  <2>5. at' \in [Readers -> ReadStages]
    BY <1>8, FileType, NoFileType DEF ClaimBack, To, Claim, chat, files, drains,
       sweeper, TypeOK, ReadStages
  <2>6. left' \in [Readers -> SUBSET File] /\ cur' \in [Readers -> File]
    BY <1>8, FileType, NoFileType DEF ClaimBack, To, Claim, chat, files, drains,
       sweeper, TypeOK, ReadStages
  <2>7. late' \in [Readers -> BOOLEAN]
    BY <1>8, FileType, NoFileType DEF ClaimBack, To, Claim, chat, files, drains,
       sweeper, TypeOK, ReadStages
  <2>8. \A r0 \in Readers : late'[r0] => at'[r0] \notin {"off", "timer"}
    BY <1>8, FileType, NoFileType DEF ClaimBack, To, Claim, chat, files, drains,
       sweeper, TypeOK, ReadStages
  <2>9. sweep'.at \in {"off", "body", "claim", "expired"} /\ sweep'.file \in File
    BY <1>8, FileType, NoFileType DEF ClaimBack, To, Claim, chat, files, drains,
       sweeper, TypeOK
  <2>10. swept' \subseteq Copy /\ failed' \subseteq File
    BY <1>8, FileType, NoFileType DEF ClaimBack, To, Claim, chat, files, drains,
       sweeper, TypeOK, ReadStages
  <2>11. turns' \in [Copy -> Nat]
    BY <1>8, FileType, NoFileType DEF ClaimBack, To, Claim, chat, files, drains,
       sweeper, TypeOK, ReadStages
  <2>12. QED
    BY <2>1, <2>2, <2>3, <2>4, <2>5, <2>6, <2>7, <2>8, <2>9, <2>10, <2>11 DEF TypeOK
<1>9. ASSUME NEW c \in Copy, TakeBack(c) PROVE TypeOK'
  <2>1. phase' \in Phases /\ faults' \in Nat /\ unheard' \subseteq Mail /\ cut' \subseteq Mail
    <3>1. phase' = phase /\ unheard' = unheard /\ cut' = cut
      BY <1>9 DEF TakeBack, chat
    <3>2. faults' = faults \/ faults' = faults + 1
      BY <1>9 DEF TakeBack, Fault
    <3>3. QED
      BY <3>1, <3>2 DEF TypeOK
  <2>2. body' \subseteq File /\ claimed' \subseteq File
    BY <1>9, FileType, NoFileType DEF TakeBack, To, Remove, Fault, chat, files,
       drains, sweeper, TypeOK, ReadStages
  <2>3. stamp' \in [File -> Nat] /\ clock' \in Nat
    BY <1>9, FileType, NoFileType DEF TakeBack, To, Remove, Fault, chat, files,
       drains, sweeper, TypeOK, ReadStages
  <2>4. send' \in [Copy -> SendStages]
    BY <1>9, FileType, NoFileType DEF TakeBack, To, Remove, Fault, chat, files,
       drains, sweeper, TypeOK, SendStages, Answered
  <2>5. at' \in [Readers -> ReadStages]
    BY <1>9, FileType, NoFileType DEF TakeBack, To, Remove, Fault, chat, files,
       drains, sweeper, TypeOK, ReadStages
  <2>6. left' \in [Readers -> SUBSET File] /\ cur' \in [Readers -> File]
    BY <1>9, FileType, NoFileType DEF TakeBack, To, Remove, Fault, chat, files,
       drains, sweeper, TypeOK, ReadStages
  <2>7. late' \in [Readers -> BOOLEAN]
    BY <1>9, FileType, NoFileType DEF TakeBack, To, Remove, Fault, chat, files,
       drains, sweeper, TypeOK, ReadStages
  <2>8. \A r0 \in Readers : late'[r0] => at'[r0] \notin {"off", "timer"}
    BY <1>9, FileType, NoFileType DEF TakeBack, To, Remove, Fault, chat, files,
       drains, sweeper, TypeOK, ReadStages
  <2>9. sweep'.at \in {"off", "body", "claim", "expired"} /\ sweep'.file \in File
    BY <1>9, FileType, NoFileType DEF TakeBack, To, Remove, Fault, chat, files,
       drains, sweeper, TypeOK
  <2>10. swept' \subseteq Copy /\ failed' \subseteq File
    BY <1>9, FileType, NoFileType DEF TakeBack, To, Remove, Fault, chat, files,
       drains, sweeper, TypeOK, ReadStages
  <2>11. turns' \in [Copy -> Nat]
    BY <1>9, FileType, NoFileType DEF TakeBack, To, Remove, Fault, chat, files,
       drains, sweeper, TypeOK, ReadStages
  <2>12. QED
    BY <2>1, <2>2, <2>3, <2>4, <2>5, <2>6, <2>7, <2>8, <2>9, <2>10, <2>11 DEF TypeOK
<1>10. ASSUME NEW c \in Copy, UnclaimBack(c) PROVE TypeOK'
  BY <1>10, FileType, NoFileType DEF UnclaimBack, To, unclaim, chat, files, drains,
     sweeper, TypeOK, SendStages, ReadStages, Answered, Phases
<1>11. ASSUME NEW m \in Mail, SenderDies(m) PROVE TypeOK'
  <2>1. phase' \in Phases /\ faults' \in Nat /\ unheard' \subseteq Mail /\ cut' \subseteq Mail
    BY <1>11, FileType, NoFileType DEF SenderDies, To, Fault, chat, files, drains,
       sweeper, TypeOK, Phases
  <2>2. body' \subseteq File /\ claimed' \subseteq File
    BY <1>11, FileType, NoFileType DEF SenderDies, To, Fault, chat, files, drains,
       sweeper, TypeOK, ReadStages
  <2>3. stamp' \in [File -> Nat] /\ clock' \in Nat
    BY <1>11, FileType, NoFileType DEF SenderDies, To, Fault, chat, files, drains,
       sweeper, TypeOK, ReadStages
  <2>4. send' \in [Copy -> SendStages]
    BY <1>11, FileType, NoFileType DEF SenderDies, To, Fault, chat, files, drains,
       sweeper, TypeOK, SendStages, Answered
  <2>5. at' \in [Readers -> ReadStages]
    BY <1>11, FileType, NoFileType DEF SenderDies, To, Fault, chat, files, drains,
       sweeper, TypeOK, ReadStages
  <2>6. left' \in [Readers -> SUBSET File] /\ cur' \in [Readers -> File]
    BY <1>11, FileType, NoFileType DEF SenderDies, To, Fault, chat, files, drains,
       sweeper, TypeOK, ReadStages
  <2>7. late' \in [Readers -> BOOLEAN]
    BY <1>11, FileType, NoFileType DEF SenderDies, To, Fault, chat, files, drains,
       sweeper, TypeOK, ReadStages
  <2>8. \A r0 \in Readers : late'[r0] => at'[r0] \notin {"off", "timer"}
    BY <1>11, FileType, NoFileType DEF SenderDies, To, Fault, chat, files, drains,
       sweeper, TypeOK, ReadStages
  <2>9. sweep'.at \in {"off", "body", "claim", "expired"} /\ sweep'.file \in File
    BY <1>11, FileType, NoFileType DEF SenderDies, To, Fault, chat, files, drains,
       sweeper, TypeOK
  <2>10. swept' \subseteq Copy /\ failed' \subseteq File
    BY <1>11, FileType, NoFileType DEF SenderDies, To, Fault, chat, files, drains,
       sweeper, TypeOK, ReadStages
  <2>11. turns' \in [Copy -> Nat]
    BY <1>11, FileType, NoFileType DEF SenderDies, To, Fault, chat, files, drains,
       sweeper, TypeOK, ReadStages
  <2>12. QED
    BY <2>1, <2>2, <2>3, <2>4, <2>5, <2>6, <2>7, <2>8, <2>9, <2>10, <2>11 DEF TypeOK
<1>12. ASSUME NEW r \in Readers, List(r) PROVE TypeOK'
  BY <1>12, FileType, NoFileType DEF List, Goes, chat, files, drains, sweeper, TypeOK,
     SendStages, ReadStages, Answered, Phases
<1>13. ASSUME NEW r \in Readers, Take(r) PROVE TypeOK'
  <2>1. phase' \in Phases /\ faults' \in Nat /\ unheard' \subseteq Mail /\ cut' \subseteq Mail
    BY <1>13, FileType, NoFileType DEF Take, Goes, Claim, chat, files, drains,
       sweeper, TypeOK, Phases
  <2>2. body' \subseteq File /\ claimed' \subseteq File
    BY <1>13, FileType, NoFileType DEF Take, Goes, Claim, chat, files, drains,
       sweeper, TypeOK, ReadStages
  <2>3. stamp' \in [File -> Nat] /\ clock' \in Nat
    BY <1>13, FileType, NoFileType DEF Take, Goes, Claim, chat, files, drains,
       sweeper, TypeOK, ReadStages
  <2>4. send' \in [Copy -> SendStages]
    BY <1>13, FileType, NoFileType DEF Take, Goes, Claim, chat, files, drains,
       sweeper, TypeOK, SendStages, Answered
  <2>5. at' \in [Readers -> ReadStages]
    BY <1>13, FileType, NoFileType DEF Take, Goes, Claim, chat, files, drains,
       sweeper, TypeOK, ReadStages
  <2>6. left' \in [Readers -> SUBSET File] /\ cur' \in [Readers -> File]
    BY <1>13, FileType, NoFileType DEF Take, Goes, Claim, chat, files, drains,
       sweeper, TypeOK, ReadStages
  <2>7. late' \in [Readers -> BOOLEAN]
    BY <1>13, FileType, NoFileType DEF Take, Goes, Claim, chat, files, drains,
       sweeper, TypeOK, ReadStages
  <2>8. \A r0 \in Readers : late'[r0] => at'[r0] \notin {"off", "timer"}
    BY <1>13, FileType, NoFileType DEF Take, Goes, Claim, chat, files, drains,
       sweeper, TypeOK, ReadStages
  <2>9. sweep'.at \in {"off", "body", "claim", "expired"} /\ sweep'.file \in File
    BY <1>13, FileType, NoFileType DEF Take, Goes, Claim, chat, files, drains,
       sweeper, TypeOK
  <2>10. swept' \subseteq Copy /\ failed' \subseteq File
    BY <1>13, FileType, NoFileType DEF Take, Goes, Claim, chat, files, drains,
       sweeper, TypeOK, ReadStages
  <2>11. turns' \in [Copy -> Nat]
    BY <1>13, FileType, NoFileType DEF Take, Goes, Claim, chat, files, drains,
       sweeper, TypeOK, ReadStages
  <2>12. QED
    BY <2>1, <2>2, <2>3, <2>4, <2>5, <2>6, <2>7, <2>8, <2>9, <2>10, <2>11 DEF TypeOK
<1>14. ASSUME NEW r \in Readers, Read(r) PROVE TypeOK'
  BY <1>14, FileType, NoFileType DEF Read, Goes, chat, files, drains, sweeper, TypeOK,
     SendStages, ReadStages, Answered, Phases
<1>15. ASSUME NEW r \in Readers, Admit(r) PROVE TypeOK'
  <2>1. phase' \in Phases /\ faults' \in Nat /\ unheard' \subseteq Mail /\ cut' \subseteq Mail
    BY <1>15, FileType, NoFileType DEF Admit, Goes, deposit, Fault, chat, files,
       drains, sweeper, TypeOK, Phases
  <2>2. body' \subseteq File /\ claimed' \subseteq File
    BY <1>15, NextFile DEF Admit, deposit, files, TypeOK
  <2>3. stamp' \in [File -> Nat] /\ clock' \in Nat
    BY <1>15, NextFile DEF Admit, deposit, files, TypeOK
  <2>4. send' \in [Copy -> SendStages]
    BY <1>15, FileType, NoFileType DEF Admit, Goes, deposit, Fault, chat, files,
       drains, sweeper, TypeOK, SendStages, Answered
  <2>5. at' \in [Readers -> ReadStages]
    BY <1>15, FileType, NoFileType DEF Admit, Goes, deposit, Fault, chat, files,
       drains, sweeper, TypeOK, ReadStages
  <2>6. left' \in [Readers -> SUBSET File] /\ cur' \in [Readers -> File]
    BY <1>15, FileType, NoFileType DEF Admit, Goes, deposit, Fault, chat, files,
       drains, sweeper, TypeOK, ReadStages
  <2>7. late' \in [Readers -> BOOLEAN]
    BY <1>15, FileType, NoFileType DEF Admit, Goes, deposit, Fault, chat, files,
       drains, sweeper, TypeOK, ReadStages
  <2>8. \A r0 \in Readers : late'[r0] => at'[r0] \notin {"off", "timer"}
    BY <1>15, FileType, NoFileType DEF Admit, Goes, deposit, Fault, chat, files,
       drains, sweeper, TypeOK, ReadStages
  <2>9. sweep'.at \in {"off", "body", "claim", "expired"} /\ sweep'.file \in File
    BY <1>15, FileType, NoFileType DEF Admit, Goes, deposit, Fault, chat, files,
       drains, sweeper, TypeOK
  <2>10. swept' \subseteq Copy /\ failed' \subseteq File
    BY <1>15, FileType, NoFileType DEF Admit, Goes, deposit, Fault, chat, files,
       drains, sweeper, TypeOK, ReadStages
  <2>11. turns' \in [Copy -> Nat]
    BY <1>15, FileType, NoFileType DEF Admit, Goes, deposit, Fault, chat, files,
       drains, sweeper, TypeOK, ReadStages
  <2>12. QED
    BY <2>1, <2>2, <2>3, <2>4, <2>5, <2>6, <2>7, <2>8, <2>9, <2>10, <2>11 DEF TypeOK
<1>16. ASSUME NEW r \in Readers, Delete(r) PROVE TypeOK'
  <2>1. phase' \in Phases /\ faults' \in Nat /\ unheard' \subseteq Mail /\ cut' \subseteq Mail
    BY <1>16, FileType, NoFileType DEF Delete, Goes, Remove, Fault, chat, files,
       drains, sweeper, TypeOK, Phases
  <2>2. body' \subseteq File /\ claimed' \subseteq File
    BY <1>16, FileType, NoFileType DEF Delete, Goes, Remove, Fault, chat, files,
       drains, sweeper, TypeOK, ReadStages
  <2>3. stamp' \in [File -> Nat] /\ clock' \in Nat
    BY <1>16, FileType, NoFileType DEF Delete, Goes, Remove, Fault, chat, files,
       drains, sweeper, TypeOK, ReadStages
  <2>4. send' \in [Copy -> SendStages]
    BY <1>16, FileType, NoFileType DEF Delete, Goes, Remove, Fault, chat, files,
       drains, sweeper, TypeOK, SendStages, Answered
  <2>5. at' \in [Readers -> ReadStages]
    BY <1>16, FileType, NoFileType DEF Delete, Goes, Remove, Fault, chat, files,
       drains, sweeper, TypeOK, ReadStages
  <2>6. left' \in [Readers -> SUBSET File] /\ cur' \in [Readers -> File]
    BY <1>16, FileType, NoFileType DEF Delete, Goes, Remove, Fault, chat, files,
       drains, sweeper, TypeOK, ReadStages
  <2>7. late' \in [Readers -> BOOLEAN]
    BY <1>16, FileType, NoFileType DEF Delete, Goes, Remove, Fault, chat, files,
       drains, sweeper, TypeOK, ReadStages
  <2>8. \A r0 \in Readers : late'[r0] => at'[r0] \notin {"off", "timer"}
    BY <1>16, FileType, NoFileType DEF Delete, Goes, Remove, Fault, chat, files,
       drains, sweeper, TypeOK, ReadStages
  <2>9. sweep'.at \in {"off", "body", "claim", "expired"} /\ sweep'.file \in File
    BY <1>16, FileType, NoFileType DEF Delete, Goes, Remove, Fault, chat, files,
       drains, sweeper, TypeOK
  <2>10. swept' \subseteq Copy /\ failed' \subseteq File
    BY <1>16, FileType, NoFileType DEF Delete, Goes, Remove, Fault, chat, files,
       drains, sweeper, TypeOK, ReadStages
  <2>11. turns' \in [Copy -> Nat]
    BY <1>16, FileType, NoFileType DEF Delete, Goes, Remove, Fault, chat, files,
       drains, sweeper, TypeOK, ReadStages
  <2>12. QED
    BY <2>1, <2>2, <2>3, <2>4, <2>5, <2>6, <2>7, <2>8, <2>9, <2>10, <2>11 DEF TypeOK
<1>17. ASSUME NEW r \in Readers, Release(r) PROVE TypeOK'
  BY <1>17, FileType, NoFileType DEF Release, Goes, unclaim, chat, files, drains,
     sweeper, TypeOK, SendStages, ReadStages, Answered, Phases
<1>18. ASSUME NEW r \in Readers, Ends(r) PROVE TypeOK'
  BY <1>18, FileType, NoFileType DEF Ends, Goes, chat, files, drains, sweeper, TypeOK,
     SendStages, ReadStages, Answered, Phases
<1>19. ASSUME NEW r \in Readers, LateDrain(r) PROVE TypeOK'
  BY <1>19, FileType, NoFileType DEF LateDrain, Goes, chat, files, drains, sweeper,
     TypeOK, SendStages, ReadStages, Answered, Phases
<1>20. ASSUME NEW f \in File, FindStale(f) PROVE TypeOK'
  BY <1>20, FileType, NoFileType DEF FindStale, Sweeps, chat, files, drains, sweeper,
     TypeOK, SendStages, ReadStages, Answered, Phases
<1>21. ASSUME NEW f \in File, FindExpired(f) PROVE TypeOK'
  BY <1>21, FileType, NoFileType DEF FindExpired, Sweeps, chat, files, drains,
     sweeper, TypeOK, SendStages, ReadStages, Answered, Phases
<1>22. ASSUME SweepBody PROVE TypeOK'
  <2>1. phase' \in Phases /\ faults' \in Nat /\ unheard' \subseteq Mail /\ cut' \subseteq Mail
    BY <1>22, FileType, NoFileType DEF SweepBody, Remove, Fault, Sweeps, chat, files,
       drains, sweeper, TypeOK, Phases
  <2>2. body' \subseteq File /\ claimed' \subseteq File
    BY <1>22, FileType, NoFileType DEF SweepBody, Remove, Fault, Sweeps, chat, files,
       drains, sweeper, TypeOK, ReadStages
  <2>3. stamp' \in [File -> Nat] /\ clock' \in Nat
    BY <1>22, FileType, NoFileType DEF SweepBody, Remove, Fault, Sweeps, chat, files,
       drains, sweeper, TypeOK, ReadStages
  <2>4. send' \in [Copy -> SendStages]
    BY <1>22, FileType, NoFileType DEF SweepBody, Remove, Fault, Sweeps, chat, files,
       drains, sweeper, TypeOK, SendStages, Answered
  <2>5. at' \in [Readers -> ReadStages]
    BY <1>22, FileType, NoFileType DEF SweepBody, Remove, Fault, Sweeps, chat, files,
       drains, sweeper, TypeOK, ReadStages
  <2>6. left' \in [Readers -> SUBSET File] /\ cur' \in [Readers -> File]
    BY <1>22, FileType, NoFileType DEF SweepBody, Remove, Fault, Sweeps, chat, files,
       drains, sweeper, TypeOK, ReadStages
  <2>7. late' \in [Readers -> BOOLEAN]
    BY <1>22, FileType, NoFileType DEF SweepBody, Remove, Fault, Sweeps, chat, files,
       drains, sweeper, TypeOK, ReadStages
  <2>8. \A r0 \in Readers : late'[r0] => at'[r0] \notin {"off", "timer"}
    BY <1>22, FileType, NoFileType DEF SweepBody, Remove, Fault, Sweeps, chat, files,
       drains, sweeper, TypeOK, ReadStages
  <2>9. sweep'.at \in {"off", "body", "claim", "expired"} /\ sweep'.file \in File
    BY <1>22, FileType, NoFileType DEF SweepBody, Remove, Fault, Sweeps, chat, files,
       drains, sweeper, TypeOK
  <2>10. swept' \subseteq Copy /\ failed' \subseteq File
    BY <1>22, FileType, NoFileType DEF SweepBody, Remove, Fault, Sweeps, chat, files,
       drains, sweeper, TypeOK, ReadStages
  <2>11. turns' \in [Copy -> Nat]
    BY <1>22, FileType, NoFileType DEF SweepBody, Remove, Fault, Sweeps, chat, files,
       drains, sweeper, TypeOK, ReadStages
  <2>12. QED
    BY <2>1, <2>2, <2>3, <2>4, <2>5, <2>6, <2>7, <2>8, <2>9, <2>10, <2>11 DEF TypeOK
<1>23. ASSUME SweepClaim PROVE TypeOK'
  BY <1>23, FileType, NoFileType DEF SweepClaim, unclaim, Sweeps, chat, files, drains,
     sweeper, TypeOK, SendStages, ReadStages, Answered, Phases
<1>24. ASSUME Park PROVE TypeOK'
  BY <1>24, FileType, NoFileType DEF Park, chat, files, drains, sweeper, TypeOK,
     SendStages, ReadStages, Answered, Phases
<1>25. ASSUME Withdraw PROVE TypeOK'
  BY <1>25, FileType, NoFileType DEF Withdraw, chat, files, drains, sweeper, TypeOK,
     SendStages, ReadStages, Answered, Phases
<1>26. ASSUME Stop PROVE TypeOK'
  BY <1>26, FileType, NoFileType DEF Stop, Quiet, chat, files, drains, sweeper,
     TypeOK, SendStages, ReadStages, Answered, Phases
<1>27. ASSUME Unpark PROVE TypeOK'
  BY <1>27, FileType, NoFileType DEF Unpark, chat, files, drains, sweeper, TypeOK,
     SendStages, ReadStages, Answered, Phases
<1>28. ASSUME Wake PROVE TypeOK'
  BY <1>28, FileType, NoFileType DEF Wake, chat, files, drains, sweeper, TypeOK,
     SendStages, ReadStages, Answered, Phases
<1>29. ASSUME Restore PROVE TypeOK'
  BY <1>29, FileType, NoFileType DEF Restore, Starts, Idle, Goes, chat, files, drains,
     sweeper, TypeOK, SendStages, ReadStages, Answered, Phases
<1>30. ASSUME Close PROVE TypeOK'
  BY <1>30, FileType, NoFileType DEF Close, Quiet, chat, files, drains, sweeper,
     TypeOK, SendStages, ReadStages, Answered, Phases
<1>31. ASSUME EngineDies PROVE TypeOK'
  <2>1. phase' \in Phases /\ faults' \in Nat /\ unheard' \subseteq Mail /\ cut' \subseteq Mail
    BY <1>31, FileType, NoFileType DEF EngineDies, Quiet, Fault, chat, files, drains,
       sweeper, TypeOK, Phases
  <2>2. body' \subseteq File /\ claimed' \subseteq File
    BY <1>31, FileType, NoFileType DEF EngineDies, Quiet, Fault, chat, files, drains,
       sweeper, TypeOK, ReadStages
  <2>3. stamp' \in [File -> Nat] /\ clock' \in Nat
    BY <1>31, FileType, NoFileType DEF EngineDies, Quiet, Fault, chat, files, drains,
       sweeper, TypeOK, ReadStages
  <2>4. send' \in [Copy -> SendStages]
    BY <1>31, FileType, NoFileType DEF EngineDies, Quiet, Fault, chat, files, drains,
       sweeper, TypeOK, SendStages, Answered
  <2>5. at' \in [Readers -> ReadStages]
    BY <1>31, FileType, NoFileType DEF EngineDies, Quiet, Fault, chat, files, drains,
       sweeper, TypeOK, ReadStages
  <2>6. left' \in [Readers -> SUBSET File] /\ cur' \in [Readers -> File]
    BY <1>31, FileType, NoFileType DEF EngineDies, Quiet, Fault, chat, files, drains,
       sweeper, TypeOK, ReadStages
  <2>7. late' \in [Readers -> BOOLEAN]
    BY <1>31, FileType, NoFileType DEF EngineDies, Quiet, Fault, chat, files, drains,
       sweeper, TypeOK, ReadStages
  <2>8. \A r0 \in Readers : late'[r0] => at'[r0] \notin {"off", "timer"}
    BY <1>31, FileType, NoFileType DEF EngineDies, Quiet, Fault, chat, files, drains,
       sweeper, TypeOK, ReadStages
  <2>9. sweep'.at \in {"off", "body", "claim", "expired"} /\ sweep'.file \in File
    BY <1>31, FileType, NoFileType DEF EngineDies, Quiet, Fault, chat, files, drains,
       sweeper, TypeOK
  <2>10. swept' \subseteq Copy /\ failed' \subseteq File
    BY <1>31, FileType, NoFileType DEF EngineDies, Quiet, Fault, chat, files, drains,
       sweeper, TypeOK, ReadStages
  <2>11. turns' \in [Copy -> Nat]
    BY <1>31, FileType, NoFileType DEF EngineDies, Quiet, Fault, chat, files, drains,
       sweeper, TypeOK, ReadStages
  <2>12. QED
    BY <2>1, <2>2, <2>3, <2>4, <2>5, <2>6, <2>7, <2>8, <2>9, <2>10, <2>11 DEF TypeOK
<1>32. ASSUME Open PROVE TypeOK'
  BY <1>32, FileType, NoFileType DEF Open, Starts, Idle, Goes, chat, files, drains,
     sweeper, TypeOK, SendStages, ReadStages, Answered, Phases
<1>33. ASSUME Retry PROVE TypeOK'
  BY <1>33, FileType, NoFileType DEF Retry, chat, files, drains, sweeper, TypeOK,
     SendStages, ReadStages, Answered, Phases
<1>34. CASE UNCHANGED vars
  BY <1>34, FileType, NoFileType DEF vars, chat, files, drains, sweeper, TypeOK,
     SendStages, ReadStages, Answered, Phases
<1>35. QED
  BY <1>1, <1>2, <1>3, <1>4, <1>5, <1>6, <1>7, <1>8, <1>9, <1>10, <1>11, <1>12, <1>13,
     <1>14, <1>15, <1>16, <1>17, <1>18, <1>19, <1>20, <1>21, <1>22, <1>23, <1>24, <1>25,
     <1>26, <1>27, <1>28, <1>29, <1>30, <1>31, <1>32, <1>33, <1>34 DEF Next, Sender,
     Keep, Drain, Sweep

(* Every variable keeps its type, and only a drain at work has made its      *)
(* first pass.                                                               *)
THEOREM TypeCorrect == Spec => []TypeOK
<1>1. Init => TypeOK
  BY NoFileType DEF Init, TypeOK, SendStages, ReadStages, Phases
<1>2. TypeOK /\ [Next]_vars => TypeOK'
  BY TypeStep
<1>3. QED
  BY <1>1, <1>2, PTL DEF Spec

(* The first files of two copies are two files.                              *)
LEMMA FirstType ==
    /\ \A c \in Copy : First(c) \in File
    /\ \A c, n \in Copy : First(c) = First(n) => c = n
  BY FileType

(***************************************************************************)
(* The invariants.                                                         *)
(***************************************************************************)

Holds(r, f) == at[r] \in {"read", "admit", "delete", "release"} /\ cur[r] = f
Takes(c) == send[c] \in {"taking", "give up", "put back"}

\* A file that was never deposited is unknown to everyone.
Known ==
    /\ \A f \in File : stamp[f] = 0 => f \notin body /\ f \notin claimed
    /\ \A f \in File, r \in Readers : stamp[f] = 0 => f \notin left[r] /\ ~Holds(r, f)
    /\ \A f \in File : stamp[f] = 0 /\ sweep.at # "off" => sweep.file # f

\* A copy is deposited by its sender or for it once, and before that no drain knew of it.
Early ==
    /\ \A c \in Copy : send[c] \in {"new", "posting", "seeking", "keeping"} =>
           stamp[First(c)] = 0 /\ turns[c] = 0
    /\ \A c \in Copy :
           send[c] \in {"asking", "asking again", "claiming"} \/ Takes(c) => stamp[First(c)] # 0
    /\ \A c \in Copy : send[c] = "failed" => stamp[First(c)] = 0 /\ turns[c] = 0

\* A drain that works on a body that is there has its claim, and is alone.
Drained ==
    /\ \A f \in body, r \in Readers : Holds(r, f) => f \in claimed
    /\ \A f \in body, r, s \in Readers : Holds(r, f) /\ Holds(s, f) => r = s

\* So has a sender that takes its body back.
Taken ==
    /\ \A c \in Copy : First(c) \in body /\ Takes(c) => First(c) \in claimed
    /\ \A c \in Copy, r \in Readers : First(c) \in body /\ Takes(c) => ~Holds(r, First(c))

\* Also when the body is gone, one drain has it in hand.
InOneHand ==
    \A r, s \in Readers : at[r] \in {"admit", "delete"} /\ at[s] \in {"admit", "delete"}
        /\ cur[r] = cur[s] => r = s

\* Who lifts a claim for good deleted the body.
Lifted ==
    /\ \A c \in Copy : send[c] = "give up" => First(c) \notin body
    /\ sweep.at = "claim" => sweep.file \notin body

\* The file may still be admitted.
Pending(f) ==
    \/ f \in body /\ f \notin claimed
    \/ f \in body /\ \E r \in Readers : Holds(r, f) /\ at[r] # "delete"
    \/ f \in body /\ \E c \in Copy : f = First(c) /\ Takes(c)
    \/ \E r \in Readers : at[r] = "admit" /\ cur[r] = f

\* A copy is kept again only when its file was admitted, and read only once.
Token ==
    /\ \A f, g \in File : f[1] = g[1] /\ f[2] < g[2] /\ stamp[g] # 0 => stamp[f] # 0 /\ ~Pending(f)
    /\ \A f \in File : Pending(f) => turns[f[1]] = 0
    /\ \A c \in Copy : turns[c] <= 1

(***************************************************************************)
(* What one step can do to a file, a drain and a sender.                   *)
(***************************************************************************)

(* A claim is lifted by its drain, by its sender, or by the sweep.            *)
LEMMA Frees ==
    ASSUME TypeOK, NEW f \in File, [Next]_vars, f \in claimed, f \notin claimed'
    PROVE  \/ \E r \in Readers : at[r] = "release" /\ cur[r] = f /\ at'[r] = "next"
           \/ \E c \in Copy : send[c] \in {"give up", "put back"} /\ First(c) = f /\ send'[c] \in {"refused", "sent"}
           \/ sweep.at = "claim" /\ sweep.file = f
<1> DEFINE Claimed ==
           \/ \E r \in Readers : at[r] = "release" /\ cur[r] = f /\ at'[r] = "next"
           \/ \E c \in Copy : send[c] \in {"give up", "put back"} /\ First(c) = f /\ send'[c] \in {"refused", "sent"}
           \/ sweep.at = "claim" /\ sweep.file = f
<1> SUFFICES Claimed
  OBVIOUS
<1>1. ASSUME NEW n \in Mail, Locate(n) PROVE Claimed
  BY <1>1 DEF Locate, To, chat, files, drains, sweeper, TypeOK
<1>2. ASSUME NEW n \in Mail, Serve(n) PROVE Claimed
  BY <1>2 DEF Serve, To, deposit, Fault, chat, files, drains, sweeper, TypeOK
<1>3. ASSUME NEW n \in Mail, GiveUp(n) PROVE Claimed
  BY <1>3 DEF GiveUp, Fault, chat, files, drains, sweeper, TypeOK
<1>4. ASSUME NEW n \in Mail, FallBack(n) PROVE Claimed
  BY <1>4 DEF FallBack, To, chat, files, drains, sweeper, TypeOK
<1>5. ASSUME NEW n \in Copy, Seek(n) PROVE Claimed
  BY <1>5 DEF Seek, To, chat, files, drains, sweeper, TypeOK
<1>6. ASSUME NEW n \in Copy, Deposit(n) PROVE Claimed
  BY <1>6 DEF Deposit, To, deposit, Fault, chat, files, drains, sweeper, TypeOK
<1>7. ASSUME NEW n \in Copy, AskAgain(n) PROVE Claimed
  BY <1>7 DEF AskAgain, To, chat, files, drains, sweeper, TypeOK
<1>8. ASSUME NEW n \in Copy, ClaimBack(n) PROVE Claimed
  BY <1>8 DEF ClaimBack, To, Claim, chat, files, drains, sweeper, TypeOK
<1>9. ASSUME NEW n \in Copy, TakeBack(n) PROVE Claimed
  BY <1>9 DEF TakeBack, To, Remove, Fault, chat, files, drains, sweeper, TypeOK
<1>10. ASSUME NEW n \in Copy, UnclaimBack(n) PROVE Claimed
  <2>1. f = First(n) /\ send[n] \in {"give up", "put back"}
    BY <1>10 DEF UnclaimBack, unclaim
  <2>3. send'[n] \in {"refused", "sent"}
    BY <1>10 DEF UnclaimBack, To, TypeOK
  <2>2. QED
    BY <2>1, <2>3 DEF Claimed
<1>11. ASSUME NEW n \in Mail, SenderDies(n) PROVE Claimed
  BY <1>11 DEF SenderDies, To, Fault, chat, files, drains, sweeper, TypeOK
<1>12. ASSUME NEW q \in Readers, List(q) PROVE Claimed
  BY <1>12 DEF List, Goes, chat, files, drains, sweeper, TypeOK
<1>13. ASSUME NEW q \in Readers, Take(q) PROVE Claimed
  BY <1>13 DEF Take, Goes, Claim, chat, files, drains, sweeper, TypeOK
<1>14. ASSUME NEW q \in Readers, Read(q) PROVE Claimed
  BY <1>14 DEF Read, Goes, chat, files, drains, sweeper, TypeOK
<1>15. ASSUME NEW q \in Readers, Admit(q) PROVE Claimed
  BY <1>15 DEF Admit, Goes, deposit, Fault, chat, files, drains, sweeper, TypeOK
<1>16. ASSUME NEW q \in Readers, Delete(q) PROVE Claimed
  BY <1>16 DEF Delete, Goes, Remove, Fault, chat, files, drains, sweeper, TypeOK
<1>17. ASSUME NEW q \in Readers, Release(q) PROVE Claimed
  BY <1>17 DEF Release, Goes, unclaim, chat, files, drains, sweeper, TypeOK
<1>18. ASSUME NEW q \in Readers, Ends(q) PROVE Claimed
  BY <1>18 DEF Ends, Goes, chat, files, drains, sweeper, TypeOK
<1>19. ASSUME NEW q \in Readers, LateDrain(q) PROVE Claimed
  BY <1>19 DEF LateDrain, Goes, chat, files, drains, sweeper, TypeOK
<1>20. ASSUME NEW g \in File, FindStale(g) PROVE Claimed
  BY <1>20 DEF FindStale, Sweeps, chat, files, drains, sweeper, TypeOK
<1>21. ASSUME NEW g \in File, FindExpired(g) PROVE Claimed
  BY <1>21 DEF FindExpired, Sweeps, chat, files, drains, sweeper, TypeOK
<1>22. ASSUME SweepBody PROVE Claimed
  BY <1>22 DEF SweepBody, Remove, Fault, Sweeps, chat, files, drains, sweeper, TypeOK
<1>23. ASSUME SweepClaim PROVE Claimed
  <2>1. f = sweep.file /\ sweep.at = "claim"
    BY <1>23 DEF SweepClaim, unclaim
  <2>2. QED
    BY <2>1 DEF Claimed
<1>24. ASSUME Park PROVE Claimed
  BY <1>24 DEF Park, chat, files, drains, sweeper, TypeOK
<1>25. ASSUME Withdraw PROVE Claimed
  BY <1>25 DEF Withdraw, chat, files, drains, sweeper, TypeOK
<1>26. ASSUME Stop PROVE Claimed
  BY <1>26 DEF Stop, Quiet, chat, files, drains, sweeper, TypeOK
<1>27. ASSUME Unpark PROVE Claimed
  BY <1>27 DEF Unpark, chat, files, drains, sweeper, TypeOK
<1>28. ASSUME Wake PROVE Claimed
  BY <1>28 DEF Wake, chat, files, drains, sweeper, TypeOK
<1>29. ASSUME Restore PROVE Claimed
  BY <1>29 DEF Restore, Starts, Idle, Goes, chat, files, drains, sweeper, TypeOK
<1>30. ASSUME Close PROVE Claimed
  BY <1>30 DEF Close, Quiet, chat, files, drains, sweeper, TypeOK
<1>31. ASSUME EngineDies PROVE Claimed
  BY <1>31 DEF EngineDies, Quiet, Fault, chat, files, drains, sweeper, TypeOK
<1>32. ASSUME Open PROVE Claimed
  BY <1>32 DEF Open, Starts, Idle, Goes, chat, files, drains, sweeper, TypeOK
<1>33. ASSUME Retry PROVE Claimed
  BY <1>33 DEF Retry, chat, files, drains, sweeper, TypeOK
<1>34. CASE UNCHANGED vars
  BY <1>34 DEF vars, chat, files, drains, sweeper
<1>35. QED
  BY <1>1, <1>2, <1>3, <1>4, <1>5, <1>6, <1>7, <1>8, <1>9, <1>10, <1>11, <1>12, <1>13,
     <1>14, <1>15, <1>16, <1>17, <1>18, <1>19, <1>20, <1>21, <1>22, <1>23, <1>24, <1>25,
     <1>26, <1>27, <1>28, <1>29, <1>30, <1>31, <1>32, <1>33, <1>34 DEF Next, Sender,
     Keep, Drain, Sweep

(* A drain that takes a file in hand claims it.                               *)
LEMMA DrainTakes ==
    ASSUME TypeOK, NEW f \in File, NEW r \in Readers, [Next]_vars, Holds(r, f)', ~Holds(r, f)
    PROVE  /\ at[r] = "next" /\ at'[r] = "read" /\ f \in left[r]
           /\ f \notin claimed /\ f \in claimed'
           /\ \A s \in Readers : s # r => at'[s] = at[s] /\ cur'[s] = cur[s]
           /\ UNCHANGED << body, stamp, send, turns, sweep, swept >>
<1> DEFINE Claimed ==
           /\ at[r] = "next" /\ at'[r] = "read" /\ f \in left[r]
           /\ f \notin claimed /\ f \in claimed'
           /\ \A s \in Readers : s # r => at'[s] = at[s] /\ cur'[s] = cur[s]
           /\ UNCHANGED << body, stamp, send, turns, sweep, swept >>
<1> SUFFICES Claimed
  OBVIOUS
<1>1. ASSUME NEW n \in Mail, Locate(n) PROVE Claimed
  BY <1>1 DEF Locate, To, chat, files, drains, sweeper, TypeOK, Holds
<1>2. ASSUME NEW n \in Mail, Serve(n) PROVE Claimed
  BY <1>2 DEF Serve, To, deposit, Fault, chat, files, drains, sweeper, TypeOK, Holds
<1>3. ASSUME NEW n \in Mail, GiveUp(n) PROVE Claimed
  BY <1>3 DEF GiveUp, Fault, chat, files, drains, sweeper, TypeOK, Holds
<1>4. ASSUME NEW n \in Mail, FallBack(n) PROVE Claimed
  BY <1>4 DEF FallBack, To, chat, files, drains, sweeper, TypeOK, Holds
<1>5. ASSUME NEW n \in Copy, Seek(n) PROVE Claimed
  BY <1>5 DEF Seek, To, chat, files, drains, sweeper, TypeOK, Holds
<1>6. ASSUME NEW n \in Copy, Deposit(n) PROVE Claimed
  BY <1>6 DEF Deposit, To, deposit, Fault, chat, files, drains, sweeper, TypeOK, Holds
<1>7. ASSUME NEW n \in Copy, AskAgain(n) PROVE Claimed
  BY <1>7 DEF AskAgain, To, chat, files, drains, sweeper, TypeOK, Holds
<1>8. ASSUME NEW n \in Copy, ClaimBack(n) PROVE Claimed
  BY <1>8 DEF ClaimBack, To, Claim, chat, files, drains, sweeper, TypeOK, Holds
<1>9. ASSUME NEW n \in Copy, TakeBack(n) PROVE Claimed
  BY <1>9 DEF TakeBack, To, Remove, Fault, chat, files, drains, sweeper, TypeOK, Holds
<1>10. ASSUME NEW n \in Copy, UnclaimBack(n) PROVE Claimed
  BY <1>10 DEF UnclaimBack, To, unclaim, chat, files, drains, sweeper, TypeOK, Holds
<1>11. ASSUME NEW n \in Mail, SenderDies(n) PROVE Claimed
  BY <1>11 DEF SenderDies, To, Fault, chat, files, drains, sweeper, TypeOK, Holds
<1>12. ASSUME NEW q \in Readers, List(q) PROVE Claimed
  BY <1>12 DEF List, Goes, chat, files, drains, sweeper, TypeOK, Holds
<1>13. ASSUME NEW q \in Readers, Take(q) PROVE Claimed
  BY <1>13 DEF Take, Goes, Claim, chat, files, drains, sweeper, TypeOK, Holds
<1>14. ASSUME NEW q \in Readers, Read(q) PROVE Claimed
  BY <1>14 DEF Read, Goes, chat, files, drains, sweeper, TypeOK, Holds
<1>15. ASSUME NEW q \in Readers, Admit(q) PROVE Claimed
  BY <1>15 DEF Admit, Goes, deposit, Fault, chat, files, drains, sweeper, TypeOK, Holds
<1>16. ASSUME NEW q \in Readers, Delete(q) PROVE Claimed
  BY <1>16 DEF Delete, Goes, Remove, Fault, chat, files, drains, sweeper, TypeOK, Holds
<1>17. ASSUME NEW q \in Readers, Release(q) PROVE Claimed
  BY <1>17 DEF Release, Goes, unclaim, chat, files, drains, sweeper, TypeOK, Holds
<1>18. ASSUME NEW q \in Readers, Ends(q) PROVE Claimed
  BY <1>18 DEF Ends, Goes, chat, files, drains, sweeper, TypeOK, Holds
<1>19. ASSUME NEW q \in Readers, LateDrain(q) PROVE Claimed
  BY <1>19 DEF LateDrain, Goes, chat, files, drains, sweeper, TypeOK, Holds
<1>20. ASSUME NEW g \in File, FindStale(g) PROVE Claimed
  BY <1>20 DEF FindStale, Sweeps, chat, files, drains, sweeper, TypeOK, Holds
<1>21. ASSUME NEW g \in File, FindExpired(g) PROVE Claimed
  BY <1>21 DEF FindExpired, Sweeps, chat, files, drains, sweeper, TypeOK, Holds
<1>22. ASSUME SweepBody PROVE Claimed
  BY <1>22 DEF SweepBody, Remove, Fault, Sweeps, chat, files, drains, sweeper, TypeOK,
     Holds
<1>23. ASSUME SweepClaim PROVE Claimed
  BY <1>23 DEF SweepClaim, unclaim, Sweeps, chat, files, drains, sweeper, TypeOK, Holds
<1>24. ASSUME Park PROVE Claimed
  BY <1>24 DEF Park, chat, files, drains, sweeper, TypeOK, Holds
<1>25. ASSUME Withdraw PROVE Claimed
  BY <1>25 DEF Withdraw, chat, files, drains, sweeper, TypeOK, Holds
<1>26. ASSUME Stop PROVE Claimed
  BY <1>26 DEF Stop, Quiet, chat, files, drains, sweeper, TypeOK, Holds
<1>27. ASSUME Unpark PROVE Claimed
  BY <1>27 DEF Unpark, chat, files, drains, sweeper, TypeOK, Holds
<1>28. ASSUME Wake PROVE Claimed
  BY <1>28 DEF Wake, chat, files, drains, sweeper, TypeOK, Holds
<1>29. ASSUME Restore PROVE Claimed
  BY <1>29 DEF Restore, Starts, Idle, Goes, chat, files, drains, sweeper, TypeOK, Holds
<1>30. ASSUME Close PROVE Claimed
  BY <1>30 DEF Close, Quiet, chat, files, drains, sweeper, TypeOK, Holds
<1>31. ASSUME EngineDies PROVE Claimed
  BY <1>31 DEF EngineDies, Quiet, Fault, chat, files, drains, sweeper, TypeOK, Holds
<1>32. ASSUME Open PROVE Claimed
  BY <1>32 DEF Open, Starts, Idle, Goes, chat, files, drains, sweeper, TypeOK, Holds
<1>33. ASSUME Retry PROVE Claimed
  BY <1>33 DEF Retry, chat, files, drains, sweeper, TypeOK, Holds
<1>34. CASE UNCHANGED vars
  BY <1>34 DEF vars, chat, files, drains, sweeper, Holds
<1>35. QED
  BY <1>1, <1>2, <1>3, <1>4, <1>5, <1>6, <1>7, <1>8, <1>9, <1>10, <1>11, <1>12, <1>13,
     <1>14, <1>15, <1>16, <1>17, <1>18, <1>19, <1>20, <1>21, <1>22, <1>23, <1>24, <1>25,
     <1>26, <1>27, <1>28, <1>29, <1>30, <1>31, <1>32, <1>33, <1>34 DEF Next, Sender,
     Keep, Drain, Sweep

(* A sender that takes its body back claims it.                               *)
LEMMA SenderTakes ==
    ASSUME TypeOK, NEW c \in Copy, [Next]_vars, Takes(c)', ~Takes(c)
    PROVE  /\ send[c] = "claiming" /\ send'[c] = "taking"
           /\ First(c) \notin claimed /\ First(c) \in claimed'
           /\ \A n \in Copy : n # c => send'[n] = send[n]
           /\ UNCHANGED << body, stamp, at, cur, turns, sweep, swept >>
<1> DEFINE Claimed ==
           /\ send[c] = "claiming" /\ send'[c] = "taking"
           /\ First(c) \notin claimed /\ First(c) \in claimed'
           /\ \A n \in Copy : n # c => send'[n] = send[n]
           /\ UNCHANGED << body, stamp, at, cur, turns, sweep, swept >>
<1> SUFFICES Claimed
  OBVIOUS
<1>1. ASSUME NEW n \in Mail, Locate(n) PROVE Claimed
  BY <1>1 DEF Locate, To, chat, files, drains, sweeper, TypeOK, Takes
<1>2. ASSUME NEW n \in Mail, Serve(n) PROVE Claimed
  BY <1>2 DEF Serve, To, deposit, Fault, chat, files, drains, sweeper, TypeOK, Takes
<1>3. ASSUME NEW n \in Mail, GiveUp(n) PROVE Claimed
  BY <1>3 DEF GiveUp, Fault, chat, files, drains, sweeper, TypeOK, Takes
<1>4. ASSUME NEW n \in Mail, FallBack(n) PROVE Claimed
  BY <1>4 DEF FallBack, To, chat, files, drains, sweeper, TypeOK, Takes
<1>5. ASSUME NEW n \in Copy, Seek(n) PROVE Claimed
  BY <1>5 DEF Seek, To, chat, files, drains, sweeper, TypeOK, Takes
<1>6. ASSUME NEW n \in Copy, Deposit(n) PROVE Claimed
  BY <1>6 DEF Deposit, To, deposit, Fault, chat, files, drains, sweeper, TypeOK, Takes
<1>7. ASSUME NEW n \in Copy, AskAgain(n) PROVE Claimed
  BY <1>7 DEF AskAgain, To, chat, files, drains, sweeper, TypeOK, Takes
<1>8. ASSUME NEW n \in Copy, ClaimBack(n) PROVE Claimed
  BY <1>8 DEF ClaimBack, To, Claim, chat, files, drains, sweeper, TypeOK, Takes
<1>9. ASSUME NEW n \in Copy, TakeBack(n) PROVE Claimed
  BY <1>9 DEF TakeBack, To, Remove, Fault, chat, files, drains, sweeper, TypeOK, Takes
<1>10. ASSUME NEW n \in Copy, UnclaimBack(n) PROVE Claimed
  BY <1>10 DEF UnclaimBack, To, unclaim, chat, files, drains, sweeper, TypeOK, Takes
<1>11. ASSUME NEW n \in Mail, SenderDies(n) PROVE Claimed
  BY <1>11 DEF SenderDies, To, Fault, chat, files, drains, sweeper, TypeOK, Takes
<1>12. ASSUME NEW q \in Readers, List(q) PROVE Claimed
  BY <1>12 DEF List, Goes, chat, files, drains, sweeper, TypeOK, Takes
<1>13. ASSUME NEW q \in Readers, Take(q) PROVE Claimed
  BY <1>13 DEF Take, Goes, Claim, chat, files, drains, sweeper, TypeOK, Takes
<1>14. ASSUME NEW q \in Readers, Read(q) PROVE Claimed
  BY <1>14 DEF Read, Goes, chat, files, drains, sweeper, TypeOK, Takes
<1>15. ASSUME NEW q \in Readers, Admit(q) PROVE Claimed
  BY <1>15 DEF Admit, Goes, deposit, Fault, chat, files, drains, sweeper, TypeOK, Takes
<1>16. ASSUME NEW q \in Readers, Delete(q) PROVE Claimed
  BY <1>16 DEF Delete, Goes, Remove, Fault, chat, files, drains, sweeper, TypeOK, Takes
<1>17. ASSUME NEW q \in Readers, Release(q) PROVE Claimed
  BY <1>17 DEF Release, Goes, unclaim, chat, files, drains, sweeper, TypeOK, Takes
<1>18. ASSUME NEW q \in Readers, Ends(q) PROVE Claimed
  BY <1>18 DEF Ends, Goes, chat, files, drains, sweeper, TypeOK, Takes
<1>19. ASSUME NEW q \in Readers, LateDrain(q) PROVE Claimed
  BY <1>19 DEF LateDrain, Goes, chat, files, drains, sweeper, TypeOK, Takes
<1>20. ASSUME NEW g \in File, FindStale(g) PROVE Claimed
  BY <1>20 DEF FindStale, Sweeps, chat, files, drains, sweeper, TypeOK, Takes
<1>21. ASSUME NEW g \in File, FindExpired(g) PROVE Claimed
  BY <1>21 DEF FindExpired, Sweeps, chat, files, drains, sweeper, TypeOK, Takes
<1>22. ASSUME SweepBody PROVE Claimed
  BY <1>22 DEF SweepBody, Remove, Fault, Sweeps, chat, files, drains, sweeper, TypeOK,
     Takes
<1>23. ASSUME SweepClaim PROVE Claimed
  BY <1>23 DEF SweepClaim, unclaim, Sweeps, chat, files, drains, sweeper, TypeOK, Takes
<1>24. ASSUME Park PROVE Claimed
  BY <1>24 DEF Park, chat, files, drains, sweeper, TypeOK, Takes
<1>25. ASSUME Withdraw PROVE Claimed
  BY <1>25 DEF Withdraw, chat, files, drains, sweeper, TypeOK, Takes
<1>26. ASSUME Stop PROVE Claimed
  BY <1>26 DEF Stop, Quiet, chat, files, drains, sweeper, TypeOK, Takes
<1>27. ASSUME Unpark PROVE Claimed
  BY <1>27 DEF Unpark, chat, files, drains, sweeper, TypeOK, Takes
<1>28. ASSUME Wake PROVE Claimed
  BY <1>28 DEF Wake, chat, files, drains, sweeper, TypeOK, Takes
<1>29. ASSUME Restore PROVE Claimed
  BY <1>29 DEF Restore, Starts, Idle, Goes, chat, files, drains, sweeper, TypeOK, Takes
<1>30. ASSUME Close PROVE Claimed
  BY <1>30 DEF Close, Quiet, chat, files, drains, sweeper, TypeOK, Takes
<1>31. ASSUME EngineDies PROVE Claimed
  BY <1>31 DEF EngineDies, Quiet, Fault, chat, files, drains, sweeper, TypeOK, Takes
<1>32. ASSUME Open PROVE Claimed
  BY <1>32 DEF Open, Starts, Idle, Goes, chat, files, drains, sweeper, TypeOK, Takes
<1>33. ASSUME Retry PROVE Claimed
  BY <1>33 DEF Retry, chat, files, drains, sweeper, TypeOK, Takes
<1>34. CASE UNCHANGED vars
  BY <1>34 DEF vars, chat, files, drains, sweeper, Takes
<1>35. QED
  BY <1>1, <1>2, <1>3, <1>4, <1>5, <1>6, <1>7, <1>8, <1>9, <1>10, <1>11, <1>12, <1>13,
     <1>14, <1>15, <1>16, <1>17, <1>18, <1>19, <1>20, <1>21, <1>22, <1>23, <1>24, <1>25,
     <1>26, <1>27, <1>28, <1>29, <1>30, <1>31, <1>32, <1>33, <1>34 DEF Next, Sender,
     Keep, Drain, Sweep

(* A body comes from its sender, or from a drain of an engine that is parking. *)
LEMMA Comes ==
    ASSUME TypeOK, NEW f \in File, [Next]_vars, f \in body', f \notin body
    PROVE  /\ stamp'[f] # 0 /\ body' = body \cup {f} /\ \A g \in File : g # f => stamp'[g] = stamp[g]
           /\ UNCHANGED << claimed, left, cur, turns, sweep, swept >>
           /\ \/ /\ \E c \in Copy : /\ f = First(c) /\ send[c] \in {"posting", "keeping"}
                                    /\ send'[c] \in {"sent", "asking"}
                                    /\ \A n \in Copy : n # c => send'[n] = send[n]
                 /\ UNCHANGED at
              \/ /\ \E r \in Readers : /\ at[r] = "admit" /\ f = << cur[r][1], cur[r][2] + 1 >>
                                       /\ at'[r] = "delete"
                                       /\ \A s \in Readers : s # r => at'[s] = at[s]
                 /\ UNCHANGED send
<1> DEFINE Claimed ==
           /\ stamp'[f] # 0 /\ body' = body \cup {f} /\ \A g \in File : g # f => stamp'[g] = stamp[g]
           /\ UNCHANGED << claimed, left, cur, turns, sweep, swept >>
           /\ \/ /\ \E c \in Copy : /\ f = First(c) /\ send[c] \in {"posting", "keeping"}
                                    /\ send'[c] \in {"sent", "asking"}
                                    /\ \A n \in Copy : n # c => send'[n] = send[n]
                 /\ UNCHANGED at
              \/ /\ \E r \in Readers : /\ at[r] = "admit" /\ f = << cur[r][1], cur[r][2] + 1 >>
                                       /\ at'[r] = "delete"
                                       /\ \A s \in Readers : s # r => at'[s] = at[s]
                 /\ UNCHANGED send
<1> SUFFICES Claimed
  OBVIOUS
<1>1. ASSUME NEW n \in Mail, Locate(n) PROVE Claimed
  BY <1>1 DEF Locate, To, chat, files, drains, sweeper, TypeOK
<1>2. ASSUME NEW n \in Mail, Serve(n) PROVE Claimed
  <2>1. Request(n) \in Copy /\ First(Request(n)) \in File
    BY CopyType, FirstType
  <2>2. QED
    BY <1>2, <2>1, FirstType DEF Serve, To, deposit, Fault, chat, files, drains, sweeper, TypeOK
<1>3. ASSUME NEW n \in Mail, GiveUp(n) PROVE Claimed
  BY <1>3 DEF GiveUp, Fault, chat, files, drains, sweeper, TypeOK
<1>4. ASSUME NEW n \in Mail, FallBack(n) PROVE Claimed
  BY <1>4 DEF FallBack, To, chat, files, drains, sweeper, TypeOK
<1>5. ASSUME NEW n \in Copy, Seek(n) PROVE Claimed
  BY <1>5 DEF Seek, To, chat, files, drains, sweeper, TypeOK
<1>6. ASSUME NEW n \in Copy, Deposit(n) PROVE Claimed
  BY <1>6, FirstType DEF Deposit, To, deposit, Fault, chat, files, drains, sweeper,
     TypeOK
<1>7. ASSUME NEW n \in Copy, AskAgain(n) PROVE Claimed
  BY <1>7 DEF AskAgain, To, chat, files, drains, sweeper, TypeOK
<1>8. ASSUME NEW n \in Copy, ClaimBack(n) PROVE Claimed
  BY <1>8 DEF ClaimBack, To, Claim, chat, files, drains, sweeper, TypeOK
<1>9. ASSUME NEW n \in Copy, TakeBack(n) PROVE Claimed
  BY <1>9 DEF TakeBack, To, Remove, Fault, chat, files, drains, sweeper, TypeOK
<1>10. ASSUME NEW n \in Copy, UnclaimBack(n) PROVE Claimed
  BY <1>10 DEF UnclaimBack, To, unclaim, chat, files, drains, sweeper, TypeOK
<1>11. ASSUME NEW n \in Mail, SenderDies(n) PROVE Claimed
  BY <1>11 DEF SenderDies, To, Fault, chat, files, drains, sweeper, TypeOK
<1>12. ASSUME NEW q \in Readers, List(q) PROVE Claimed
  BY <1>12 DEF List, Goes, chat, files, drains, sweeper, TypeOK
<1>13. ASSUME NEW q \in Readers, Take(q) PROVE Claimed
  BY <1>13 DEF Take, Goes, Claim, chat, files, drains, sweeper, TypeOK
<1>14. ASSUME NEW q \in Readers, Read(q) PROVE Claimed
  BY <1>14 DEF Read, Goes, chat, files, drains, sweeper, TypeOK
<1>15. ASSUME NEW q \in Readers, Admit(q) PROVE Claimed
  BY <1>15, NextFile DEF Admit, Goes, deposit, Fault, chat, files, drains, sweeper,
     TypeOK
<1>16. ASSUME NEW q \in Readers, Delete(q) PROVE Claimed
  BY <1>16 DEF Delete, Goes, Remove, Fault, chat, files, drains, sweeper, TypeOK
<1>17. ASSUME NEW q \in Readers, Release(q) PROVE Claimed
  BY <1>17 DEF Release, Goes, unclaim, chat, files, drains, sweeper, TypeOK
<1>18. ASSUME NEW q \in Readers, Ends(q) PROVE Claimed
  BY <1>18 DEF Ends, Goes, chat, files, drains, sweeper, TypeOK
<1>19. ASSUME NEW q \in Readers, LateDrain(q) PROVE Claimed
  BY <1>19 DEF LateDrain, Goes, chat, files, drains, sweeper, TypeOK
<1>20. ASSUME NEW g \in File, FindStale(g) PROVE Claimed
  BY <1>20 DEF FindStale, Sweeps, chat, files, drains, sweeper, TypeOK
<1>21. ASSUME NEW g \in File, FindExpired(g) PROVE Claimed
  BY <1>21 DEF FindExpired, Sweeps, chat, files, drains, sweeper, TypeOK
<1>22. ASSUME SweepBody PROVE Claimed
  BY <1>22 DEF SweepBody, Remove, Fault, Sweeps, chat, files, drains, sweeper, TypeOK
<1>23. ASSUME SweepClaim PROVE Claimed
  BY <1>23 DEF SweepClaim, unclaim, Sweeps, chat, files, drains, sweeper, TypeOK
<1>24. ASSUME Park PROVE Claimed
  BY <1>24 DEF Park, chat, files, drains, sweeper, TypeOK
<1>25. ASSUME Withdraw PROVE Claimed
  BY <1>25 DEF Withdraw, chat, files, drains, sweeper, TypeOK
<1>26. ASSUME Stop PROVE Claimed
  BY <1>26 DEF Stop, Quiet, chat, files, drains, sweeper, TypeOK
<1>27. ASSUME Unpark PROVE Claimed
  BY <1>27 DEF Unpark, chat, files, drains, sweeper, TypeOK
<1>28. ASSUME Wake PROVE Claimed
  BY <1>28 DEF Wake, chat, files, drains, sweeper, TypeOK
<1>29. ASSUME Restore PROVE Claimed
  BY <1>29 DEF Restore, Starts, Idle, Goes, chat, files, drains, sweeper, TypeOK
<1>30. ASSUME Close PROVE Claimed
  BY <1>30 DEF Close, Quiet, chat, files, drains, sweeper, TypeOK
<1>31. ASSUME EngineDies PROVE Claimed
  BY <1>31 DEF EngineDies, Quiet, Fault, chat, files, drains, sweeper, TypeOK
<1>32. ASSUME Open PROVE Claimed
  BY <1>32 DEF Open, Starts, Idle, Goes, chat, files, drains, sweeper, TypeOK
<1>33. ASSUME Retry PROVE Claimed
  BY <1>33 DEF Retry, chat, files, drains, sweeper, TypeOK
<1>34. CASE UNCHANGED vars
  BY <1>34 DEF vars, chat, files, drains, sweeper
<1>35. QED
  BY <1>1, <1>2, <1>3, <1>4, <1>5, <1>6, <1>7, <1>8, <1>9, <1>10, <1>11, <1>12, <1>13,
     <1>14, <1>15, <1>16, <1>17, <1>18, <1>19, <1>20, <1>21, <1>22, <1>23, <1>24, <1>25,
     <1>26, <1>27, <1>28, <1>29, <1>30, <1>31, <1>32, <1>33, <1>34 DEF Next, Sender,
     Keep, Drain, Sweep

(* Only a deposit dates a file.                                               *)
LEMMA Dates ==
    ASSUME TypeOK, NEW f \in File, [Next]_vars, stamp'[f] # stamp[f]
    PROVE  /\ f \in body' /\ stamp'[f] # 0
           /\ \/ \E c \in Copy : f = First(c) /\ send[c] \in {"posting", "keeping"} /\ send'[c] \in {"sent", "asking"}
              \/ \E r \in Readers : at[r] = "admit" /\ f = << cur[r][1], cur[r][2] + 1 >> /\ at'[r] = "delete"
<1> DEFINE Claimed ==
           /\ f \in body' /\ stamp'[f] # 0
           /\ \/ \E c \in Copy : f = First(c) /\ send[c] \in {"posting", "keeping"} /\ send'[c] \in {"sent", "asking"}
              \/ \E r \in Readers : at[r] = "admit" /\ f = << cur[r][1], cur[r][2] + 1 >> /\ at'[r] = "delete"
<1> SUFFICES Claimed
  OBVIOUS
<1>1. ASSUME NEW n \in Mail, Locate(n) PROVE Claimed
  BY <1>1 DEF Locate, To, chat, files, drains, sweeper, TypeOK
<1>2. ASSUME NEW n \in Mail, Serve(n) PROVE Claimed
  <2>1. Request(n) \in Copy /\ First(Request(n)) \in File
    BY CopyType, FirstType
  <2>2. QED
    BY <1>2, <2>1, FirstType DEF Serve, To, deposit, Fault, chat, files, drains, sweeper, TypeOK
<1>3. ASSUME NEW n \in Mail, GiveUp(n) PROVE Claimed
  BY <1>3 DEF GiveUp, Fault, chat, files, drains, sweeper, TypeOK
<1>4. ASSUME NEW n \in Mail, FallBack(n) PROVE Claimed
  BY <1>4 DEF FallBack, To, chat, files, drains, sweeper, TypeOK
<1>5. ASSUME NEW n \in Copy, Seek(n) PROVE Claimed
  BY <1>5 DEF Seek, To, chat, files, drains, sweeper, TypeOK
<1>6. ASSUME NEW n \in Copy, Deposit(n) PROVE Claimed
  BY <1>6, FirstType DEF Deposit, To, deposit, Fault, chat, files, drains, sweeper,
     TypeOK
<1>7. ASSUME NEW n \in Copy, AskAgain(n) PROVE Claimed
  BY <1>7 DEF AskAgain, To, chat, files, drains, sweeper, TypeOK
<1>8. ASSUME NEW n \in Copy, ClaimBack(n) PROVE Claimed
  BY <1>8 DEF ClaimBack, To, Claim, chat, files, drains, sweeper, TypeOK
<1>9. ASSUME NEW n \in Copy, TakeBack(n) PROVE Claimed
  BY <1>9 DEF TakeBack, To, Remove, Fault, chat, files, drains, sweeper, TypeOK
<1>10. ASSUME NEW n \in Copy, UnclaimBack(n) PROVE Claimed
  BY <1>10 DEF UnclaimBack, To, unclaim, chat, files, drains, sweeper, TypeOK
<1>11. ASSUME NEW n \in Mail, SenderDies(n) PROVE Claimed
  BY <1>11 DEF SenderDies, To, Fault, chat, files, drains, sweeper, TypeOK
<1>12. ASSUME NEW q \in Readers, List(q) PROVE Claimed
  BY <1>12 DEF List, Goes, chat, files, drains, sweeper, TypeOK
<1>13. ASSUME NEW q \in Readers, Take(q) PROVE Claimed
  BY <1>13 DEF Take, Goes, Claim, chat, files, drains, sweeper, TypeOK
<1>14. ASSUME NEW q \in Readers, Read(q) PROVE Claimed
  BY <1>14 DEF Read, Goes, chat, files, drains, sweeper, TypeOK
<1>15. ASSUME NEW q \in Readers, Admit(q) PROVE Claimed
  BY <1>15, NextFile DEF Admit, Goes, deposit, Fault, chat, files, drains, sweeper,
     TypeOK
<1>16. ASSUME NEW q \in Readers, Delete(q) PROVE Claimed
  BY <1>16 DEF Delete, Goes, Remove, Fault, chat, files, drains, sweeper, TypeOK
<1>17. ASSUME NEW q \in Readers, Release(q) PROVE Claimed
  BY <1>17 DEF Release, Goes, unclaim, chat, files, drains, sweeper, TypeOK
<1>18. ASSUME NEW q \in Readers, Ends(q) PROVE Claimed
  BY <1>18 DEF Ends, Goes, chat, files, drains, sweeper, TypeOK
<1>19. ASSUME NEW q \in Readers, LateDrain(q) PROVE Claimed
  BY <1>19 DEF LateDrain, Goes, chat, files, drains, sweeper, TypeOK
<1>20. ASSUME NEW g \in File, FindStale(g) PROVE Claimed
  BY <1>20 DEF FindStale, Sweeps, chat, files, drains, sweeper, TypeOK
<1>21. ASSUME NEW g \in File, FindExpired(g) PROVE Claimed
  BY <1>21 DEF FindExpired, Sweeps, chat, files, drains, sweeper, TypeOK
<1>22. ASSUME SweepBody PROVE Claimed
  BY <1>22 DEF SweepBody, Remove, Fault, Sweeps, chat, files, drains, sweeper, TypeOK
<1>23. ASSUME SweepClaim PROVE Claimed
  BY <1>23 DEF SweepClaim, unclaim, Sweeps, chat, files, drains, sweeper, TypeOK
<1>24. ASSUME Park PROVE Claimed
  BY <1>24 DEF Park, chat, files, drains, sweeper, TypeOK
<1>25. ASSUME Withdraw PROVE Claimed
  BY <1>25 DEF Withdraw, chat, files, drains, sweeper, TypeOK
<1>26. ASSUME Stop PROVE Claimed
  BY <1>26 DEF Stop, Quiet, chat, files, drains, sweeper, TypeOK
<1>27. ASSUME Unpark PROVE Claimed
  BY <1>27 DEF Unpark, chat, files, drains, sweeper, TypeOK
<1>28. ASSUME Wake PROVE Claimed
  BY <1>28 DEF Wake, chat, files, drains, sweeper, TypeOK
<1>29. ASSUME Restore PROVE Claimed
  BY <1>29 DEF Restore, Starts, Idle, Goes, chat, files, drains, sweeper, TypeOK
<1>30. ASSUME Close PROVE Claimed
  BY <1>30 DEF Close, Quiet, chat, files, drains, sweeper, TypeOK
<1>31. ASSUME EngineDies PROVE Claimed
  BY <1>31 DEF EngineDies, Quiet, Fault, chat, files, drains, sweeper, TypeOK
<1>32. ASSUME Open PROVE Claimed
  BY <1>32 DEF Open, Starts, Idle, Goes, chat, files, drains, sweeper, TypeOK
<1>33. ASSUME Retry PROVE Claimed
  BY <1>33 DEF Retry, chat, files, drains, sweeper, TypeOK
<1>34. CASE UNCHANGED vars
  BY <1>34 DEF vars, chat, files, drains, sweeper
<1>35. QED
  BY <1>1, <1>2, <1>3, <1>4, <1>5, <1>6, <1>7, <1>8, <1>9, <1>10, <1>11, <1>12, <1>13,
     <1>14, <1>15, <1>16, <1>17, <1>18, <1>19, <1>20, <1>21, <1>22, <1>23, <1>24, <1>25,
     <1>26, <1>27, <1>28, <1>29, <1>30, <1>31, <1>32, <1>33, <1>34 DEF Next, Sender,
     Keep, Drain, Sweep

(* A claim is made by a drain for a name it read, or by a sender.             *)
LEMMA Claims ==
    ASSUME TypeOK, NEW f \in File, [Next]_vars, f \in claimed', f \notin claimed
    PROVE  \/ \E r \in Readers : at[r] = "next" /\ f \in left[r]
           \/ \E c \in Copy : send[c] = "claiming" /\ f = First(c)
<1> DEFINE Claimed ==
           \/ \E r \in Readers : at[r] = "next" /\ f \in left[r]
           \/ \E c \in Copy : send[c] = "claiming" /\ f = First(c)
<1> SUFFICES Claimed
  OBVIOUS
<1>1. ASSUME NEW n \in Mail, Locate(n) PROVE Claimed
  BY <1>1 DEF Locate, To, chat, files, drains, sweeper, TypeOK
<1>2. ASSUME NEW n \in Mail, Serve(n) PROVE Claimed
  BY <1>2 DEF Serve, To, deposit, Fault, chat, files, drains, sweeper, TypeOK
<1>3. ASSUME NEW n \in Mail, GiveUp(n) PROVE Claimed
  BY <1>3 DEF GiveUp, Fault, chat, files, drains, sweeper, TypeOK
<1>4. ASSUME NEW n \in Mail, FallBack(n) PROVE Claimed
  BY <1>4 DEF FallBack, To, chat, files, drains, sweeper, TypeOK
<1>5. ASSUME NEW n \in Copy, Seek(n) PROVE Claimed
  BY <1>5 DEF Seek, To, chat, files, drains, sweeper, TypeOK
<1>6. ASSUME NEW n \in Copy, Deposit(n) PROVE Claimed
  BY <1>6 DEF Deposit, To, deposit, Fault, chat, files, drains, sweeper, TypeOK
<1>7. ASSUME NEW n \in Copy, AskAgain(n) PROVE Claimed
  BY <1>7 DEF AskAgain, To, chat, files, drains, sweeper, TypeOK
<1>8. ASSUME NEW n \in Copy, ClaimBack(n) PROVE Claimed
  BY <1>8 DEF ClaimBack, To, Claim, chat, files, drains, sweeper, TypeOK
<1>9. ASSUME NEW n \in Copy, TakeBack(n) PROVE Claimed
  BY <1>9 DEF TakeBack, To, Remove, Fault, chat, files, drains, sweeper, TypeOK
<1>10. ASSUME NEW n \in Copy, UnclaimBack(n) PROVE Claimed
  BY <1>10 DEF UnclaimBack, To, unclaim, chat, files, drains, sweeper, TypeOK
<1>11. ASSUME NEW n \in Mail, SenderDies(n) PROVE Claimed
  BY <1>11 DEF SenderDies, To, Fault, chat, files, drains, sweeper, TypeOK
<1>12. ASSUME NEW q \in Readers, List(q) PROVE Claimed
  BY <1>12 DEF List, Goes, chat, files, drains, sweeper, TypeOK
<1>13. ASSUME NEW q \in Readers, Take(q) PROVE Claimed
  BY <1>13 DEF Take, Goes, Claim, chat, files, drains, sweeper, TypeOK
<1>14. ASSUME NEW q \in Readers, Read(q) PROVE Claimed
  BY <1>14 DEF Read, Goes, chat, files, drains, sweeper, TypeOK
<1>15. ASSUME NEW q \in Readers, Admit(q) PROVE Claimed
  BY <1>15 DEF Admit, Goes, deposit, Fault, chat, files, drains, sweeper, TypeOK
<1>16. ASSUME NEW q \in Readers, Delete(q) PROVE Claimed
  BY <1>16 DEF Delete, Goes, Remove, Fault, chat, files, drains, sweeper, TypeOK
<1>17. ASSUME NEW q \in Readers, Release(q) PROVE Claimed
  BY <1>17 DEF Release, Goes, unclaim, chat, files, drains, sweeper, TypeOK
<1>18. ASSUME NEW q \in Readers, Ends(q) PROVE Claimed
  BY <1>18 DEF Ends, Goes, chat, files, drains, sweeper, TypeOK
<1>19. ASSUME NEW q \in Readers, LateDrain(q) PROVE Claimed
  BY <1>19 DEF LateDrain, Goes, chat, files, drains, sweeper, TypeOK
<1>20. ASSUME NEW g \in File, FindStale(g) PROVE Claimed
  BY <1>20 DEF FindStale, Sweeps, chat, files, drains, sweeper, TypeOK
<1>21. ASSUME NEW g \in File, FindExpired(g) PROVE Claimed
  BY <1>21 DEF FindExpired, Sweeps, chat, files, drains, sweeper, TypeOK
<1>22. ASSUME SweepBody PROVE Claimed
  BY <1>22 DEF SweepBody, Remove, Fault, Sweeps, chat, files, drains, sweeper, TypeOK
<1>23. ASSUME SweepClaim PROVE Claimed
  BY <1>23 DEF SweepClaim, unclaim, Sweeps, chat, files, drains, sweeper, TypeOK
<1>24. ASSUME Park PROVE Claimed
  BY <1>24 DEF Park, chat, files, drains, sweeper, TypeOK
<1>25. ASSUME Withdraw PROVE Claimed
  BY <1>25 DEF Withdraw, chat, files, drains, sweeper, TypeOK
<1>26. ASSUME Stop PROVE Claimed
  BY <1>26 DEF Stop, Quiet, chat, files, drains, sweeper, TypeOK
<1>27. ASSUME Unpark PROVE Claimed
  BY <1>27 DEF Unpark, chat, files, drains, sweeper, TypeOK
<1>28. ASSUME Wake PROVE Claimed
  BY <1>28 DEF Wake, chat, files, drains, sweeper, TypeOK
<1>29. ASSUME Restore PROVE Claimed
  BY <1>29 DEF Restore, Starts, Idle, Goes, chat, files, drains, sweeper, TypeOK
<1>30. ASSUME Close PROVE Claimed
  BY <1>30 DEF Close, Quiet, chat, files, drains, sweeper, TypeOK
<1>31. ASSUME EngineDies PROVE Claimed
  BY <1>31 DEF EngineDies, Quiet, Fault, chat, files, drains, sweeper, TypeOK
<1>32. ASSUME Open PROVE Claimed
  BY <1>32 DEF Open, Starts, Idle, Goes, chat, files, drains, sweeper, TypeOK
<1>33. ASSUME Retry PROVE Claimed
  BY <1>33 DEF Retry, chat, files, drains, sweeper, TypeOK
<1>34. CASE UNCHANGED vars
  BY <1>34 DEF vars, chat, files, drains, sweeper
<1>35. QED
  BY <1>1, <1>2, <1>3, <1>4, <1>5, <1>6, <1>7, <1>8, <1>9, <1>10, <1>11, <1>12, <1>13,
     <1>14, <1>15, <1>16, <1>17, <1>18, <1>19, <1>20, <1>21, <1>22, <1>23, <1>24, <1>25,
     <1>26, <1>27, <1>28, <1>29, <1>30, <1>31, <1>32, <1>33, <1>34 DEF Next, Sender,
     Keep, Drain, Sweep

(* A drain reads the names of the bodies that are there.                      *)
LEMMA Names ==
    ASSUME TypeOK, NEW f \in File, NEW r \in Readers, [Next]_vars, f \in left'[r], f \notin left[r]
    PROVE  f \in body
<1> DEFINE Claimed ==
           f \in body
<1> SUFFICES Claimed
  OBVIOUS
<1>1. ASSUME NEW n \in Mail, Locate(n) PROVE Claimed
  BY <1>1 DEF Locate, To, chat, files, drains, sweeper, TypeOK
<1>2. ASSUME NEW n \in Mail, Serve(n) PROVE Claimed
  BY <1>2 DEF Serve, To, deposit, Fault, chat, files, drains, sweeper, TypeOK
<1>3. ASSUME NEW n \in Mail, GiveUp(n) PROVE Claimed
  BY <1>3 DEF GiveUp, Fault, chat, files, drains, sweeper, TypeOK
<1>4. ASSUME NEW n \in Mail, FallBack(n) PROVE Claimed
  BY <1>4 DEF FallBack, To, chat, files, drains, sweeper, TypeOK
<1>5. ASSUME NEW n \in Copy, Seek(n) PROVE Claimed
  BY <1>5 DEF Seek, To, chat, files, drains, sweeper, TypeOK
<1>6. ASSUME NEW n \in Copy, Deposit(n) PROVE Claimed
  BY <1>6 DEF Deposit, To, deposit, Fault, chat, files, drains, sweeper, TypeOK
<1>7. ASSUME NEW n \in Copy, AskAgain(n) PROVE Claimed
  BY <1>7 DEF AskAgain, To, chat, files, drains, sweeper, TypeOK
<1>8. ASSUME NEW n \in Copy, ClaimBack(n) PROVE Claimed
  BY <1>8 DEF ClaimBack, To, Claim, chat, files, drains, sweeper, TypeOK
<1>9. ASSUME NEW n \in Copy, TakeBack(n) PROVE Claimed
  BY <1>9 DEF TakeBack, To, Remove, Fault, chat, files, drains, sweeper, TypeOK
<1>10. ASSUME NEW n \in Copy, UnclaimBack(n) PROVE Claimed
  BY <1>10 DEF UnclaimBack, To, unclaim, chat, files, drains, sweeper, TypeOK
<1>11. ASSUME NEW n \in Mail, SenderDies(n) PROVE Claimed
  BY <1>11 DEF SenderDies, To, Fault, chat, files, drains, sweeper, TypeOK
<1>12. ASSUME NEW q \in Readers, List(q) PROVE Claimed
  BY <1>12 DEF List, Goes, chat, files, drains, sweeper, TypeOK
<1>13. ASSUME NEW q \in Readers, Take(q) PROVE Claimed
  BY <1>13 DEF Take, Goes, Claim, chat, files, drains, sweeper, TypeOK
<1>14. ASSUME NEW q \in Readers, Read(q) PROVE Claimed
  BY <1>14 DEF Read, Goes, chat, files, drains, sweeper, TypeOK
<1>15. ASSUME NEW q \in Readers, Admit(q) PROVE Claimed
  BY <1>15 DEF Admit, Goes, deposit, Fault, chat, files, drains, sweeper, TypeOK
<1>16. ASSUME NEW q \in Readers, Delete(q) PROVE Claimed
  BY <1>16 DEF Delete, Goes, Remove, Fault, chat, files, drains, sweeper, TypeOK
<1>17. ASSUME NEW q \in Readers, Release(q) PROVE Claimed
  BY <1>17 DEF Release, Goes, unclaim, chat, files, drains, sweeper, TypeOK
<1>18. ASSUME NEW q \in Readers, Ends(q) PROVE Claimed
  BY <1>18 DEF Ends, Goes, chat, files, drains, sweeper, TypeOK
<1>19. ASSUME NEW q \in Readers, LateDrain(q) PROVE Claimed
  BY <1>19 DEF LateDrain, Goes, chat, files, drains, sweeper, TypeOK
<1>20. ASSUME NEW g \in File, FindStale(g) PROVE Claimed
  BY <1>20 DEF FindStale, Sweeps, chat, files, drains, sweeper, TypeOK
<1>21. ASSUME NEW g \in File, FindExpired(g) PROVE Claimed
  BY <1>21 DEF FindExpired, Sweeps, chat, files, drains, sweeper, TypeOK
<1>22. ASSUME SweepBody PROVE Claimed
  BY <1>22 DEF SweepBody, Remove, Fault, Sweeps, chat, files, drains, sweeper, TypeOK
<1>23. ASSUME SweepClaim PROVE Claimed
  BY <1>23 DEF SweepClaim, unclaim, Sweeps, chat, files, drains, sweeper, TypeOK
<1>24. ASSUME Park PROVE Claimed
  BY <1>24 DEF Park, chat, files, drains, sweeper, TypeOK
<1>25. ASSUME Withdraw PROVE Claimed
  BY <1>25 DEF Withdraw, chat, files, drains, sweeper, TypeOK
<1>26. ASSUME Stop PROVE Claimed
  BY <1>26 DEF Stop, Quiet, chat, files, drains, sweeper, TypeOK
<1>27. ASSUME Unpark PROVE Claimed
  BY <1>27 DEF Unpark, chat, files, drains, sweeper, TypeOK
<1>28. ASSUME Wake PROVE Claimed
  BY <1>28 DEF Wake, chat, files, drains, sweeper, TypeOK
<1>29. ASSUME Restore PROVE Claimed
  BY <1>29 DEF Restore, Starts, Idle, Goes, chat, files, drains, sweeper, TypeOK
<1>30. ASSUME Close PROVE Claimed
  BY <1>30 DEF Close, Quiet, chat, files, drains, sweeper, TypeOK
<1>31. ASSUME EngineDies PROVE Claimed
  BY <1>31 DEF EngineDies, Quiet, Fault, chat, files, drains, sweeper, TypeOK
<1>32. ASSUME Open PROVE Claimed
  BY <1>32 DEF Open, Starts, Idle, Goes, chat, files, drains, sweeper, TypeOK
<1>33. ASSUME Retry PROVE Claimed
  BY <1>33 DEF Retry, chat, files, drains, sweeper, TypeOK
<1>34. CASE UNCHANGED vars
  BY <1>34 DEF vars, chat, files, drains, sweeper
<1>35. QED
  BY <1>1, <1>2, <1>3, <1>4, <1>5, <1>6, <1>7, <1>8, <1>9, <1>10, <1>11, <1>12, <1>13,
     <1>14, <1>15, <1>16, <1>17, <1>18, <1>19, <1>20, <1>21, <1>22, <1>23, <1>24, <1>25,
     <1>26, <1>27, <1>28, <1>29, <1>30, <1>31, <1>32, <1>33, <1>34 DEF Next, Sender,
     Keep, Drain, Sweep

(* A sweep takes in hand a claim or a body it found.                          *)
LEMMA Finds ==
    ASSUME TypeOK, NEW f \in File, [Next]_vars, sweep'.at # "off", sweep'.file = f, ~(sweep.at # "off" /\ sweep.file = f)
    PROVE  f \in body \/ f \in claimed
<1> DEFINE Claimed ==
           f \in body \/ f \in claimed
<1> SUFFICES Claimed
  OBVIOUS
<1>1. ASSUME NEW n \in Mail, Locate(n) PROVE Claimed
  BY <1>1 DEF Locate, To, chat, files, drains, sweeper, TypeOK
<1>2. ASSUME NEW n \in Mail, Serve(n) PROVE Claimed
  BY <1>2 DEF Serve, To, deposit, Fault, chat, files, drains, sweeper, TypeOK
<1>3. ASSUME NEW n \in Mail, GiveUp(n) PROVE Claimed
  BY <1>3 DEF GiveUp, Fault, chat, files, drains, sweeper, TypeOK
<1>4. ASSUME NEW n \in Mail, FallBack(n) PROVE Claimed
  BY <1>4 DEF FallBack, To, chat, files, drains, sweeper, TypeOK
<1>5. ASSUME NEW n \in Copy, Seek(n) PROVE Claimed
  BY <1>5 DEF Seek, To, chat, files, drains, sweeper, TypeOK
<1>6. ASSUME NEW n \in Copy, Deposit(n) PROVE Claimed
  BY <1>6 DEF Deposit, To, deposit, Fault, chat, files, drains, sweeper, TypeOK
<1>7. ASSUME NEW n \in Copy, AskAgain(n) PROVE Claimed
  BY <1>7 DEF AskAgain, To, chat, files, drains, sweeper, TypeOK
<1>8. ASSUME NEW n \in Copy, ClaimBack(n) PROVE Claimed
  BY <1>8 DEF ClaimBack, To, Claim, chat, files, drains, sweeper, TypeOK
<1>9. ASSUME NEW n \in Copy, TakeBack(n) PROVE Claimed
  BY <1>9 DEF TakeBack, To, Remove, Fault, chat, files, drains, sweeper, TypeOK
<1>10. ASSUME NEW n \in Copy, UnclaimBack(n) PROVE Claimed
  BY <1>10 DEF UnclaimBack, To, unclaim, chat, files, drains, sweeper, TypeOK
<1>11. ASSUME NEW n \in Mail, SenderDies(n) PROVE Claimed
  BY <1>11 DEF SenderDies, To, Fault, chat, files, drains, sweeper, TypeOK
<1>12. ASSUME NEW q \in Readers, List(q) PROVE Claimed
  BY <1>12 DEF List, Goes, chat, files, drains, sweeper, TypeOK
<1>13. ASSUME NEW q \in Readers, Take(q) PROVE Claimed
  BY <1>13 DEF Take, Goes, Claim, chat, files, drains, sweeper, TypeOK
<1>14. ASSUME NEW q \in Readers, Read(q) PROVE Claimed
  BY <1>14 DEF Read, Goes, chat, files, drains, sweeper, TypeOK
<1>15. ASSUME NEW q \in Readers, Admit(q) PROVE Claimed
  BY <1>15 DEF Admit, Goes, deposit, Fault, chat, files, drains, sweeper, TypeOK
<1>16. ASSUME NEW q \in Readers, Delete(q) PROVE Claimed
  BY <1>16 DEF Delete, Goes, Remove, Fault, chat, files, drains, sweeper, TypeOK
<1>17. ASSUME NEW q \in Readers, Release(q) PROVE Claimed
  BY <1>17 DEF Release, Goes, unclaim, chat, files, drains, sweeper, TypeOK
<1>18. ASSUME NEW q \in Readers, Ends(q) PROVE Claimed
  BY <1>18 DEF Ends, Goes, chat, files, drains, sweeper, TypeOK
<1>19. ASSUME NEW q \in Readers, LateDrain(q) PROVE Claimed
  BY <1>19 DEF LateDrain, Goes, chat, files, drains, sweeper, TypeOK
<1>20. ASSUME NEW g \in File, FindStale(g) PROVE Claimed
  BY <1>20 DEF FindStale, Sweeps, chat, files, drains, sweeper, TypeOK
<1>21. ASSUME NEW g \in File, FindExpired(g) PROVE Claimed
  BY <1>21 DEF FindExpired, Sweeps, chat, files, drains, sweeper, TypeOK
<1>22. ASSUME SweepBody PROVE Claimed
  BY <1>22 DEF SweepBody, Remove, Fault, Sweeps, chat, files, drains, sweeper, TypeOK
<1>23. ASSUME SweepClaim PROVE Claimed
  BY <1>23 DEF SweepClaim, unclaim, Sweeps, chat, files, drains, sweeper, TypeOK
<1>24. ASSUME Park PROVE Claimed
  BY <1>24 DEF Park, chat, files, drains, sweeper, TypeOK
<1>25. ASSUME Withdraw PROVE Claimed
  BY <1>25 DEF Withdraw, chat, files, drains, sweeper, TypeOK
<1>26. ASSUME Stop PROVE Claimed
  BY <1>26 DEF Stop, Quiet, chat, files, drains, sweeper, TypeOK
<1>27. ASSUME Unpark PROVE Claimed
  BY <1>27 DEF Unpark, chat, files, drains, sweeper, TypeOK
<1>28. ASSUME Wake PROVE Claimed
  BY <1>28 DEF Wake, chat, files, drains, sweeper, TypeOK
<1>29. ASSUME Restore PROVE Claimed
  BY <1>29 DEF Restore, Starts, Idle, Goes, chat, files, drains, sweeper, TypeOK
<1>30. ASSUME Close PROVE Claimed
  BY <1>30 DEF Close, Quiet, chat, files, drains, sweeper, TypeOK
<1>31. ASSUME EngineDies PROVE Claimed
  BY <1>31 DEF EngineDies, Quiet, Fault, chat, files, drains, sweeper, TypeOK
<1>32. ASSUME Open PROVE Claimed
  BY <1>32 DEF Open, Starts, Idle, Goes, chat, files, drains, sweeper, TypeOK
<1>33. ASSUME Retry PROVE Claimed
  BY <1>33 DEF Retry, chat, files, drains, sweeper, TypeOK
<1>34. CASE UNCHANGED vars
  BY <1>34 DEF vars, chat, files, drains, sweeper
<1>35. QED
  BY <1>1, <1>2, <1>3, <1>4, <1>5, <1>6, <1>7, <1>8, <1>9, <1>10, <1>11, <1>12, <1>13,
     <1>14, <1>15, <1>16, <1>17, <1>18, <1>19, <1>20, <1>21, <1>22, <1>23, <1>24, <1>25,
     <1>26, <1>27, <1>28, <1>29, <1>30, <1>31, <1>32, <1>33, <1>34 DEF Next, Sender,
     Keep, Drain, Sweep

(* A sweep whose deletions work deletes the body before the claim.            *)
LEMMA Drops ==
    ASSUME TypeOK, NEW f \in File, [Next]_vars, SweepsFail = FALSE, sweep'.at = "claim", sweep'.file = f, ~(sweep.at = "claim" /\ sweep.file = f)
    PROVE  /\ sweep.at = "body" /\ sweep.file = f
           /\ f \notin body'
<1> DEFINE Claimed ==
           /\ sweep.at = "body" /\ sweep.file = f
           /\ f \notin body'
<1> SUFFICES Claimed
  OBVIOUS
<1>1. ASSUME NEW n \in Mail, Locate(n) PROVE Claimed
  BY <1>1 DEF Locate, To, chat, files, drains, sweeper, TypeOK
<1>2. ASSUME NEW n \in Mail, Serve(n) PROVE Claimed
  BY <1>2 DEF Serve, To, deposit, Fault, chat, files, drains, sweeper, TypeOK
<1>3. ASSUME NEW n \in Mail, GiveUp(n) PROVE Claimed
  BY <1>3 DEF GiveUp, Fault, chat, files, drains, sweeper, TypeOK
<1>4. ASSUME NEW n \in Mail, FallBack(n) PROVE Claimed
  BY <1>4 DEF FallBack, To, chat, files, drains, sweeper, TypeOK
<1>5. ASSUME NEW n \in Copy, Seek(n) PROVE Claimed
  BY <1>5 DEF Seek, To, chat, files, drains, sweeper, TypeOK
<1>6. ASSUME NEW n \in Copy, Deposit(n) PROVE Claimed
  BY <1>6 DEF Deposit, To, deposit, Fault, chat, files, drains, sweeper, TypeOK
<1>7. ASSUME NEW n \in Copy, AskAgain(n) PROVE Claimed
  BY <1>7 DEF AskAgain, To, chat, files, drains, sweeper, TypeOK
<1>8. ASSUME NEW n \in Copy, ClaimBack(n) PROVE Claimed
  BY <1>8 DEF ClaimBack, To, Claim, chat, files, drains, sweeper, TypeOK
<1>9. ASSUME NEW n \in Copy, TakeBack(n) PROVE Claimed
  BY <1>9 DEF TakeBack, To, Remove, Fault, chat, files, drains, sweeper, TypeOK
<1>10. ASSUME NEW n \in Copy, UnclaimBack(n) PROVE Claimed
  BY <1>10 DEF UnclaimBack, To, unclaim, chat, files, drains, sweeper, TypeOK
<1>11. ASSUME NEW n \in Mail, SenderDies(n) PROVE Claimed
  BY <1>11 DEF SenderDies, To, Fault, chat, files, drains, sweeper, TypeOK
<1>12. ASSUME NEW q \in Readers, List(q) PROVE Claimed
  BY <1>12 DEF List, Goes, chat, files, drains, sweeper, TypeOK
<1>13. ASSUME NEW q \in Readers, Take(q) PROVE Claimed
  BY <1>13 DEF Take, Goes, Claim, chat, files, drains, sweeper, TypeOK
<1>14. ASSUME NEW q \in Readers, Read(q) PROVE Claimed
  BY <1>14 DEF Read, Goes, chat, files, drains, sweeper, TypeOK
<1>15. ASSUME NEW q \in Readers, Admit(q) PROVE Claimed
  BY <1>15 DEF Admit, Goes, deposit, Fault, chat, files, drains, sweeper, TypeOK
<1>16. ASSUME NEW q \in Readers, Delete(q) PROVE Claimed
  BY <1>16 DEF Delete, Goes, Remove, Fault, chat, files, drains, sweeper, TypeOK
<1>17. ASSUME NEW q \in Readers, Release(q) PROVE Claimed
  BY <1>17 DEF Release, Goes, unclaim, chat, files, drains, sweeper, TypeOK
<1>18. ASSUME NEW q \in Readers, Ends(q) PROVE Claimed
  BY <1>18 DEF Ends, Goes, chat, files, drains, sweeper, TypeOK
<1>19. ASSUME NEW q \in Readers, LateDrain(q) PROVE Claimed
  BY <1>19 DEF LateDrain, Goes, chat, files, drains, sweeper, TypeOK
<1>20. ASSUME NEW g \in File, FindStale(g) PROVE Claimed
  BY <1>20 DEF FindStale, Sweeps, chat, files, drains, sweeper, TypeOK
<1>21. ASSUME NEW g \in File, FindExpired(g) PROVE Claimed
  BY <1>21 DEF FindExpired, Sweeps, chat, files, drains, sweeper, TypeOK
<1>22. ASSUME SweepBody PROVE Claimed
  BY <1>22 DEF SweepBody, Remove, Fault, Sweeps, chat, files, drains, sweeper, TypeOK
<1>23. ASSUME SweepClaim PROVE Claimed
  BY <1>23 DEF SweepClaim, unclaim, Sweeps, chat, files, drains, sweeper, TypeOK
<1>24. ASSUME Park PROVE Claimed
  BY <1>24 DEF Park, chat, files, drains, sweeper, TypeOK
<1>25. ASSUME Withdraw PROVE Claimed
  BY <1>25 DEF Withdraw, chat, files, drains, sweeper, TypeOK
<1>26. ASSUME Stop PROVE Claimed
  BY <1>26 DEF Stop, Quiet, chat, files, drains, sweeper, TypeOK
<1>27. ASSUME Unpark PROVE Claimed
  BY <1>27 DEF Unpark, chat, files, drains, sweeper, TypeOK
<1>28. ASSUME Wake PROVE Claimed
  BY <1>28 DEF Wake, chat, files, drains, sweeper, TypeOK
<1>29. ASSUME Restore PROVE Claimed
  BY <1>29 DEF Restore, Starts, Idle, Goes, chat, files, drains, sweeper, TypeOK
<1>30. ASSUME Close PROVE Claimed
  BY <1>30 DEF Close, Quiet, chat, files, drains, sweeper, TypeOK
<1>31. ASSUME EngineDies PROVE Claimed
  BY <1>31 DEF EngineDies, Quiet, Fault, chat, files, drains, sweeper, TypeOK
<1>32. ASSUME Open PROVE Claimed
  BY <1>32 DEF Open, Starts, Idle, Goes, chat, files, drains, sweeper, TypeOK
<1>33. ASSUME Retry PROVE Claimed
  BY <1>33 DEF Retry, chat, files, drains, sweeper, TypeOK
<1>34. CASE UNCHANGED vars
  BY <1>34 DEF vars, chat, files, drains, sweeper
<1>35. QED
  BY <1>1, <1>2, <1>3, <1>4, <1>5, <1>6, <1>7, <1>8, <1>9, <1>10, <1>11, <1>12, <1>13,
     <1>14, <1>15, <1>16, <1>17, <1>18, <1>19, <1>20, <1>21, <1>22, <1>23, <1>24, <1>25,
     <1>26, <1>27, <1>28, <1>29, <1>30, <1>31, <1>32, <1>33, <1>34 DEF Next, Sender,
     Keep, Drain, Sweep

(* The steps of a sender.                                                     *)
LEMMA Sends ==
    ASSUME TypeOK, NEW c \in Copy, [Next]_vars, send'[c] # send[c]
    PROVE  /\ UNCHANGED << at, cur, sweep, swept >>
           /\ \/ send'[c] = "dead" /\ send[c] \notin Answered
              \/ send[c] = "new" /\ send'[c] \in {"posting", "refused", "seeking"}
              \/ send[c] = "posting" /\ send'[c] = "refused"
              \/ send[c] = "posting" /\ send'[c] = "sent" /\ (turns'[c] > 0 \/ First(c) \in body')
              \/ send[c] = "seeking" /\ send'[c] \in {"keeping", "refused"}
              \/ send[c] = "keeping" /\ send'[c] = "failed"
              \/ send[c] = "keeping" /\ send'[c] = "asking" /\ First(c) \in body' /\ stamp'[First(c)] # 0
              \/ send[c] = "asking" /\ send'[c] \in {"sent", "asking again"}
              \/ send[c] = "asking again" /\ send'[c] \in {"sent", "claiming"}
              \/ send[c] = "claiming" /\ send'[c] \in {"sent", "taking"}
              \/ send[c] = "taking" /\ send'[c] = "put back"
              \/ send[c] = "taking" /\ send'[c] = "give up" /\ First(c) \in body /\ body' = body \ {First(c)}
              \/ send[c] = "give up" /\ send'[c] = "refused"
              \/ send[c] = "put back" /\ send'[c] = "sent"
<1> DEFINE Claimed ==
           /\ UNCHANGED << at, cur, sweep, swept >>
           /\ \/ send'[c] = "dead" /\ send[c] \notin Answered
              \/ send[c] = "new" /\ send'[c] \in {"posting", "refused", "seeking"}
              \/ send[c] = "posting" /\ send'[c] = "refused"
              \/ send[c] = "posting" /\ send'[c] = "sent" /\ (turns'[c] > 0 \/ First(c) \in body')
              \/ send[c] = "seeking" /\ send'[c] \in {"keeping", "refused"}
              \/ send[c] = "keeping" /\ send'[c] = "failed"
              \/ send[c] = "keeping" /\ send'[c] = "asking" /\ First(c) \in body' /\ stamp'[First(c)] # 0
              \/ send[c] = "asking" /\ send'[c] \in {"sent", "asking again"}
              \/ send[c] = "asking again" /\ send'[c] \in {"sent", "claiming"}
              \/ send[c] = "claiming" /\ send'[c] \in {"sent", "taking"}
              \/ send[c] = "taking" /\ send'[c] = "put back"
              \/ send[c] = "taking" /\ send'[c] = "give up" /\ First(c) \in body /\ body' = body \ {First(c)}
              \/ send[c] = "give up" /\ send'[c] = "refused"
              \/ send[c] = "put back" /\ send'[c] = "sent"
<1> SUFFICES Claimed
  OBVIOUS
<1>1. ASSUME NEW n \in Mail, Locate(n) PROVE Claimed
  BY <1>1 DEF Locate, To, chat, files, drains, sweeper, TypeOK, Answered
<1>2. ASSUME NEW n \in Mail, Serve(n) PROVE Claimed
  <2>1. c = Request(n) /\ send[c] = "posting" /\ UNCHANGED << at, cur, sweep, swept >>
    BY <1>2 DEF Serve, To, drains, sweeper, TypeOK
  <2>2. CASE turns' = [turns EXCEPT ![Request(n)] = @ + 1] /\ To(Request(n), "sent")
    <3>1. send'[c] = "sent" /\ turns'[c] > 0
      BY <2>1, <2>2 DEF To, TypeOK
    <3>2. QED
      BY <2>1, <3>1 DEF Claimed
  <2>3. CASE deposit(First(Request(n))) /\ To(Request(n), "sent")
    <3>1. send'[c] = "sent" /\ First(c) \in body'
      BY <2>1, <2>3 DEF To, deposit, TypeOK
    <3>2. QED
      BY <2>1, <3>1 DEF Claimed
  <2>4. CASE To(Request(n), "refused")
    <3>1. send'[c] = "refused"
      BY <2>1, <2>4 DEF To, TypeOK
    <3>2. QED
      BY <2>1, <3>1 DEF Claimed
  <2>5. QED
    BY <1>2, <2>2, <2>3, <2>4 DEF Serve
<1>3. ASSUME NEW n \in Mail, GiveUp(n) PROVE Claimed
  BY <1>3 DEF GiveUp, Fault, chat, files, drains, sweeper, TypeOK, Answered
<1>4. ASSUME NEW n \in Mail, FallBack(n) PROVE Claimed
  BY <1>4 DEF FallBack, To, chat, files, drains, sweeper, TypeOK, Answered
<1>5. ASSUME NEW n \in Copy, Seek(n) PROVE Claimed
  BY <1>5 DEF Seek, To, chat, files, drains, sweeper, TypeOK, Answered
<1>6. ASSUME NEW n \in Copy, Deposit(n) PROVE Claimed
  <2>1. c = n /\ send[c] = "keeping" /\ UNCHANGED << at, cur, sweep, swept >>
    BY <1>6 DEF Deposit, To, drains, sweeper, TypeOK
  <2>2. CASE deposit(First(n)) /\ To(n, "asking")
    <3>1. send'[c] = "asking"
      BY <2>1, <2>2 DEF To, TypeOK
    <3>2. First(c) \in body' /\ stamp'[First(c)] # 0
      BY <2>1, <2>2, FirstType DEF deposit, TypeOK
    <3>3. QED
      BY <2>1, <3>1, <3>2 DEF Claimed
  <2>3. CASE To(n, "failed")
    <3>1. send'[c] = "failed"
      BY <2>1, <2>3 DEF To, TypeOK
    <3>2. QED
      BY <2>1, <3>1 DEF Claimed
  <2>4. QED
    BY <1>6, <2>2, <2>3 DEF Deposit
<1>7. ASSUME NEW n \in Copy, AskAgain(n) PROVE Claimed
  BY <1>7 DEF AskAgain, To, chat, files, drains, sweeper, TypeOK, Answered
<1>8. ASSUME NEW n \in Copy, ClaimBack(n) PROVE Claimed
  BY <1>8 DEF ClaimBack, To, Claim, chat, files, drains, sweeper, TypeOK, Answered
<1>9. ASSUME NEW n \in Copy, TakeBack(n) PROVE Claimed
  BY <1>9 DEF TakeBack, To, Remove, Fault, chat, files, drains, sweeper, TypeOK,
     Answered
<1>10. ASSUME NEW n \in Copy, UnclaimBack(n) PROVE Claimed
  BY <1>10 DEF UnclaimBack, To, unclaim, chat, files, drains, sweeper, TypeOK, Answered
<1>11. ASSUME NEW n \in Mail, SenderDies(n) PROVE Claimed
  BY <1>11 DEF SenderDies, To, Fault, chat, files, drains, sweeper, TypeOK, Answered
<1>12. ASSUME NEW q \in Readers, List(q) PROVE Claimed
  BY <1>12 DEF List, Goes, chat, files, drains, sweeper, TypeOK, Answered
<1>13. ASSUME NEW q \in Readers, Take(q) PROVE Claimed
  BY <1>13 DEF Take, Goes, Claim, chat, files, drains, sweeper, TypeOK, Answered
<1>14. ASSUME NEW q \in Readers, Read(q) PROVE Claimed
  BY <1>14 DEF Read, Goes, chat, files, drains, sweeper, TypeOK, Answered
<1>15. ASSUME NEW q \in Readers, Admit(q) PROVE Claimed
  BY <1>15 DEF Admit, Goes, deposit, Fault, chat, files, drains, sweeper, TypeOK,
     Answered
<1>16. ASSUME NEW q \in Readers, Delete(q) PROVE Claimed
  BY <1>16 DEF Delete, Goes, Remove, Fault, chat, files, drains, sweeper, TypeOK,
     Answered
<1>17. ASSUME NEW q \in Readers, Release(q) PROVE Claimed
  BY <1>17 DEF Release, Goes, unclaim, chat, files, drains, sweeper, TypeOK, Answered
<1>18. ASSUME NEW q \in Readers, Ends(q) PROVE Claimed
  BY <1>18 DEF Ends, Goes, chat, files, drains, sweeper, TypeOK, Answered
<1>19. ASSUME NEW q \in Readers, LateDrain(q) PROVE Claimed
  BY <1>19 DEF LateDrain, Goes, chat, files, drains, sweeper, TypeOK, Answered
<1>20. ASSUME NEW g \in File, FindStale(g) PROVE Claimed
  BY <1>20 DEF FindStale, Sweeps, chat, files, drains, sweeper, TypeOK, Answered
<1>21. ASSUME NEW g \in File, FindExpired(g) PROVE Claimed
  BY <1>21 DEF FindExpired, Sweeps, chat, files, drains, sweeper, TypeOK, Answered
<1>22. ASSUME SweepBody PROVE Claimed
  BY <1>22 DEF SweepBody, Remove, Fault, Sweeps, chat, files, drains, sweeper, TypeOK,
     Answered
<1>23. ASSUME SweepClaim PROVE Claimed
  BY <1>23 DEF SweepClaim, unclaim, Sweeps, chat, files, drains, sweeper, TypeOK,
     Answered
<1>24. ASSUME Park PROVE Claimed
  BY <1>24 DEF Park, chat, files, drains, sweeper, TypeOK, Answered
<1>25. ASSUME Withdraw PROVE Claimed
  BY <1>25 DEF Withdraw, chat, files, drains, sweeper, TypeOK, Answered
<1>26. ASSUME Stop PROVE Claimed
  BY <1>26 DEF Stop, Quiet, chat, files, drains, sweeper, TypeOK, Answered
<1>27. ASSUME Unpark PROVE Claimed
  BY <1>27 DEF Unpark, chat, files, drains, sweeper, TypeOK, Answered
<1>28. ASSUME Wake PROVE Claimed
  BY <1>28 DEF Wake, chat, files, drains, sweeper, TypeOK, Answered
<1>29. ASSUME Restore PROVE Claimed
  BY <1>29 DEF Restore, Starts, Idle, Goes, chat, files, drains, sweeper, TypeOK,
     Answered
<1>30. ASSUME Close PROVE Claimed
  BY <1>30 DEF Close, Quiet, chat, files, drains, sweeper, TypeOK, Answered
<1>31. ASSUME EngineDies PROVE Claimed
  BY <1>31 DEF EngineDies, Quiet, Fault, chat, files, drains, sweeper, TypeOK, Answered
<1>32. ASSUME Open PROVE Claimed
  BY <1>32 DEF Open, Starts, Idle, Goes, chat, files, drains, sweeper, TypeOK, Answered
<1>33. ASSUME Retry PROVE Claimed
  BY <1>33 DEF Retry, chat, files, drains, sweeper, TypeOK, Answered
<1>34. CASE UNCHANGED vars
  BY <1>34 DEF vars, chat, files, drains, sweeper, Answered
<1>35. QED
  BY <1>1, <1>2, <1>3, <1>4, <1>5, <1>6, <1>7, <1>8, <1>9, <1>10, <1>11, <1>12, <1>13,
     <1>14, <1>15, <1>16, <1>17, <1>18, <1>19, <1>20, <1>21, <1>22, <1>23, <1>24, <1>25,
     <1>26, <1>27, <1>28, <1>29, <1>30, <1>31, <1>32, <1>33, <1>34 DEF Next, Sender,
     Keep, Drain, Sweep

(* The session gets a copy from its sender or from a drain that admits it.    *)
LEMMA Turned ==
    ASSUME TypeOK, NEW c \in Copy, [Next]_vars, turns'[c] # turns[c]
    PROVE  /\ turns'[c] = turns[c] + 1
           /\ \/ send[c] = "posting" /\ send'[c] = "sent"
              \/ \E r \in Readers : at[r] = "admit" /\ cur[r][1] = c /\ at'[r] = "delete"
<1> DEFINE Claimed ==
           /\ turns'[c] = turns[c] + 1
           /\ \/ send[c] = "posting" /\ send'[c] = "sent"
              \/ \E r \in Readers : at[r] = "admit" /\ cur[r][1] = c /\ at'[r] = "delete"
<1> SUFFICES Claimed
  OBVIOUS
<1>1. ASSUME NEW n \in Mail, Locate(n) PROVE Claimed
  BY <1>1 DEF Locate, To, chat, files, drains, sweeper, TypeOK
<1>2. ASSUME NEW n \in Mail, Serve(n) PROVE Claimed
  BY <1>2 DEF Serve, To, deposit, Fault, chat, files, drains, sweeper, TypeOK
<1>3. ASSUME NEW n \in Mail, GiveUp(n) PROVE Claimed
  BY <1>3 DEF GiveUp, Fault, chat, files, drains, sweeper, TypeOK
<1>4. ASSUME NEW n \in Mail, FallBack(n) PROVE Claimed
  BY <1>4 DEF FallBack, To, chat, files, drains, sweeper, TypeOK
<1>5. ASSUME NEW n \in Copy, Seek(n) PROVE Claimed
  BY <1>5 DEF Seek, To, chat, files, drains, sweeper, TypeOK
<1>6. ASSUME NEW n \in Copy, Deposit(n) PROVE Claimed
  BY <1>6 DEF Deposit, To, deposit, Fault, chat, files, drains, sweeper, TypeOK
<1>7. ASSUME NEW n \in Copy, AskAgain(n) PROVE Claimed
  BY <1>7 DEF AskAgain, To, chat, files, drains, sweeper, TypeOK
<1>8. ASSUME NEW n \in Copy, ClaimBack(n) PROVE Claimed
  BY <1>8 DEF ClaimBack, To, Claim, chat, files, drains, sweeper, TypeOK
<1>9. ASSUME NEW n \in Copy, TakeBack(n) PROVE Claimed
  BY <1>9 DEF TakeBack, To, Remove, Fault, chat, files, drains, sweeper, TypeOK
<1>10. ASSUME NEW n \in Copy, UnclaimBack(n) PROVE Claimed
  BY <1>10 DEF UnclaimBack, To, unclaim, chat, files, drains, sweeper, TypeOK
<1>11. ASSUME NEW n \in Mail, SenderDies(n) PROVE Claimed
  BY <1>11 DEF SenderDies, To, Fault, chat, files, drains, sweeper, TypeOK
<1>12. ASSUME NEW q \in Readers, List(q) PROVE Claimed
  BY <1>12 DEF List, Goes, chat, files, drains, sweeper, TypeOK
<1>13. ASSUME NEW q \in Readers, Take(q) PROVE Claimed
  BY <1>13 DEF Take, Goes, Claim, chat, files, drains, sweeper, TypeOK
<1>14. ASSUME NEW q \in Readers, Read(q) PROVE Claimed
  BY <1>14 DEF Read, Goes, chat, files, drains, sweeper, TypeOK
<1>15. ASSUME NEW q \in Readers, Admit(q) PROVE Claimed
  BY <1>15, NextFile DEF Admit, Goes, deposit, Fault, chat, files, drains, sweeper,
     TypeOK
<1>16. ASSUME NEW q \in Readers, Delete(q) PROVE Claimed
  BY <1>16 DEF Delete, Goes, Remove, Fault, chat, files, drains, sweeper, TypeOK
<1>17. ASSUME NEW q \in Readers, Release(q) PROVE Claimed
  BY <1>17 DEF Release, Goes, unclaim, chat, files, drains, sweeper, TypeOK
<1>18. ASSUME NEW q \in Readers, Ends(q) PROVE Claimed
  BY <1>18 DEF Ends, Goes, chat, files, drains, sweeper, TypeOK
<1>19. ASSUME NEW q \in Readers, LateDrain(q) PROVE Claimed
  BY <1>19 DEF LateDrain, Goes, chat, files, drains, sweeper, TypeOK
<1>20. ASSUME NEW g \in File, FindStale(g) PROVE Claimed
  BY <1>20 DEF FindStale, Sweeps, chat, files, drains, sweeper, TypeOK
<1>21. ASSUME NEW g \in File, FindExpired(g) PROVE Claimed
  BY <1>21 DEF FindExpired, Sweeps, chat, files, drains, sweeper, TypeOK
<1>22. ASSUME SweepBody PROVE Claimed
  BY <1>22 DEF SweepBody, Remove, Fault, Sweeps, chat, files, drains, sweeper, TypeOK
<1>23. ASSUME SweepClaim PROVE Claimed
  BY <1>23 DEF SweepClaim, unclaim, Sweeps, chat, files, drains, sweeper, TypeOK
<1>24. ASSUME Park PROVE Claimed
  BY <1>24 DEF Park, chat, files, drains, sweeper, TypeOK
<1>25. ASSUME Withdraw PROVE Claimed
  BY <1>25 DEF Withdraw, chat, files, drains, sweeper, TypeOK
<1>26. ASSUME Stop PROVE Claimed
  BY <1>26 DEF Stop, Quiet, chat, files, drains, sweeper, TypeOK
<1>27. ASSUME Unpark PROVE Claimed
  BY <1>27 DEF Unpark, chat, files, drains, sweeper, TypeOK
<1>28. ASSUME Wake PROVE Claimed
  BY <1>28 DEF Wake, chat, files, drains, sweeper, TypeOK
<1>29. ASSUME Restore PROVE Claimed
  BY <1>29 DEF Restore, Starts, Idle, Goes, chat, files, drains, sweeper, TypeOK
<1>30. ASSUME Close PROVE Claimed
  BY <1>30 DEF Close, Quiet, chat, files, drains, sweeper, TypeOK
<1>31. ASSUME EngineDies PROVE Claimed
  BY <1>31 DEF EngineDies, Quiet, Fault, chat, files, drains, sweeper, TypeOK
<1>32. ASSUME Open PROVE Claimed
  BY <1>32 DEF Open, Starts, Idle, Goes, chat, files, drains, sweeper, TypeOK
<1>33. ASSUME Retry PROVE Claimed
  BY <1>33 DEF Retry, chat, files, drains, sweeper, TypeOK
<1>34. CASE UNCHANGED vars
  BY <1>34 DEF vars, chat, files, drains, sweeper
<1>35. QED
  BY <1>1, <1>2, <1>3, <1>4, <1>5, <1>6, <1>7, <1>8, <1>9, <1>10, <1>11, <1>12, <1>13,
     <1>14, <1>15, <1>16, <1>17, <1>18, <1>19, <1>20, <1>21, <1>22, <1>23, <1>24, <1>25,
     <1>26, <1>27, <1>28, <1>29, <1>30, <1>31, <1>32, <1>33, <1>34 DEF Next, Sender,
     Keep, Drain, Sweep

(* A drain that hands a body over read it before.                             *)
LEMMA Hands ==
    ASSUME TypeOK, NEW r \in Readers, [Next]_vars, at'[r] \in {"admit", "delete"}
    PROVE  /\ cur'[r] = cur[r]
           /\ at'[r] = "admit" => at[r] \in {"read", "admit"}
           /\ at'[r] = "delete" => at[r] \in {"admit", "delete"}
           /\ at[r] = "read" =>
                  /\ cur[r] \in body
                  /\ \A s \in Readers : s # r => at'[s] = at[s] /\ cur'[s] = cur[s]
                  /\ UNCHANGED << body, claimed, stamp, send, turns, sweep, swept >>
<1> DEFINE Claimed ==
           /\ cur'[r] = cur[r]
           /\ at'[r] = "admit" => at[r] \in {"read", "admit"}
           /\ at'[r] = "delete" => at[r] \in {"admit", "delete"}
           /\ at[r] = "read" =>
                  /\ cur[r] \in body
                  /\ \A s \in Readers : s # r => at'[s] = at[s] /\ cur'[s] = cur[s]
                  /\ UNCHANGED << body, claimed, stamp, send, turns, sweep, swept >>
<1> SUFFICES Claimed
  OBVIOUS
<1>1. ASSUME NEW n \in Mail, Locate(n) PROVE Claimed
  BY <1>1 DEF Locate, To, chat, files, drains, sweeper, TypeOK
<1>2. ASSUME NEW n \in Mail, Serve(n) PROVE Claimed
  BY <1>2 DEF Serve, To, deposit, Fault, chat, files, drains, sweeper, TypeOK
<1>3. ASSUME NEW n \in Mail, GiveUp(n) PROVE Claimed
  BY <1>3 DEF GiveUp, Fault, chat, files, drains, sweeper, TypeOK
<1>4. ASSUME NEW n \in Mail, FallBack(n) PROVE Claimed
  BY <1>4 DEF FallBack, To, chat, files, drains, sweeper, TypeOK
<1>5. ASSUME NEW n \in Copy, Seek(n) PROVE Claimed
  BY <1>5 DEF Seek, To, chat, files, drains, sweeper, TypeOK
<1>6. ASSUME NEW n \in Copy, Deposit(n) PROVE Claimed
  BY <1>6 DEF Deposit, To, deposit, Fault, chat, files, drains, sweeper, TypeOK
<1>7. ASSUME NEW n \in Copy, AskAgain(n) PROVE Claimed
  BY <1>7 DEF AskAgain, To, chat, files, drains, sweeper, TypeOK
<1>8. ASSUME NEW n \in Copy, ClaimBack(n) PROVE Claimed
  BY <1>8 DEF ClaimBack, To, Claim, chat, files, drains, sweeper, TypeOK
<1>9. ASSUME NEW n \in Copy, TakeBack(n) PROVE Claimed
  BY <1>9 DEF TakeBack, To, Remove, Fault, chat, files, drains, sweeper, TypeOK
<1>10. ASSUME NEW n \in Copy, UnclaimBack(n) PROVE Claimed
  BY <1>10 DEF UnclaimBack, To, unclaim, chat, files, drains, sweeper, TypeOK
<1>11. ASSUME NEW n \in Mail, SenderDies(n) PROVE Claimed
  BY <1>11 DEF SenderDies, To, Fault, chat, files, drains, sweeper, TypeOK
<1>12. ASSUME NEW q \in Readers, List(q) PROVE Claimed
  BY <1>12 DEF List, Goes, chat, files, drains, sweeper, TypeOK
<1>13. ASSUME NEW q \in Readers, Take(q) PROVE Claimed
  BY <1>13 DEF Take, Goes, Claim, chat, files, drains, sweeper, TypeOK
<1>14. ASSUME NEW q \in Readers, Read(q) PROVE Claimed
  BY <1>14 DEF Read, Goes, chat, files, drains, sweeper, TypeOK
<1>15. ASSUME NEW q \in Readers, Admit(q) PROVE Claimed
  BY <1>15 DEF Admit, Goes, deposit, Fault, chat, files, drains, sweeper, TypeOK
<1>16. ASSUME NEW q \in Readers, Delete(q) PROVE Claimed
  BY <1>16 DEF Delete, Goes, Remove, Fault, chat, files, drains, sweeper, TypeOK
<1>17. ASSUME NEW q \in Readers, Release(q) PROVE Claimed
  BY <1>17 DEF Release, Goes, unclaim, chat, files, drains, sweeper, TypeOK
<1>18. ASSUME NEW q \in Readers, Ends(q) PROVE Claimed
  BY <1>18 DEF Ends, Goes, chat, files, drains, sweeper, TypeOK
<1>19. ASSUME NEW q \in Readers, LateDrain(q) PROVE Claimed
  BY <1>19 DEF LateDrain, Goes, chat, files, drains, sweeper, TypeOK
<1>20. ASSUME NEW g \in File, FindStale(g) PROVE Claimed
  BY <1>20 DEF FindStale, Sweeps, chat, files, drains, sweeper, TypeOK
<1>21. ASSUME NEW g \in File, FindExpired(g) PROVE Claimed
  BY <1>21 DEF FindExpired, Sweeps, chat, files, drains, sweeper, TypeOK
<1>22. ASSUME SweepBody PROVE Claimed
  BY <1>22 DEF SweepBody, Remove, Fault, Sweeps, chat, files, drains, sweeper, TypeOK
<1>23. ASSUME SweepClaim PROVE Claimed
  BY <1>23 DEF SweepClaim, unclaim, Sweeps, chat, files, drains, sweeper, TypeOK
<1>24. ASSUME Park PROVE Claimed
  BY <1>24 DEF Park, chat, files, drains, sweeper, TypeOK
<1>25. ASSUME Withdraw PROVE Claimed
  BY <1>25 DEF Withdraw, chat, files, drains, sweeper, TypeOK
<1>26. ASSUME Stop PROVE Claimed
  BY <1>26 DEF Stop, Quiet, chat, files, drains, sweeper, TypeOK
<1>27. ASSUME Unpark PROVE Claimed
  BY <1>27 DEF Unpark, chat, files, drains, sweeper, TypeOK
<1>28. ASSUME Wake PROVE Claimed
  BY <1>28 DEF Wake, chat, files, drains, sweeper, TypeOK
<1>29. ASSUME Restore PROVE Claimed
  BY <1>29 DEF Restore, Starts, Idle, Goes, chat, files, drains, sweeper, TypeOK
<1>30. ASSUME Close PROVE Claimed
  BY <1>30 DEF Close, Quiet, chat, files, drains, sweeper, TypeOK
<1>31. ASSUME EngineDies PROVE Claimed
  BY <1>31 DEF EngineDies, Quiet, Fault, chat, files, drains, sweeper, TypeOK
<1>32. ASSUME Open PROVE Claimed
  BY <1>32 DEF Open, Starts, Idle, Goes, chat, files, drains, sweeper, TypeOK
<1>33. ASSUME Retry PROVE Claimed
  BY <1>33 DEF Retry, chat, files, drains, sweeper, TypeOK
<1>34. CASE UNCHANGED vars
  BY <1>34 DEF vars, chat, files, drains, sweeper
<1>35. QED
  BY <1>1, <1>2, <1>3, <1>4, <1>5, <1>6, <1>7, <1>8, <1>9, <1>10, <1>11, <1>12, <1>13,
     <1>14, <1>15, <1>16, <1>17, <1>18, <1>19, <1>20, <1>21, <1>22, <1>23, <1>24, <1>25,
     <1>26, <1>27, <1>28, <1>29, <1>30, <1>31, <1>32, <1>33, <1>34 DEF Next, Sender,
     Keep, Drain, Sweep

(* A drain that is done with a body deleted it.                               *)
LEMMA Deletes ==
    ASSUME TypeOK, NEW f \in File, NEW r \in Readers, [Next]_vars, at[r] = "delete", at'[r] # "delete", Holds(r, f)'
    PROVE  cur[r] = f /\ f \notin body'
<1> DEFINE Claimed ==
           cur[r] = f /\ f \notin body'
<1> SUFFICES Claimed
  OBVIOUS
<1>1. ASSUME NEW n \in Mail, Locate(n) PROVE Claimed
  BY <1>1 DEF Locate, To, chat, files, drains, sweeper, TypeOK, Holds
<1>2. ASSUME NEW n \in Mail, Serve(n) PROVE Claimed
  BY <1>2 DEF Serve, To, deposit, Fault, chat, files, drains, sweeper, TypeOK, Holds
<1>3. ASSUME NEW n \in Mail, GiveUp(n) PROVE Claimed
  BY <1>3 DEF GiveUp, Fault, chat, files, drains, sweeper, TypeOK, Holds
<1>4. ASSUME NEW n \in Mail, FallBack(n) PROVE Claimed
  BY <1>4 DEF FallBack, To, chat, files, drains, sweeper, TypeOK, Holds
<1>5. ASSUME NEW n \in Copy, Seek(n) PROVE Claimed
  BY <1>5 DEF Seek, To, chat, files, drains, sweeper, TypeOK, Holds
<1>6. ASSUME NEW n \in Copy, Deposit(n) PROVE Claimed
  BY <1>6 DEF Deposit, To, deposit, Fault, chat, files, drains, sweeper, TypeOK, Holds
<1>7. ASSUME NEW n \in Copy, AskAgain(n) PROVE Claimed
  BY <1>7 DEF AskAgain, To, chat, files, drains, sweeper, TypeOK, Holds
<1>8. ASSUME NEW n \in Copy, ClaimBack(n) PROVE Claimed
  BY <1>8 DEF ClaimBack, To, Claim, chat, files, drains, sweeper, TypeOK, Holds
<1>9. ASSUME NEW n \in Copy, TakeBack(n) PROVE Claimed
  BY <1>9 DEF TakeBack, To, Remove, Fault, chat, files, drains, sweeper, TypeOK, Holds
<1>10. ASSUME NEW n \in Copy, UnclaimBack(n) PROVE Claimed
  BY <1>10 DEF UnclaimBack, To, unclaim, chat, files, drains, sweeper, TypeOK, Holds
<1>11. ASSUME NEW n \in Mail, SenderDies(n) PROVE Claimed
  BY <1>11 DEF SenderDies, To, Fault, chat, files, drains, sweeper, TypeOK, Holds
<1>12. ASSUME NEW q \in Readers, List(q) PROVE Claimed
  BY <1>12 DEF List, Goes, chat, files, drains, sweeper, TypeOK, Holds
<1>13. ASSUME NEW q \in Readers, Take(q) PROVE Claimed
  BY <1>13 DEF Take, Goes, Claim, chat, files, drains, sweeper, TypeOK, Holds
<1>14. ASSUME NEW q \in Readers, Read(q) PROVE Claimed
  BY <1>14 DEF Read, Goes, chat, files, drains, sweeper, TypeOK, Holds
<1>15. ASSUME NEW q \in Readers, Admit(q) PROVE Claimed
  BY <1>15 DEF Admit, Goes, deposit, Fault, chat, files, drains, sweeper, TypeOK, Holds
<1>16. ASSUME NEW q \in Readers, Delete(q) PROVE Claimed
  BY <1>16 DEF Delete, Goes, Remove, Fault, chat, files, drains, sweeper, TypeOK, Holds
<1>17. ASSUME NEW q \in Readers, Release(q) PROVE Claimed
  BY <1>17 DEF Release, Goes, unclaim, chat, files, drains, sweeper, TypeOK, Holds
<1>18. ASSUME NEW q \in Readers, Ends(q) PROVE Claimed
  BY <1>18 DEF Ends, Goes, chat, files, drains, sweeper, TypeOK, Holds
<1>19. ASSUME NEW q \in Readers, LateDrain(q) PROVE Claimed
  BY <1>19 DEF LateDrain, Goes, chat, files, drains, sweeper, TypeOK, Holds
<1>20. ASSUME NEW g \in File, FindStale(g) PROVE Claimed
  BY <1>20 DEF FindStale, Sweeps, chat, files, drains, sweeper, TypeOK, Holds
<1>21. ASSUME NEW g \in File, FindExpired(g) PROVE Claimed
  BY <1>21 DEF FindExpired, Sweeps, chat, files, drains, sweeper, TypeOK, Holds
<1>22. ASSUME SweepBody PROVE Claimed
  BY <1>22 DEF SweepBody, Remove, Fault, Sweeps, chat, files, drains, sweeper, TypeOK,
     Holds
<1>23. ASSUME SweepClaim PROVE Claimed
  BY <1>23 DEF SweepClaim, unclaim, Sweeps, chat, files, drains, sweeper, TypeOK, Holds
<1>24. ASSUME Park PROVE Claimed
  BY <1>24 DEF Park, chat, files, drains, sweeper, TypeOK, Holds
<1>25. ASSUME Withdraw PROVE Claimed
  BY <1>25 DEF Withdraw, chat, files, drains, sweeper, TypeOK, Holds
<1>26. ASSUME Stop PROVE Claimed
  BY <1>26 DEF Stop, Quiet, chat, files, drains, sweeper, TypeOK, Holds
<1>27. ASSUME Unpark PROVE Claimed
  BY <1>27 DEF Unpark, chat, files, drains, sweeper, TypeOK, Holds
<1>28. ASSUME Wake PROVE Claimed
  BY <1>28 DEF Wake, chat, files, drains, sweeper, TypeOK, Holds
<1>29. ASSUME Restore PROVE Claimed
  BY <1>29 DEF Restore, Starts, Idle, Goes, chat, files, drains, sweeper, TypeOK, Holds
<1>30. ASSUME Close PROVE Claimed
  BY <1>30 DEF Close, Quiet, chat, files, drains, sweeper, TypeOK, Holds
<1>31. ASSUME EngineDies PROVE Claimed
  BY <1>31 DEF EngineDies, Quiet, Fault, chat, files, drains, sweeper, TypeOK, Holds
<1>32. ASSUME Open PROVE Claimed
  BY <1>32 DEF Open, Starts, Idle, Goes, chat, files, drains, sweeper, TypeOK, Holds
<1>33. ASSUME Retry PROVE Claimed
  BY <1>33 DEF Retry, chat, files, drains, sweeper, TypeOK, Holds
<1>34. CASE UNCHANGED vars
  BY <1>34 DEF vars, chat, files, drains, sweeper, Holds
<1>35. QED
  BY <1>1, <1>2, <1>3, <1>4, <1>5, <1>6, <1>7, <1>8, <1>9, <1>10, <1>11, <1>12, <1>13,
     <1>14, <1>15, <1>16, <1>17, <1>18, <1>19, <1>20, <1>21, <1>22, <1>23, <1>24, <1>25,
     <1>26, <1>27, <1>28, <1>29, <1>30, <1>31, <1>32, <1>33, <1>34 DEF Next, Sender,
     Keep, Drain, Sweep

(* A drain that admitted a body: the session got it, or the engine kept it again. *)
LEMMA Admits ==
    ASSUME TypeOK, NEW r \in Readers, [Next]_vars, at[r] = "admit", at'[r] = "delete"
    PROVE  /\ UNCHANGED << claimed, cur, send, sweep, swept >>
           /\ \A s \in Readers : s # r => at'[s] = at[s]
           /\ \/ turns'[cur[r][1]] = turns[cur[r][1]] + 1
              \/ << cur[r][1], cur[r][2] + 1 >> \in body'
<1> DEFINE Claimed ==
           /\ UNCHANGED << claimed, cur, send, sweep, swept >>
           /\ \A s \in Readers : s # r => at'[s] = at[s]
           /\ \/ turns'[cur[r][1]] = turns[cur[r][1]] + 1
              \/ << cur[r][1], cur[r][2] + 1 >> \in body'
<1> SUFFICES Claimed
  OBVIOUS
<1>1. ASSUME NEW n \in Mail, Locate(n) PROVE Claimed
  BY <1>1 DEF Locate, To, chat, files, drains, sweeper, TypeOK
<1>2. ASSUME NEW n \in Mail, Serve(n) PROVE Claimed
  BY <1>2 DEF Serve, To, deposit, Fault, chat, files, drains, sweeper, TypeOK
<1>3. ASSUME NEW n \in Mail, GiveUp(n) PROVE Claimed
  BY <1>3 DEF GiveUp, Fault, chat, files, drains, sweeper, TypeOK
<1>4. ASSUME NEW n \in Mail, FallBack(n) PROVE Claimed
  BY <1>4 DEF FallBack, To, chat, files, drains, sweeper, TypeOK
<1>5. ASSUME NEW n \in Copy, Seek(n) PROVE Claimed
  BY <1>5 DEF Seek, To, chat, files, drains, sweeper, TypeOK
<1>6. ASSUME NEW n \in Copy, Deposit(n) PROVE Claimed
  BY <1>6 DEF Deposit, To, deposit, Fault, chat, files, drains, sweeper, TypeOK
<1>7. ASSUME NEW n \in Copy, AskAgain(n) PROVE Claimed
  BY <1>7 DEF AskAgain, To, chat, files, drains, sweeper, TypeOK
<1>8. ASSUME NEW n \in Copy, ClaimBack(n) PROVE Claimed
  BY <1>8 DEF ClaimBack, To, Claim, chat, files, drains, sweeper, TypeOK
<1>9. ASSUME NEW n \in Copy, TakeBack(n) PROVE Claimed
  BY <1>9 DEF TakeBack, To, Remove, Fault, chat, files, drains, sweeper, TypeOK
<1>10. ASSUME NEW n \in Copy, UnclaimBack(n) PROVE Claimed
  BY <1>10 DEF UnclaimBack, To, unclaim, chat, files, drains, sweeper, TypeOK
<1>11. ASSUME NEW n \in Mail, SenderDies(n) PROVE Claimed
  BY <1>11 DEF SenderDies, To, Fault, chat, files, drains, sweeper, TypeOK
<1>12. ASSUME NEW q \in Readers, List(q) PROVE Claimed
  BY <1>12 DEF List, Goes, chat, files, drains, sweeper, TypeOK
<1>13. ASSUME NEW q \in Readers, Take(q) PROVE Claimed
  BY <1>13 DEF Take, Goes, Claim, chat, files, drains, sweeper, TypeOK
<1>14. ASSUME NEW q \in Readers, Read(q) PROVE Claimed
  BY <1>14 DEF Read, Goes, chat, files, drains, sweeper, TypeOK
<1>15. ASSUME NEW q \in Readers, Admit(q) PROVE Claimed
  BY <1>15, NextFile DEF Admit, Goes, deposit, Fault, chat, files, drains, sweeper,
     TypeOK
<1>16. ASSUME NEW q \in Readers, Delete(q) PROVE Claimed
  BY <1>16 DEF Delete, Goes, Remove, Fault, chat, files, drains, sweeper, TypeOK
<1>17. ASSUME NEW q \in Readers, Release(q) PROVE Claimed
  BY <1>17 DEF Release, Goes, unclaim, chat, files, drains, sweeper, TypeOK
<1>18. ASSUME NEW q \in Readers, Ends(q) PROVE Claimed
  BY <1>18 DEF Ends, Goes, chat, files, drains, sweeper, TypeOK
<1>19. ASSUME NEW q \in Readers, LateDrain(q) PROVE Claimed
  BY <1>19 DEF LateDrain, Goes, chat, files, drains, sweeper, TypeOK
<1>20. ASSUME NEW g \in File, FindStale(g) PROVE Claimed
  BY <1>20 DEF FindStale, Sweeps, chat, files, drains, sweeper, TypeOK
<1>21. ASSUME NEW g \in File, FindExpired(g) PROVE Claimed
  BY <1>21 DEF FindExpired, Sweeps, chat, files, drains, sweeper, TypeOK
<1>22. ASSUME SweepBody PROVE Claimed
  BY <1>22 DEF SweepBody, Remove, Fault, Sweeps, chat, files, drains, sweeper, TypeOK
<1>23. ASSUME SweepClaim PROVE Claimed
  BY <1>23 DEF SweepClaim, unclaim, Sweeps, chat, files, drains, sweeper, TypeOK
<1>24. ASSUME Park PROVE Claimed
  BY <1>24 DEF Park, chat, files, drains, sweeper, TypeOK
<1>25. ASSUME Withdraw PROVE Claimed
  BY <1>25 DEF Withdraw, chat, files, drains, sweeper, TypeOK
<1>26. ASSUME Stop PROVE Claimed
  BY <1>26 DEF Stop, Quiet, chat, files, drains, sweeper, TypeOK
<1>27. ASSUME Unpark PROVE Claimed
  BY <1>27 DEF Unpark, chat, files, drains, sweeper, TypeOK
<1>28. ASSUME Wake PROVE Claimed
  BY <1>28 DEF Wake, chat, files, drains, sweeper, TypeOK
<1>29. ASSUME Restore PROVE Claimed
  BY <1>29 DEF Restore, Starts, Idle, Goes, chat, files, drains, sweeper, TypeOK
<1>30. ASSUME Close PROVE Claimed
  BY <1>30 DEF Close, Quiet, chat, files, drains, sweeper, TypeOK
<1>31. ASSUME EngineDies PROVE Claimed
  BY <1>31 DEF EngineDies, Quiet, Fault, chat, files, drains, sweeper, TypeOK
<1>32. ASSUME Open PROVE Claimed
  BY <1>32 DEF Open, Starts, Idle, Goes, chat, files, drains, sweeper, TypeOK
<1>33. ASSUME Retry PROVE Claimed
  BY <1>33 DEF Retry, chat, files, drains, sweeper, TypeOK
<1>34. CASE UNCHANGED vars
  BY <1>34 DEF vars, chat, files, drains, sweeper
<1>35. QED
  BY <1>1, <1>2, <1>3, <1>4, <1>5, <1>6, <1>7, <1>8, <1>9, <1>10, <1>11, <1>12, <1>13,
     <1>14, <1>15, <1>16, <1>17, <1>18, <1>19, <1>20, <1>21, <1>22, <1>23, <1>24, <1>25,
     <1>26, <1>27, <1>28, <1>29, <1>30, <1>31, <1>32, <1>33, <1>34 DEF Next, Sender,
     Keep, Drain, Sweep

(* A body is deleted by its drain, by its sender, or by the sweep.            *)
LEMMA Leaves ==
    ASSUME TypeOK, NEW f \in File, [Next]_vars, f \in body, f \notin body'
    PROVE  /\ body' = body \ {f}
           /\ \/ \E r \in Readers : at[r] = "delete" /\ cur[r] = f
              \/ \E c \in Copy : send[c] = "taking" /\ First(c) = f /\ send'[c] = "give up"
              \/ f[1] \in swept'
<1> DEFINE Claimed ==
           /\ body' = body \ {f}
           /\ \/ \E r \in Readers : at[r] = "delete" /\ cur[r] = f
              \/ \E c \in Copy : send[c] = "taking" /\ First(c) = f /\ send'[c] = "give up"
              \/ f[1] \in swept'
<1> SUFFICES Claimed
  OBVIOUS
<1>1. ASSUME NEW n \in Mail, Locate(n) PROVE Claimed
  BY <1>1, FirstType DEF Locate, To, chat, files, drains, sweeper, TypeOK
<1>2. ASSUME NEW n \in Mail, Serve(n) PROVE Claimed
  BY <1>2, FirstType DEF Serve, To, deposit, Fault, chat, files, drains, sweeper, TypeOK
<1>3. ASSUME NEW n \in Mail, GiveUp(n) PROVE Claimed
  BY <1>3, FirstType DEF GiveUp, Fault, chat, files, drains, sweeper, TypeOK
<1>4. ASSUME NEW n \in Mail, FallBack(n) PROVE Claimed
  BY <1>4, FirstType DEF FallBack, To, chat, files, drains, sweeper, TypeOK
<1>5. ASSUME NEW n \in Copy, Seek(n) PROVE Claimed
  BY <1>5, FirstType DEF Seek, To, chat, files, drains, sweeper, TypeOK
<1>6. ASSUME NEW n \in Copy, Deposit(n) PROVE Claimed
  BY <1>6, FirstType DEF Deposit, To, deposit, Fault, chat, files, drains, sweeper,
     TypeOK
<1>7. ASSUME NEW n \in Copy, AskAgain(n) PROVE Claimed
  BY <1>7, FirstType DEF AskAgain, To, chat, files, drains, sweeper, TypeOK
<1>8. ASSUME NEW n \in Copy, ClaimBack(n) PROVE Claimed
  BY <1>8, FirstType DEF ClaimBack, To, Claim, chat, files, drains, sweeper, TypeOK
<1>9. ASSUME NEW n \in Copy, TakeBack(n) PROVE Claimed
  BY <1>9, FirstType DEF TakeBack, To, Remove, Fault, chat, files, drains, sweeper,
     TypeOK
<1>10. ASSUME NEW n \in Copy, UnclaimBack(n) PROVE Claimed
  BY <1>10, FirstType DEF UnclaimBack, To, unclaim, chat, files, drains, sweeper, TypeOK
<1>11. ASSUME NEW n \in Mail, SenderDies(n) PROVE Claimed
  BY <1>11, FirstType DEF SenderDies, To, Fault, chat, files, drains, sweeper, TypeOK
<1>12. ASSUME NEW q \in Readers, List(q) PROVE Claimed
  BY <1>12, FirstType DEF List, Goes, chat, files, drains, sweeper, TypeOK
<1>13. ASSUME NEW q \in Readers, Take(q) PROVE Claimed
  BY <1>13, FirstType DEF Take, Goes, Claim, chat, files, drains, sweeper, TypeOK
<1>14. ASSUME NEW q \in Readers, Read(q) PROVE Claimed
  BY <1>14, FirstType DEF Read, Goes, chat, files, drains, sweeper, TypeOK
<1>15. ASSUME NEW q \in Readers, Admit(q) PROVE Claimed
  BY <1>15, FirstType DEF Admit, Goes, deposit, Fault, chat, files, drains, sweeper,
     TypeOK
<1>16. ASSUME NEW q \in Readers, Delete(q) PROVE Claimed
  BY <1>16, FirstType DEF Delete, Goes, Remove, Fault, chat, files, drains, sweeper,
     TypeOK
<1>17. ASSUME NEW q \in Readers, Release(q) PROVE Claimed
  BY <1>17, FirstType DEF Release, Goes, unclaim, chat, files, drains, sweeper, TypeOK
<1>18. ASSUME NEW q \in Readers, Ends(q) PROVE Claimed
  BY <1>18, FirstType DEF Ends, Goes, chat, files, drains, sweeper, TypeOK
<1>19. ASSUME NEW q \in Readers, LateDrain(q) PROVE Claimed
  BY <1>19, FirstType DEF LateDrain, Goes, chat, files, drains, sweeper, TypeOK
<1>20. ASSUME NEW g \in File, FindStale(g) PROVE Claimed
  BY <1>20, FirstType DEF FindStale, Sweeps, chat, files, drains, sweeper, TypeOK
<1>21. ASSUME NEW g \in File, FindExpired(g) PROVE Claimed
  BY <1>21, FirstType DEF FindExpired, Sweeps, chat, files, drains, sweeper, TypeOK
<1>22. ASSUME SweepBody PROVE Claimed
  BY <1>22, FirstType DEF SweepBody, Remove, Fault, Sweeps, chat, files, drains,
     sweeper, TypeOK
<1>23. ASSUME SweepClaim PROVE Claimed
  BY <1>23, FirstType DEF SweepClaim, unclaim, Sweeps, chat, files, drains, sweeper,
     TypeOK
<1>24. ASSUME Park PROVE Claimed
  BY <1>24, FirstType DEF Park, chat, files, drains, sweeper, TypeOK
<1>25. ASSUME Withdraw PROVE Claimed
  BY <1>25, FirstType DEF Withdraw, chat, files, drains, sweeper, TypeOK
<1>26. ASSUME Stop PROVE Claimed
  BY <1>26, FirstType DEF Stop, Quiet, chat, files, drains, sweeper, TypeOK
<1>27. ASSUME Unpark PROVE Claimed
  BY <1>27, FirstType DEF Unpark, chat, files, drains, sweeper, TypeOK
<1>28. ASSUME Wake PROVE Claimed
  BY <1>28, FirstType DEF Wake, chat, files, drains, sweeper, TypeOK
<1>29. ASSUME Restore PROVE Claimed
  BY <1>29, FirstType DEF Restore, Starts, Idle, Goes, chat, files, drains, sweeper,
     TypeOK
<1>30. ASSUME Close PROVE Claimed
  BY <1>30, FirstType DEF Close, Quiet, chat, files, drains, sweeper, TypeOK
<1>31. ASSUME EngineDies PROVE Claimed
  BY <1>31, FirstType DEF EngineDies, Quiet, Fault, chat, files, drains, sweeper, TypeOK
<1>32. ASSUME Open PROVE Claimed
  BY <1>32, FirstType DEF Open, Starts, Idle, Goes, chat, files, drains, sweeper, TypeOK
<1>33. ASSUME Retry PROVE Claimed
  BY <1>33, FirstType DEF Retry, chat, files, drains, sweeper, TypeOK
<1>34. CASE UNCHANGED vars
  BY <1>34, FirstType DEF vars, chat, files, drains, sweeper
<1>35. QED
  BY <1>1, <1>2, <1>3, <1>4, <1>5, <1>6, <1>7, <1>8, <1>9, <1>10, <1>11, <1>12, <1>13,
     <1>14, <1>15, <1>16, <1>17, <1>18, <1>19, <1>20, <1>21, <1>22, <1>23, <1>24, <1>25,
     <1>26, <1>27, <1>28, <1>29, <1>30, <1>31, <1>32, <1>33, <1>34 DEF Next, Sender,
     Keep, Drain, Sweep

(* Only the sweep deletes a copy for good.                                    *)
LEMMA SweepTakes ==
    ASSUME TypeOK, NEW c \in Copy, [Next]_vars, c \in swept', c \notin swept
    PROVE  /\ sweep.at # "off" /\ sweep.file \in body /\ sweep.file[1] = c
           /\ body' = body \ {sweep.file}
           /\ UNCHANGED << stamp, send, at, cur, turns >>
<1> DEFINE Claimed ==
           /\ sweep.at # "off" /\ sweep.file \in body /\ sweep.file[1] = c
           /\ body' = body \ {sweep.file}
           /\ UNCHANGED << stamp, send, at, cur, turns >>
<1> SUFFICES Claimed
  OBVIOUS
<1>1. ASSUME NEW n \in Mail, Locate(n) PROVE Claimed
  BY <1>1 DEF Locate, To, chat, files, drains, sweeper, TypeOK
<1>2. ASSUME NEW n \in Mail, Serve(n) PROVE Claimed
  BY <1>2 DEF Serve, To, deposit, Fault, chat, files, drains, sweeper, TypeOK
<1>3. ASSUME NEW n \in Mail, GiveUp(n) PROVE Claimed
  BY <1>3 DEF GiveUp, Fault, chat, files, drains, sweeper, TypeOK
<1>4. ASSUME NEW n \in Mail, FallBack(n) PROVE Claimed
  BY <1>4 DEF FallBack, To, chat, files, drains, sweeper, TypeOK
<1>5. ASSUME NEW n \in Copy, Seek(n) PROVE Claimed
  BY <1>5 DEF Seek, To, chat, files, drains, sweeper, TypeOK
<1>6. ASSUME NEW n \in Copy, Deposit(n) PROVE Claimed
  BY <1>6 DEF Deposit, To, deposit, Fault, chat, files, drains, sweeper, TypeOK
<1>7. ASSUME NEW n \in Copy, AskAgain(n) PROVE Claimed
  BY <1>7 DEF AskAgain, To, chat, files, drains, sweeper, TypeOK
<1>8. ASSUME NEW n \in Copy, ClaimBack(n) PROVE Claimed
  BY <1>8 DEF ClaimBack, To, Claim, chat, files, drains, sweeper, TypeOK
<1>9. ASSUME NEW n \in Copy, TakeBack(n) PROVE Claimed
  BY <1>9 DEF TakeBack, To, Remove, Fault, chat, files, drains, sweeper, TypeOK
<1>10. ASSUME NEW n \in Copy, UnclaimBack(n) PROVE Claimed
  BY <1>10 DEF UnclaimBack, To, unclaim, chat, files, drains, sweeper, TypeOK
<1>11. ASSUME NEW n \in Mail, SenderDies(n) PROVE Claimed
  BY <1>11 DEF SenderDies, To, Fault, chat, files, drains, sweeper, TypeOK
<1>12. ASSUME NEW q \in Readers, List(q) PROVE Claimed
  BY <1>12 DEF List, Goes, chat, files, drains, sweeper, TypeOK
<1>13. ASSUME NEW q \in Readers, Take(q) PROVE Claimed
  BY <1>13 DEF Take, Goes, Claim, chat, files, drains, sweeper, TypeOK
<1>14. ASSUME NEW q \in Readers, Read(q) PROVE Claimed
  BY <1>14 DEF Read, Goes, chat, files, drains, sweeper, TypeOK
<1>15. ASSUME NEW q \in Readers, Admit(q) PROVE Claimed
  BY <1>15 DEF Admit, Goes, deposit, Fault, chat, files, drains, sweeper, TypeOK
<1>16. ASSUME NEW q \in Readers, Delete(q) PROVE Claimed
  BY <1>16 DEF Delete, Goes, Remove, Fault, chat, files, drains, sweeper, TypeOK
<1>17. ASSUME NEW q \in Readers, Release(q) PROVE Claimed
  BY <1>17 DEF Release, Goes, unclaim, chat, files, drains, sweeper, TypeOK
<1>18. ASSUME NEW q \in Readers, Ends(q) PROVE Claimed
  BY <1>18 DEF Ends, Goes, chat, files, drains, sweeper, TypeOK
<1>19. ASSUME NEW q \in Readers, LateDrain(q) PROVE Claimed
  BY <1>19 DEF LateDrain, Goes, chat, files, drains, sweeper, TypeOK
<1>20. ASSUME NEW g \in File, FindStale(g) PROVE Claimed
  BY <1>20 DEF FindStale, Sweeps, chat, files, drains, sweeper, TypeOK
<1>21. ASSUME NEW g \in File, FindExpired(g) PROVE Claimed
  BY <1>21 DEF FindExpired, Sweeps, chat, files, drains, sweeper, TypeOK
<1>22. ASSUME SweepBody PROVE Claimed
  BY <1>22 DEF SweepBody, Remove, Fault, Sweeps, chat, files, drains, sweeper, TypeOK
<1>23. ASSUME SweepClaim PROVE Claimed
  BY <1>23 DEF SweepClaim, unclaim, Sweeps, chat, files, drains, sweeper, TypeOK
<1>24. ASSUME Park PROVE Claimed
  BY <1>24 DEF Park, chat, files, drains, sweeper, TypeOK
<1>25. ASSUME Withdraw PROVE Claimed
  BY <1>25 DEF Withdraw, chat, files, drains, sweeper, TypeOK
<1>26. ASSUME Stop PROVE Claimed
  BY <1>26 DEF Stop, Quiet, chat, files, drains, sweeper, TypeOK
<1>27. ASSUME Unpark PROVE Claimed
  BY <1>27 DEF Unpark, chat, files, drains, sweeper, TypeOK
<1>28. ASSUME Wake PROVE Claimed
  BY <1>28 DEF Wake, chat, files, drains, sweeper, TypeOK
<1>29. ASSUME Restore PROVE Claimed
  BY <1>29 DEF Restore, Starts, Idle, Goes, chat, files, drains, sweeper, TypeOK
<1>30. ASSUME Close PROVE Claimed
  BY <1>30 DEF Close, Quiet, chat, files, drains, sweeper, TypeOK
<1>31. ASSUME EngineDies PROVE Claimed
  BY <1>31 DEF EngineDies, Quiet, Fault, chat, files, drains, sweeper, TypeOK
<1>32. ASSUME Open PROVE Claimed
  BY <1>32 DEF Open, Starts, Idle, Goes, chat, files, drains, sweeper, TypeOK
<1>33. ASSUME Retry PROVE Claimed
  BY <1>33 DEF Retry, chat, files, drains, sweeper, TypeOK
<1>34. CASE UNCHANGED vars
  BY <1>34 DEF vars, chat, files, drains, sweeper
<1>35. QED
  BY <1>1, <1>2, <1>3, <1>4, <1>5, <1>6, <1>7, <1>8, <1>9, <1>10, <1>11, <1>12, <1>13,
     <1>14, <1>15, <1>16, <1>17, <1>18, <1>19, <1>20, <1>21, <1>22, <1>23, <1>24, <1>25,
     <1>26, <1>27, <1>28, <1>29, <1>30, <1>31, <1>32, <1>33, <1>34 DEF Next, Sender,
     Keep, Drain, Sweep

(* A letter is written only when the request was refused or nobody waits for *)
(* its answer any more.                                                       *)
LEMMA Writes ==
    ASSUME TypeOK, NEW m \in Mail, [Next]_vars,
           send[Request(m)] \in {"new", "posting", "sent", "refused"}
    PROVE  /\ m \in unheard => m \in unheard'
           /\ m \notin unheard /\ m \in unheard' =>
                  send[Request(m)] = "posting" /\ send'[Request(m)] = "posting"
           /\ send[Letter(m)] = "new" /\ send'[Letter(m)] # "new" =>
                  m \in unheard' \/ send'[Request(m)] \in {"new", "refused"}
           /\ send'[Request(m)] # send[Request(m)] =>
                  /\ send'[Request(m)] \in {"posting", "sent", "refused"}
                  /\ send[Letter(m)] = "new" \/ send[Request(m)] = "posting"
<1> DEFINE Claimed ==
           /\ m \in unheard => m \in unheard'
           /\ m \notin unheard /\ m \in unheard' =>
                  send[Request(m)] = "posting" /\ send'[Request(m)] = "posting"
           /\ send[Letter(m)] = "new" /\ send'[Letter(m)] # "new" =>
                  m \in unheard' \/ send'[Request(m)] \in {"new", "refused"}
           /\ send'[Request(m)] # send[Request(m)] =>
                  /\ send'[Request(m)] \in {"posting", "sent", "refused"}
                  /\ send[Letter(m)] = "new" \/ send[Request(m)] = "posting"
<1>0. Request(m) \in Copy /\ Letter(m) \in Copy /\ Request(m) # Letter(m)
  BY CopyType
<1> SUFFICES Claimed
  OBVIOUS
<1>1. ASSUME NEW n \in Mail, Locate(n) PROVE Claimed
  BY <1>0, <1>1, CopyType DEF Locate, To, chat, files, drains, sweeper, TypeOK
<1>2. ASSUME NEW n \in Mail, Serve(n) PROVE Claimed
  BY <1>0, <1>2, CopyType DEF Serve, To, deposit, Fault, chat, files, drains, sweeper,
     TypeOK
<1>3. ASSUME NEW n \in Mail, GiveUp(n) PROVE Claimed
  BY <1>0, <1>3, CopyType DEF GiveUp, Fault, chat, files, drains, sweeper, TypeOK
<1>4. ASSUME NEW n \in Mail, FallBack(n) PROVE Claimed
  BY <1>0, <1>4, CopyType DEF FallBack, To, chat, files, drains, sweeper, TypeOK
<1>5. ASSUME NEW n \in Copy, Seek(n) PROVE Claimed
  BY <1>0, <1>5 DEF Seek, To, chat, files, drains, sweeper, TypeOK
<1>6. ASSUME NEW n \in Copy, Deposit(n) PROVE Claimed
  BY <1>0, <1>6 DEF Deposit, To, deposit, Fault, chat, files, drains, sweeper, TypeOK
<1>7. ASSUME NEW n \in Copy, AskAgain(n) PROVE Claimed
  BY <1>0, <1>7 DEF AskAgain, To, chat, files, drains, sweeper, TypeOK
<1>8. ASSUME NEW n \in Copy, ClaimBack(n) PROVE Claimed
  BY <1>0, <1>8 DEF ClaimBack, To, Claim, chat, files, drains, sweeper, TypeOK
<1>9. ASSUME NEW n \in Copy, TakeBack(n) PROVE Claimed
  BY <1>0, <1>9 DEF TakeBack, To, Remove, Fault, chat, files, drains, sweeper, TypeOK
<1>10. ASSUME NEW n \in Copy, UnclaimBack(n) PROVE Claimed
  BY <1>0, <1>10 DEF UnclaimBack, To, unclaim, chat, files, drains, sweeper, TypeOK
<1>11. ASSUME NEW n \in Mail, SenderDies(n) PROVE Claimed
  BY <1>0, <1>11, CopyType DEF SenderDies, To, Fault, chat, files, drains, sweeper,
     TypeOK
<1>12. ASSUME NEW q \in Readers, List(q) PROVE Claimed
  BY <1>0, <1>12 DEF List, Goes, chat, files, drains, sweeper, TypeOK
<1>13. ASSUME NEW q \in Readers, Take(q) PROVE Claimed
  BY <1>0, <1>13 DEF Take, Goes, Claim, chat, files, drains, sweeper, TypeOK
<1>14. ASSUME NEW q \in Readers, Read(q) PROVE Claimed
  BY <1>0, <1>14 DEF Read, Goes, chat, files, drains, sweeper, TypeOK
<1>15. ASSUME NEW q \in Readers, Admit(q) PROVE Claimed
  BY <1>0, <1>15 DEF Admit, Goes, deposit, Fault, chat, files, drains, sweeper, TypeOK
<1>16. ASSUME NEW q \in Readers, Delete(q) PROVE Claimed
  BY <1>0, <1>16 DEF Delete, Goes, Remove, Fault, chat, files, drains, sweeper, TypeOK
<1>17. ASSUME NEW q \in Readers, Release(q) PROVE Claimed
  BY <1>0, <1>17 DEF Release, Goes, unclaim, chat, files, drains, sweeper, TypeOK
<1>18. ASSUME NEW q \in Readers, Ends(q) PROVE Claimed
  BY <1>0, <1>18 DEF Ends, Goes, chat, files, drains, sweeper, TypeOK
<1>19. ASSUME NEW q \in Readers, LateDrain(q) PROVE Claimed
  BY <1>0, <1>19 DEF LateDrain, Goes, chat, files, drains, sweeper, TypeOK
<1>20. ASSUME NEW g \in File, FindStale(g) PROVE Claimed
  BY <1>0, <1>20 DEF FindStale, Sweeps, chat, files, drains, sweeper, TypeOK
<1>21. ASSUME NEW g \in File, FindExpired(g) PROVE Claimed
  BY <1>0, <1>21 DEF FindExpired, Sweeps, chat, files, drains, sweeper, TypeOK
<1>22. ASSUME SweepBody PROVE Claimed
  BY <1>0, <1>22 DEF SweepBody, Remove, Fault, Sweeps, chat, files, drains, sweeper,
     TypeOK, Holds
<1>23. ASSUME SweepClaim PROVE Claimed
  BY <1>0, <1>23 DEF SweepClaim, unclaim, Sweeps, chat, files, drains, sweeper, TypeOK
<1>24. ASSUME Park PROVE Claimed
  BY <1>0, <1>24 DEF Park, chat, files, drains, sweeper, TypeOK
<1>25. ASSUME Withdraw PROVE Claimed
  BY <1>0, <1>25 DEF Withdraw, chat, files, drains, sweeper, TypeOK
<1>26. ASSUME Stop PROVE Claimed
  BY <1>0, <1>26 DEF Stop, Quiet, chat, files, drains, sweeper, TypeOK
<1>27. ASSUME Unpark PROVE Claimed
  BY <1>0, <1>27 DEF Unpark, chat, files, drains, sweeper, TypeOK
<1>28. ASSUME Wake PROVE Claimed
  BY <1>0, <1>28 DEF Wake, chat, files, drains, sweeper, TypeOK
<1>29. ASSUME Restore PROVE Claimed
  BY <1>0, <1>29 DEF Restore, Starts, Idle, Goes, chat, files, drains, sweeper, TypeOK
<1>30. ASSUME Close PROVE Claimed
  BY <1>0, <1>30 DEF Close, Quiet, chat, files, drains, sweeper, TypeOK
<1>31. ASSUME EngineDies PROVE Claimed
  BY <1>0, <1>31 DEF EngineDies, Quiet, Fault, chat, files, drains, sweeper, TypeOK
<1>32. ASSUME Open PROVE Claimed
  BY <1>0, <1>32 DEF Open, Starts, Idle, Goes, chat, files, drains, sweeper, TypeOK
<1>33. ASSUME Retry PROVE Claimed
  BY <1>0, <1>33 DEF Retry, chat, files, drains, sweeper, TypeOK
<1>34. CASE UNCHANGED vars
  BY <1>0, <1>34 DEF vars, chat, files, drains, sweeper
<1>35. QED
  BY <1>1, <1>2, <1>3, <1>4, <1>5, <1>6, <1>7, <1>8, <1>9, <1>10, <1>11, <1>12, <1>13,
     <1>14, <1>15, <1>16, <1>17, <1>18, <1>19, <1>20, <1>21, <1>22, <1>23, <1>24, <1>25,
     <1>26, <1>27, <1>28, <1>29, <1>30, <1>31, <1>32, <1>33, <1>34 DEF Next, Sender,
     Keep, Drain, Sweep

(* What was read and what was swept stays so.                                 *)
LEMMA Keeps ==
    ASSUME TypeOK, [Next]_vars
    PROVE  /\ \A c \in Copy : turns'[c] >= turns[c]
           /\ swept \subseteq swept'
<1> DEFINE Claimed ==
           /\ \A c \in Copy : turns'[c] >= turns[c]
           /\ swept \subseteq swept'
<1> SUFFICES Claimed
  OBVIOUS
<1>1. ASSUME NEW n \in Mail, Locate(n) PROVE Claimed
  BY <1>1 DEF Locate, To, chat, files, drains, sweeper, TypeOK, TypeOK
<1>2. ASSUME NEW n \in Mail, Serve(n) PROVE Claimed
  BY <1>2 DEF Serve, To, deposit, Fault, chat, files, drains, sweeper, TypeOK, TypeOK
<1>3. ASSUME NEW n \in Mail, GiveUp(n) PROVE Claimed
  BY <1>3 DEF GiveUp, Fault, chat, files, drains, sweeper, TypeOK, TypeOK
<1>4. ASSUME NEW n \in Mail, FallBack(n) PROVE Claimed
  BY <1>4 DEF FallBack, To, chat, files, drains, sweeper, TypeOK, TypeOK
<1>5. ASSUME NEW n \in Copy, Seek(n) PROVE Claimed
  BY <1>5 DEF Seek, To, chat, files, drains, sweeper, TypeOK, TypeOK
<1>6. ASSUME NEW n \in Copy, Deposit(n) PROVE Claimed
  <2>1. UNCHANGED << turns, swept >>
    BY <1>6 DEF Deposit, sweeper
  <2>2. QED
    BY <2>1 DEF TypeOK
<1>7. ASSUME NEW n \in Copy, AskAgain(n) PROVE Claimed
  <2>1. UNCHANGED << turns, swept >>
    BY <1>7 DEF AskAgain, sweeper
  <2>2. QED
    BY <2>1 DEF TypeOK
<1>8. ASSUME NEW n \in Copy, ClaimBack(n) PROVE Claimed
  <2>1. UNCHANGED << turns, swept >>
    BY <1>8 DEF ClaimBack, sweeper
  <2>2. QED
    BY <2>1 DEF TypeOK
<1>9. ASSUME NEW n \in Copy, TakeBack(n) PROVE Claimed
  <2>1. UNCHANGED << turns, swept >>
    BY <1>9 DEF TakeBack, sweeper
  <2>2. QED
    BY <2>1 DEF TypeOK
<1>10. ASSUME NEW n \in Copy, UnclaimBack(n) PROVE Claimed
  <2>1. UNCHANGED << turns, swept >>
    BY <1>10 DEF UnclaimBack, sweeper
  <2>2. QED
    BY <2>1 DEF TypeOK
<1>11. ASSUME NEW n \in Mail, SenderDies(n) PROVE Claimed
  BY <1>11 DEF SenderDies, To, Fault, chat, files, drains, sweeper, TypeOK, TypeOK
<1>12. ASSUME NEW q \in Readers, List(q) PROVE Claimed
  BY <1>12 DEF List, Goes, chat, files, drains, sweeper, TypeOK, TypeOK
<1>13. ASSUME NEW q \in Readers, Take(q) PROVE Claimed
  BY <1>13 DEF Take, Goes, Claim, chat, files, drains, sweeper, TypeOK, TypeOK
<1>14. ASSUME NEW q \in Readers, Read(q) PROVE Claimed
  BY <1>14 DEF Read, Goes, chat, files, drains, sweeper, TypeOK, TypeOK
<1>15. ASSUME NEW q \in Readers, Admit(q) PROVE Claimed
  BY <1>15, NextFile DEF Admit, Goes, deposit, Fault, chat, files, drains, sweeper,
     TypeOK, TypeOK
<1>16. ASSUME NEW q \in Readers, Delete(q) PROVE Claimed
  BY <1>16 DEF Delete, Goes, Remove, Fault, chat, files, drains, sweeper, TypeOK, TypeOK
<1>17. ASSUME NEW q \in Readers, Release(q) PROVE Claimed
  BY <1>17 DEF Release, Goes, unclaim, chat, files, drains, sweeper, TypeOK, TypeOK
<1>18. ASSUME NEW q \in Readers, Ends(q) PROVE Claimed
  BY <1>18 DEF Ends, Goes, chat, files, drains, sweeper, TypeOK, TypeOK
<1>19. ASSUME NEW q \in Readers, LateDrain(q) PROVE Claimed
  BY <1>19 DEF LateDrain, Goes, chat, files, drains, sweeper, TypeOK, TypeOK
<1>20. ASSUME NEW g \in File, FindStale(g) PROVE Claimed
  BY <1>20 DEF FindStale, Sweeps, chat, files, drains, sweeper, TypeOK, TypeOK
<1>21. ASSUME NEW g \in File, FindExpired(g) PROVE Claimed
  BY <1>21 DEF FindExpired, Sweeps, chat, files, drains, sweeper, TypeOK, TypeOK
<1>22. ASSUME SweepBody PROVE Claimed
  BY <1>22 DEF SweepBody, Remove, Fault, Sweeps, chat, files, drains, sweeper, TypeOK,
     TypeOK
<1>23. ASSUME SweepClaim PROVE Claimed
  BY <1>23 DEF SweepClaim, unclaim, Sweeps, chat, files, drains, sweeper, TypeOK, TypeOK
<1>24. ASSUME Park PROVE Claimed
  BY <1>24 DEF Park, chat, files, drains, sweeper, TypeOK, TypeOK
<1>25. ASSUME Withdraw PROVE Claimed
  BY <1>25 DEF Withdraw, chat, files, drains, sweeper, TypeOK, TypeOK
<1>26. ASSUME Stop PROVE Claimed
  BY <1>26 DEF Stop, Quiet, chat, files, drains, sweeper, TypeOK, TypeOK
<1>27. ASSUME Unpark PROVE Claimed
  BY <1>27 DEF Unpark, chat, files, drains, sweeper, TypeOK, TypeOK
<1>28. ASSUME Wake PROVE Claimed
  BY <1>28 DEF Wake, chat, files, drains, sweeper, TypeOK, TypeOK
<1>29. ASSUME Restore PROVE Claimed
  BY <1>29 DEF Restore, Starts, Idle, Goes, chat, files, drains, sweeper, TypeOK, TypeOK
<1>30. ASSUME Close PROVE Claimed
  BY <1>30 DEF Close, Quiet, chat, files, drains, sweeper, TypeOK, TypeOK
<1>31. ASSUME EngineDies PROVE Claimed
  BY <1>31 DEF EngineDies, Quiet, Fault, chat, files, drains, sweeper, TypeOK, TypeOK
<1>32. ASSUME Open PROVE Claimed
  BY <1>32 DEF Open, Starts, Idle, Goes, chat, files, drains, sweeper, TypeOK, TypeOK
<1>33. ASSUME Retry PROVE Claimed
  BY <1>33 DEF Retry, chat, files, drains, sweeper, TypeOK, TypeOK
<1>34. CASE UNCHANGED vars
  BY <1>34 DEF vars, chat, files, drains, sweeper, TypeOK
<1>35. QED
  BY <1>1, <1>2, <1>3, <1>4, <1>5, <1>6, <1>7, <1>8, <1>9, <1>10, <1>11, <1>12, <1>13,
     <1>14, <1>15, <1>16, <1>17, <1>18, <1>19, <1>20, <1>21, <1>22, <1>23, <1>24, <1>25,
     <1>26, <1>27, <1>28, <1>29, <1>30, <1>31, <1>32, <1>33, <1>34 DEF Next, Sender,
     Keep, Drain, Sweep

(***************************************************************************)
(* At most once.                                                           *)
(***************************************************************************)

Inv == TypeOK /\ Known /\ Early /\ Drained /\ Taken /\ InOneHand /\ Lifted /\ Token

(* A file stays dated.                                                        *)
LEMMA Stays ==
    ASSUME TypeOK, NEW f \in File, [Next]_vars, stamp[f] # 0
    PROVE  stamp'[f] # 0
  BY Dates

(* A copy that has files has its first one.                                   *)
LEMMA FirstDeposit ==
    ASSUME TypeOK, Token, NEW f \in File, stamp[f] # 0
    PROVE  stamp[First(f[1])] # 0
<1>1. f[1] \in Copy /\ f[2] \in Nat /\ f[2] >= 1 /\ f = << f[1], f[2] >>
  BY FileType
<1>2. CASE f[2] = 1
  BY <1>1, <1>2 DEF First
<1>3. CASE f[2] > 1
  <2>1. First(f[1]) \in File /\ First(f[1])[1] = f[1] /\ First(f[1])[2] = 1
    BY <1>1, FileType
  <2>2. QED
    BY <1>3, <2>1 DEF Token
<1>4. QED
  BY <1>1, <1>2, <1>3

(* A drain has no file in hand that nobody deposited.                         *)
LEMMA InHandKnown ==
    ASSUME TypeOK, Known, NEW r \in Readers, at[r] \in {"read", "admit", "delete", "release"}
    PROVE  cur[r] \in File /\ stamp[cur[r]] # 0
<1>1. cur[r] \in File
  BY DEF TypeOK
<1>2. QED
  BY <1>1 DEF Known, Holds

(* A body comes under a name nobody knows.                                    *)
LEMMA Fresh ==
    ASSUME Inv, NEW f \in File, [Next]_vars, f \in body', f \notin body
    PROVE  stamp[f] = 0
<1>1. CASE \E c \in Copy : f = First(c) /\ send[c] \in {"posting", "keeping"}
  BY <1>1 DEF Inv, Early
<1>2. CASE \E r \in Readers : at[r] = "admit" /\ f = << cur[r][1], cur[r][2] + 1 >>
  <2>1. PICK r \in Readers : at[r] = "admit" /\ f = << cur[r][1], cur[r][2] + 1 >>
    BY <1>2
  <2>2. cur[r] \in File /\ cur[r][2] \in Nat
    BY FileType DEF Inv, TypeOK
  <2>3. cur[r][1] = f[1] /\ cur[r][2] < f[2]
    BY <2>1, <2>2
  <2>4. Pending(cur[r])
    BY <2>1 DEF Pending
  <2>5. QED
    BY <2>2, <2>3, <2>4 DEF Inv, Token
<1>3. QED
  BY <1>1, <1>2, Comes DEF Inv

(* The first file of a copy comes from its sender only.                       *)
LEMMA FirstComes ==
    ASSUME Inv, NEW c \in Copy, [Next]_vars, First(c) \in body', First(c) \notin body
    PROVE  send[c] \in {"posting", "keeping"} /\ send'[c] \in {"sent", "asking"}
<1>1. First(c) \in File /\ First(c)[2] = 1
  BY FileType
<1>2. ~ \E r \in Readers : at[r] = "admit" /\ First(c) = << cur[r][1], cur[r][2] + 1 >>
  <2> SUFFICES ASSUME NEW r \in Readers, First(c) = << cur[r][1], cur[r][2] + 1 >> PROVE FALSE
    OBVIOUS
  <2>1. cur[r] \in File
    BY DEF Inv, TypeOK
  <2>2. cur[r][2] \in Nat /\ cur[r][2] >= 1
    BY <2>1, FileType
  <2>3. QED
    BY <1>1, <2>2
<1>3. QED
  BY <1>1, <1>2, Comes, FirstType DEF Inv

(* Nobody learns of a file before it is deposited.                            *)
LEMMA KnownStep ==
    ASSUME Inv, [Next]_vars
    PROVE  Known'
<1> TypeOK
  BY DEF Inv
<1>1. ASSUME NEW f \in File, stamp'[f] = 0
      PROVE  stamp[f] = 0 /\ f \notin body /\ f \notin body' /\ f \notin claimed
  BY <1>1, Stays, Comes DEF Inv, Known
<1>2. ASSUME NEW f \in File, stamp'[f] = 0 PROVE f \notin claimed'
  <2>1. ASSUME NEW r \in Readers PROVE f \notin left[r]
    BY <1>1, <1>2 DEF Inv, Known
  <2>2. ASSUME NEW c \in Copy, send[c] = "claiming" PROVE f # First(c)
    BY <1>1, <1>2, <2>2 DEF Inv, Early
  <2>3. QED
    BY <1>1, <1>2, <2>1, <2>2, Claims
<1>3. ASSUME NEW f \in File, NEW r \in Readers, stamp'[f] = 0 PROVE f \notin left'[r] /\ ~Holds(r, f)'
  <2>1. f \notin left[r] /\ ~Holds(r, f)
    BY <1>1, <1>3 DEF Inv, Known
  <2>2. QED
    BY <1>1, <1>3, <2>1, Names, DrainTakes
<1>4. ASSUME NEW f \in File, stamp'[f] = 0, sweep'.at # "off" PROVE sweep'.file # f
  <2>1. ~(sweep.at # "off" /\ sweep.file = f)
    BY <1>1, <1>4 DEF Inv, Known
  <2>2. QED
    BY <1>1, <1>4, <2>1, Finds
<1>5. QED
  BY <1>1, <1>2, <1>3, <1>4 DEF Known

(* Before its sender deposits a copy, nothing comes of it.                    *)
LEMMA Untouched ==
    ASSUME Inv, NEW c \in Copy, [Next]_vars, stamp[First(c)] = 0, turns[c] = 0,
           send'[c] \notin {"sent", "asking"}
    PROVE  stamp'[First(c)] = 0 /\ turns'[c] = 0
<1> TypeOK
  BY DEF Inv
<1>1. First(c) \in File /\ First(c)[1] = c /\ First(c)[2] = 1
  BY FileType
<1>2. ASSUME NEW r \in Readers, at[r] = "admit" PROVE cur[r][1] # c
  BY <1>2, InHandKnown, FirstDeposit DEF Inv
<1>3. ASSUME NEW r \in Readers PROVE First(c) # << cur[r][1], cur[r][2] + 1 >>
  <2>1. cur[r][2] \in Nat /\ cur[r][2] >= 1
    BY FileType DEF TypeOK
  <2>2. QED
    BY <1>1, <2>1
<1>4. stamp'[First(c)] = 0
  BY <1>1, <1>3, Dates, FirstType
<1>5. turns'[c] = 0
  BY <1>2, Turned
<1>6. QED
  BY <1>4, <1>5

(* A sender deposits a copy once.                                             *)
LEMMA EarlyStep ==
    ASSUME Inv, [Next]_vars
    PROVE  Early'
<1> TypeOK
  BY DEF Inv
<1>1. ASSUME NEW c \in Copy, send'[c] \in {"new", "posting", "seeking", "keeping", "failed"}
      PROVE  stamp'[First(c)] = 0 /\ turns'[c] = 0
  <2>1. send[c] \in {"new", "posting", "seeking", "keeping", "failed"}
    BY <1>1, Sends
  <2>2. stamp[First(c)] = 0 /\ turns[c] = 0
    BY <2>1 DEF Inv, Early
  <2>3. QED
    BY <1>1, <2>2, Untouched
<1>2. ASSUME NEW c \in Copy, send'[c] \in {"asking", "asking again", "claiming"} \/ Takes(c)'
      PROVE  stamp'[First(c)] # 0
  <2>1. CASE send'[c] = "asking" /\ send[c] # "asking"
    BY <2>1, Sends
  <2>2. CASE send[c] \in {"asking", "asking again", "claiming"} \/ Takes(c)
    <3>1. stamp[First(c)] # 0
      BY <2>2 DEF Inv, Early
    <3>2. QED
      BY <3>1, FirstType, Stays
  <2>3. QED
    BY <1>2, <2>1, <2>2, Sends DEF Takes
<1>3. QED
  BY <1>1, <1>2 DEF Early, Takes

(* A claim that is lifted for good has no body.                               *)
LEMMA LiftedStep ==
    ASSUME Inv, SweepsFail = FALSE, [Next]_vars
    PROVE  Lifted'
<1> TypeOK
  BY DEF Inv
<1>1. ASSUME NEW c \in Copy, send'[c] = "give up" PROVE First(c) \notin body'
  <2>1. CASE send[c] = "give up"
    <3>1. First(c) \notin body
      BY <2>1 DEF Inv, Lifted
    <3>2. QED
      BY <1>1, <3>1, FirstComes
  <2>2. CASE send[c] # "give up"
    BY <1>1, <2>2, Sends
  <2>3. QED
    BY <2>1, <2>2
<1>2. ASSUME sweep'.at = "claim" PROVE sweep'.file \notin body'
  <2>1. sweep'.file \in File
    BY TypeStep DEF TypeOK
  <2>2. CASE sweep.at = "claim" /\ sweep.file = sweep'.file
    <3>1. sweep.file \notin body /\ stamp[sweep.file] # 0
      BY <2>1, <2>2 DEF Inv, Lifted, Known
    <3>2. QED
      BY <2>1, <2>2, <3>1, Fresh
  <2>3. CASE ~(sweep.at = "claim" /\ sweep.file = sweep'.file)
    BY <1>2, <2>1, <2>3, Drops
  <2>4. QED
    BY <2>2, <2>3
<1>3. QED
  BY <1>1, <1>2 DEF Lifted

(* A claim on a body that is there is lifted only by its drain, when it is    *)
(* done with it, or by a sender that leaves the body where it is.             *)
LEMMA ClaimStays ==
    ASSUME Inv, NEW f \in File, [Next]_vars, f \in body, f \in claimed, f \notin claimed'
    PROVE  \/ \E r \in Readers : Holds(r, f) /\ at[r] = "release" /\ at'[r] = "next"
           \/ \E c \in Copy : f = First(c) /\ Takes(c) /\ send'[c] \in {"refused", "sent"}
<1>1. ~(sweep.at = "claim" /\ sweep.file = f)
  BY DEF Inv, Lifted
<1>2. QED
  BY <1>1, Frees DEF Inv, Holds, Takes

(* A drain has the claim of its body, and is alone.                           *)
LEMMA DrainedStep ==
    ASSUME Inv, [Next]_vars
    PROVE  Drained'
<1> TypeOK
  BY DEF Inv
<1>1. ASSUME NEW f \in File, f \in body', NEW r \in Readers, Holds(r, f)'
      PROVE  f \in body /\ f \in claimed' /\ (Holds(r, f) \/ f \notin claimed)
  <2>1. stamp[f] # 0
    <3>1. CASE Holds(r, f)
      BY <3>1 DEF Inv, Known
    <3>2. CASE ~Holds(r, f)
      <4>1. f \in left[r]
        BY <1>1, <3>2, DrainTakes
      <4>2. QED
        BY <4>1 DEF Inv, Known
    <3>3. QED
      BY <3>1, <3>2
  <2>2. f \in body
    BY <1>1, <2>1, Fresh
  <2>3. CASE Holds(r, f)
    <3>1. f \in claimed
      BY <2>2, <2>3 DEF Inv, Drained
    <3>2. \A s \in Readers : Holds(s, f) => s = r
      BY <2>2, <2>3 DEF Inv, Drained
    <3>3. at'[r] # "next"
      BY <1>1 DEF Holds
    <3>4. \A c \in Copy : ~(f = First(c) /\ Takes(c))
      BY <2>2, <2>3 DEF Inv, Taken
    <3>5. f \in claimed'
      BY <2>2, <3>1, <3>2, <3>3, <3>4, ClaimStays
    <3>6. QED
      BY <2>2, <2>3, <3>5
  <2>4. CASE ~Holds(r, f)
    BY <1>1, <2>2, <2>4, DrainTakes
  <2>5. QED
    BY <2>3, <2>4
<1>2. ASSUME NEW f \in File, f \in body', NEW r \in Readers, NEW s \in Readers,
             Holds(r, f)', Holds(s, f)', r # s
      PROVE  FALSE
  <2>1. f \in body
    BY <1>1, <1>2
  <2>2. CASE Holds(r, f) /\ Holds(s, f)
    BY <1>2, <2>1, <2>2 DEF Inv, Drained
  <2>3. CASE ~Holds(r, f)
    <3>1. f \notin claimed /\ at'[s] = at[s] /\ cur'[s] = cur[s]
      BY <1>2, <2>3, DrainTakes
    <3>2. Holds(s, f)
      BY <1>2, <3>1 DEF Holds
    <3>3. QED
      BY <2>1, <3>1, <3>2 DEF Inv, Drained
  <2>4. CASE ~Holds(s, f)
    <3>1. f \notin claimed /\ at'[r] = at[r] /\ cur'[r] = cur[r]
      BY <1>2, <2>4, DrainTakes
    <3>2. Holds(r, f)
      BY <1>2, <3>1 DEF Holds
    <3>3. QED
      BY <2>1, <3>1, <3>2 DEF Inv, Drained
  <2>5. QED
    BY <2>2, <2>3, <2>4
<1>3. body' \subseteq File
  BY TypeStep DEF TypeOK
<1>4. QED
  BY <1>1, <1>2, <1>3 DEF Drained

(* A sender that takes its body back has its claim, and is alone.             *)
LEMMA TakenStep ==
    ASSUME Inv, [Next]_vars
    PROVE  Taken'
<1> TypeOK
  BY DEF Inv
<1>1. ASSUME NEW c \in Copy, First(c) \in body', Takes(c)'
      PROVE  First(c) \in body /\ First(c) \in claimed'
  <2>1. First(c) \in body
    BY <1>1, FirstComes DEF Takes
  <2>2. CASE Takes(c)
    <3>1. First(c) \in claimed /\ \A r \in Readers : ~Holds(r, First(c))
      BY <2>1, <2>2 DEF Inv, Taken
    <3>2. \A n \in Copy : First(c) = First(n) => n = c
      BY FirstType
    <3>3. send'[c] \notin {"refused", "sent"}
      BY <1>1 DEF Takes
    <3>4. QED
      BY <2>1, <3>1, <3>2, <3>3, ClaimStays, FirstType
  <2>3. CASE ~Takes(c)
    BY <1>1, <2>1, <2>3, SenderTakes
  <2>4. QED
    BY <2>1, <2>2, <2>3
<1>2. ASSUME NEW c \in Copy, First(c) \in body', Takes(c)', NEW r \in Readers, Holds(r, First(c))'
      PROVE  FALSE
  <2>1. First(c) \in body
    BY <1>1, <1>2
  <2>2. CASE Takes(c) /\ Holds(r, First(c))
    BY <2>1, <2>2 DEF Inv, Taken
  <2>3. CASE ~Takes(c)
    <3>1. First(c) \notin claimed /\ at' = at /\ cur' = cur
      BY <1>2, <2>3, SenderTakes
    <3>2. Holds(r, First(c))
      BY <1>2, <3>1 DEF Holds
    <3>3. QED
      BY <2>1, <3>1, <3>2 DEF Inv, Drained
  <2>4. CASE ~Holds(r, First(c))
    <3>1. First(c) \notin claimed /\ send' = send
      BY <1>2, <2>4, DrainTakes, FirstType
    <3>2. Takes(c)
      BY <1>2, <3>1 DEF Takes
    <3>3. QED
      BY <2>1, <3>1, <3>2 DEF Inv, Taken
  <2>5. QED
    BY <2>2, <2>3, <2>4
<1>3. QED
  BY <1>1, <1>2 DEF Taken

(* A body is in one hand until it is deleted.                                 *)
LEMMA InOneHandStep ==
    ASSUME Inv, [Next]_vars
    PROVE  InOneHand'
<1> TypeOK
  BY DEF Inv
<1> SUFFICES ASSUME NEW r \in Readers, NEW s \in Readers, r # s,
                    at'[r] \in {"admit", "delete"}, at'[s] \in {"admit", "delete"}, cur'[r] = cur'[s]
             PROVE  FALSE
  BY DEF InOneHand
<1>1. cur[r] = cur[s] /\ at[r] \in {"read", "admit", "delete"} /\ at[s] \in {"read", "admit", "delete"}
  BY Hands
<1>2. CASE at[r] = "read" \/ at[s] = "read"
  <2>1. cur[r] \in body
    BY <1>1, <1>2, Hands
  <2>2. Holds(r, cur[r]) /\ Holds(s, cur[r])
    BY <1>1 DEF Holds
  <2>3. QED
    BY <2>1, <2>2 DEF Inv, Drained
<1>3. CASE at[r] # "read" /\ at[s] # "read"
  BY <1>1, <1>3 DEF Inv, InOneHand
<1>4. QED
  BY <1>2, <1>3

(* What cannot be admitted any more stays so.                                 *)
LEMMA Settles ==
    ASSUME Inv, NEW f \in File, [Next]_vars, stamp[f] # 0, ~Pending(f)
    PROVE  ~Pending(f)'
<1> TypeOK
  BY DEF Inv
<1>1. f \in body' => f \in body
  BY Fresh
<1>2. ~(f \in body' /\ f \notin claimed')
  BY <1>1, ClaimStays DEF Pending
<1>3. ~(f \in body' /\ \E r \in Readers : Holds(r, f)' /\ at'[r] # "delete")
  <2> SUFFICES ASSUME f \in body', NEW r \in Readers, Holds(r, f)', at'[r] # "delete" PROVE FALSE
    OBVIOUS
  <2>1. f \in body
    BY <1>1
  <2>2. CASE ~Holds(r, f)
    <3>1. f \notin claimed
      BY <2>2, DrainTakes
    <3>2. QED
      BY <2>1, <3>1 DEF Pending
  <2>3. CASE Holds(r, f)
    <3>1. at[r] = "delete"
      BY <2>1, <2>3 DEF Pending
    <3>2. QED
      BY <3>1, Deletes
  <2>4. QED
    BY <2>2, <2>3
<1>4. ~(f \in body' /\ \E c \in Copy : f = First(c) /\ Takes(c)')
  <2> SUFFICES ASSUME f \in body', NEW c \in Copy, f = First(c), Takes(c)' PROVE FALSE
    OBVIOUS
  <2>1. f \in body
    BY <1>1
  <2>2. ~Takes(c)
    BY <2>1 DEF Pending
  <2>3. f \notin claimed
    BY <2>2, SenderTakes
  <2>4. QED
    BY <2>1, <2>3 DEF Pending
<1>5. ~ \E r \in Readers : at'[r] = "admit" /\ cur'[r] = f
  <2> SUFFICES ASSUME NEW r \in Readers, at'[r] = "admit", cur'[r] = f PROVE FALSE
    OBVIOUS
  <2>1. cur[r] = f /\ at[r] \in {"read", "admit"} /\ (at[r] = "read" => f \in body)
    BY Hands
  <2>2. QED
    BY <2>1 DEF Pending, Holds
<1>6. QED
  BY <1>2, <1>3, <1>4, <1>5 DEF Pending

(* A body that was admitted is not admitted again.                            *)
LEMMA Admitted ==
    ASSUME Inv, NEW r \in Readers, [Next]_vars, at[r] = "admit", at'[r] = "delete"
    PROVE  ~Pending(cur[r])'
<1> TypeOK
  BY DEF Inv
<1> DEFINE f == cur[r]
<1>1. f \in File /\ stamp[f] # 0 /\ Holds(r, f)
  BY InHandKnown DEF Inv, Holds
<1>2. f \in body' => f \in body
  BY <1>1, Fresh
<1>3. claimed' = claimed /\ cur' = cur /\ send' = send /\ \A s \in Readers : s # r => at'[s] = at[s]
  BY Admits
<1>4. ~(f \in body' /\ f \notin claimed')
  BY <1>1, <1>2, <1>3 DEF Inv, Drained
<1>5. ~(f \in body' /\ \E s \in Readers : Holds(s, f)' /\ at'[s] # "delete")
  <2> SUFFICES ASSUME f \in body', NEW s \in Readers, Holds(s, f)', at'[s] # "delete" PROVE FALSE
    OBVIOUS
  <2>1. s # r /\ Holds(s, f)
    BY <1>3 DEF Holds
  <2>2. QED
    BY <1>1, <1>2, <2>1 DEF Inv, Drained
<1>6. ~(f \in body' /\ \E c \in Copy : f = First(c) /\ Takes(c)')
  <2> SUFFICES ASSUME f \in body', NEW c \in Copy, f = First(c), Takes(c)' PROVE FALSE
    OBVIOUS
  <2>1. Takes(c)
    BY <1>3 DEF Takes
  <2>2. QED
    BY <1>1, <1>2, <2>1 DEF Inv, Taken
<1>7. ~ \E s \in Readers : at'[s] = "admit" /\ cur'[s] = f
  <2> SUFFICES ASSUME NEW s \in Readers, at'[s] = "admit", cur'[s] = f PROVE FALSE
    OBVIOUS
  <2>1. s # r /\ at[s] = "admit" /\ cur[s] = cur[r]
    BY <1>3
  <2>2. QED
    BY <2>1 DEF Inv, InOneHand
<1>8. cur[r]' = f => ~Pending(f)'
  BY <1>4, <1>5, <1>6, <1>7 DEF Pending
<1>9. QED
  BY <1>3, <1>8

(* Two files of a copy cannot both be admitted.                              *)
LEMMA OnePending ==
    ASSUME Inv, NEW f \in File, NEW g \in File, f[1] = g[1], Pending(f), Pending(g)
    PROVE  f = g
<1>1. stamp[f] # 0 /\ stamp[g] # 0
  BY DEF Pending, Inv, Known, Holds
<1>2. f[2] \in Nat /\ g[2] \in Nat /\ f = << f[1], f[2] >> /\ g = << g[1], g[2] >>
  BY FileType
<1>3. CASE f[2] < g[2]
  BY <1>1, <1>3 DEF Inv, Token
<1>4. CASE g[2] < f[2]
  BY <1>1, <1>4 DEF Inv, Token
<1>5. CASE f[2] = g[2]
  BY <1>2, <1>5
<1>6. QED
  BY <1>2, <1>3, <1>4, <1>5

(* A copy is kept again only when its file was admitted, and read once.       *)
LEMMA TokenStep ==
    ASSUME Inv, [Next]_vars
    PROVE  Token'
<1> TypeOK
  BY DEF Inv
<1>1. ASSUME NEW f \in File, NEW g \in File, f[1] = g[1], f[2] < g[2], stamp'[g] # 0
      PROVE  stamp'[f] # 0 /\ ~Pending(f)'
  <2>1. CASE stamp[g] # 0
    <3>1. stamp[f] # 0 /\ ~Pending(f)
      BY <1>1, <2>1 DEF Inv, Token
    <3>2. QED
      BY <3>1, Stays, Settles
  <2>2. CASE stamp[g] = 0
    <3>1. f[2] \in Nat /\ g[2] \in Nat /\ f[2] >= 1 /\ f = << f[1], f[2] >>
      BY FileType
    <3>2. ~ \E c \in Copy : g = First(c)
      BY <1>1, <3>1, FileType
    <3>3. PICK r \in Readers : at[r] = "admit" /\ g = << cur[r][1], cur[r][2] + 1 >> /\ at'[r] = "delete"
      BY <1>1, <2>2, <3>2, Dates
    <3>4. cur[r] \in File /\ stamp[cur[r]] # 0
      BY <3>3, InHandKnown DEF Inv
    <3>5. cur[r][2] \in Nat /\ cur[r] = << cur[r][1], cur[r][2] >>
      BY <3>4, FileType
    <3>6. f[1] = cur[r][1] /\ f[2] <= cur[r][2]
      BY <1>1, <3>1, <3>3, <3>5
    <3>7. CASE f[2] < cur[r][2]
      <4>1. stamp[f] # 0 /\ ~Pending(f)
        BY <3>4, <3>6, <3>7 DEF Inv, Token
      <4>2. QED
        BY <4>1, Stays, Settles
    <3>8. CASE f[2] = cur[r][2]
      <4>1. f = cur[r]
        BY <3>1, <3>5, <3>6, <3>8
      <4>2. cur' = cur
        BY <3>3, Admits
      <4>3. ~Pending(cur[r])'
        BY <3>3, Admitted
      <4>4. QED
        BY <3>4, <4>1, <4>2, <4>3, Stays
    <3>9. QED
      BY <3>1, <3>5, <3>6, <3>7, <3>8
  <2>3. QED
    BY <2>1, <2>2
<1>2. ASSUME NEW f \in File, Pending(f)' PROVE turns'[f[1]] = 0
  <2>1. f[1] \in Copy
    BY FileType
  <2>2. CASE stamp[f] # 0
    <3>1. Pending(f)
      BY <1>2, <2>2, Settles
    <3>2. turns[f[1]] = 0
      BY <3>1 DEF Inv, Token
    <3>3. send[f[1]] # "posting"
      <4>1. stamp[First(f[1])] # 0
        BY <2>2, FirstDeposit DEF Inv
      <4>2. QED
        BY <2>1, <4>1 DEF Inv, Early
    <3>4. ASSUME NEW r \in Readers, at[r] = "admit", cur[r][1] = f[1], at'[r] = "delete" PROVE FALSE
      <4>1. cur[r] \in File /\ Pending(cur[r])
        BY <3>4 DEF Pending, TypeOK
      <4>2. cur[r] = f
        BY <3>1, <3>4, <4>1, OnePending
      <4>3. ~Pending(cur[r])' /\ cur' = cur
        BY <3>4, Admitted, Admits
      <4>4. QED
        BY <1>2, <4>2, <4>3
    <3>5. QED
      BY <2>1, <3>2, <3>3, <3>4, Turned
  <2>3. CASE stamp[f] = 0
    <3>1. f \notin body /\ \A r \in Readers : ~Holds(r, f)
      BY <2>3 DEF Inv, Known
    <3>2. f \in body'
      <4>1. ASSUME NEW r \in Readers, at'[r] = "admit", cur'[r] = f PROVE FALSE
        BY <3>1, <4>1, Hands DEF Holds
      <4>2. QED
        BY <1>2, <4>1 DEF Pending
    <3>3. turns' = turns
      BY <3>1, <3>2, Comes
    <3>4. CASE \E c \in Copy : f = First(c) /\ send[c] \in {"posting", "keeping"}
      <4>1. PICK c \in Copy : f = First(c) /\ send[c] \in {"posting", "keeping"}
        BY <3>4
      <4>2. f[1] = c
        BY <4>1, FileType
      <4>3. turns[c] = 0
        BY <4>1 DEF Inv, Early
      <4>4. QED
        BY <3>3, <4>2, <4>3
    <3>5. CASE \E r \in Readers : at[r] = "admit" /\ f = << cur[r][1], cur[r][2] + 1 >>
      <4>1. PICK r \in Readers : at[r] = "admit" /\ f = << cur[r][1], cur[r][2] + 1 >>
        BY <3>5
      <4>2. cur[r] \in File /\ Pending(cur[r]) /\ f[1] = cur[r][1]
        BY <4>1 DEF Pending, TypeOK
      <4>3. QED
        BY <3>3, <4>2 DEF Inv, Token
    <3>6. QED
      BY <3>1, <3>2, <3>4, <3>5, Comes
  <2>4. QED
    BY <2>2, <2>3
<1>3. ASSUME NEW c \in Copy PROVE turns'[c] <= 1
  <2>1. turns[c] \in Nat /\ turns[c] <= 1
    BY DEF Inv, Token, TypeOK
  <2>2. CASE send[c] = "posting"
    <3>1. turns[c] = 0
      BY <2>2 DEF Inv, Early
    <3>2. turns'[c] = 0 \/ turns'[c] = 0 + 1
      BY <3>1, Turned
    <3>3. QED
      BY <3>2
  <2>3. ASSUME NEW r \in Readers, at[r] = "admit", cur[r][1] = c PROVE turns[c] = 0
    BY <2>3 DEF Inv, Token, Pending, TypeOK
  <2>4. QED
    BY <2>1, <2>2, <2>3, Turned
<1>4. QED
  BY <1>1, <1>2, <1>3 DEF Token

(* The invariant is inductive when deletions of the sweep work.               *)
LEMMA InvStart == Init => Inv
<1> SUFFICES ASSUME Init PROVE Inv
  OBVIOUS
<1>1. TypeOK
  BY NoFileType DEF Init, TypeOK, SendStages, ReadStages, Phases
<1>2. body = {} /\ claimed = {} /\ \A f \in File : stamp[f] = 0
  BY DEF Init
<1>3. \A c \in Copy : send[c] = "new" /\ turns[c] = 0 /\ First(c) \in File
  BY FileType DEF Init
<1>4. \A r \in Readers : at[r] = "off" /\ left[r] = {}
  BY DEF Init
<1>5. sweep.at = "off"
  BY DEF Init
<1>6. \A f \in File, r \in Readers : ~Holds(r, f)
  BY <1>4 DEF Holds
<1>7. \A f \in File : ~Pending(f)
  BY <1>2, <1>4 DEF Pending
<1>8. Known
  BY <1>2, <1>4, <1>5, <1>6 DEF Known
<1>9. Early
  BY <1>2, <1>3 DEF Early, Takes
<1>10. Drained /\ Taken /\ InOneHand /\ Lifted
  BY <1>2, <1>3, <1>4, <1>5 DEF Drained, Taken, InOneHand, Lifted
<1>11. Token
  BY <1>2, <1>3, <1>7 DEF Token
<1>12. QED
  BY <1>1, <1>8, <1>9, <1>10, <1>11 DEF Inv

LEMMA InvStep ==
    ASSUME Inv, SweepsFail = FALSE, [Next]_vars
    PROVE  Inv'
  BY TypeStep, KnownStep, EarlyStep, LiftedStep, DrainedStep, TakenStep, InOneHandStep, TokenStep DEF Inv

(***************************************************************************)
(* What senders are told.                                                  *)
(***************************************************************************)

\* What a sender that gives up took back is nowhere else.
Gone ==
    /\ \A c \in Copy, f \in File : send[c] \in {"give up", "refused", "failed"} /\ f[1] = c =>
           f \notin body /\ turns[c] = 0
    /\ \A c \in Copy, r \in Readers : send[c] \in {"give up", "refused", "failed"} /\ cur[r][1] = c =>
           at[r] # "admit"
    /\ \A c \in Copy : send[c] \in {"give up", "refused", "failed"} => c \notin swept

Deposited(c) == send[c] \in {"asking", "asking again", "claiming", "taking", "put back", "sent"}

\* A copy its sender deposited is read, or there, or was swept, and what a drain is
\* about to delete it has handed over.
Safe ==
    /\ \A c \in Copy : Deposited(c) =>
           turns[c] > 0 \/ c \in swept \/ \E f \in body : f[1] = c
    /\ \A r \in Readers : at[r] = "delete" =>
           \/ turns[cur[r][1]] > 0 \/ cur[r][1] \in swept
           \/ \E f \in body : f[1] = cur[r][1] /\ f[2] > cur[r][2]
    /\ \A r \in Readers : at[r] = "admit" /\ cur[r] \notin body => cur[r][1] \in swept

\* A sweep that leaves the first file of a copy deleted a later one.
SweptOrder ==
    /\ \A c \in Copy : c \in swept => stamp[First(c)] # 0
    /\ \A c \in Copy : c \in swept /\ First(c) \in body =>
           \E f \in File : f[1] = c /\ f[2] > 1 /\ stamp[f] # 0

\* A letter has a request that was refused, or that its sender did not wait for.
Paired ==
    /\ \A m \in Mail : send[Request(m)] \in {"new", "posting", "sent", "refused"}
    /\ \A m \in Mail : m \notin unheard /\ send[Letter(m)] # "new" =>
           send[Request(m)] \in {"new", "refused"}

Whole == Inv /\ Gone /\ Safe /\ SweptOrder /\ Paired

(* Numbers above one.                                                        *)
LEMMA Above == \A n \in Nat : (n >= 1 /\ n # 1 => 1 < n) /\ (n > 1 => n # 1)
  OBVIOUS

(* A copy that is still on its way is nowhere.                               *)
LEMMA Unsent ==
    ASSUME Inv, NEW c \in Copy, send[c] \in {"new", "posting", "seeking", "keeping"}
    PROVE  /\ stamp[First(c)] = 0 /\ turns[c] = 0
           /\ \A f \in File : f[1] = c => f \notin body
           /\ \A r \in Readers : cur[r][1] = c => at[r] # "admit"
<1>1. stamp[First(c)] = 0 /\ turns[c] = 0
  BY DEF Inv, Early
<1>2. \A f \in File : f[1] = c => stamp[f] = 0
  BY <1>1, FirstDeposit DEF Inv
<1>3. \A f \in File : f[1] = c => f \notin body
  BY <1>2 DEF Inv, Known
<1>4. \A r \in Readers : cur[r][1] = c => at[r] # "admit"
  BY <1>2, InHandKnown DEF Inv
<1>5. QED
  BY <1>1, <1>3, <1>4

(* A copy that was refused, or taken back, is gone for good.                 *)
LEMMA GoneStep ==
    ASSUME Whole, [Next]_vars
    PROVE  Gone'
<1> TypeOK /\ Inv
  BY DEF Whole, Inv
<1> DEFINE G == {"give up", "refused", "failed"}
<1> SUFFICES ASSUME NEW c \in Copy, send'[c] \in G
             PROVE  /\ \A f \in File : f[1] = c => f \notin body'
                    /\ turns'[c] = 0
                    /\ \A r \in Readers : cur'[r][1] = c => at'[r] # "admit"
                    /\ c \notin swept'
  BY DEF Gone
\* So it was before.
<1>1. /\ \A f \in File : f[1] = c => f \notin body \/ (f = First(c) /\ body' = body \ {f})
      /\ turns[c] = 0
      /\ \A r \in Readers : cur[r][1] = c => at[r] # "admit"
      /\ c \notin swept
  <2>1. CASE send[c] \in G
    <3>1. First(c) \in File /\ First(c)[1] = c
      BY FileType
    <3>2. turns[c] = 0 /\ c \notin swept /\ \A f \in File : f[1] = c => f \notin body
      BY <2>1, <3>1 DEF Whole, Gone
    <3>3. \A r \in Readers : cur[r][1] = c => at[r] # "admit"
      BY <2>1 DEF Whole, Gone
    <3>4. QED
      BY <3>2, <3>3
  <2>2. CASE send[c] \in {"new", "posting", "seeking", "keeping"}
    <3>1. stamp[First(c)] = 0
      BY <2>2, Unsent
    <3>2. c \notin swept
      BY <3>1 DEF Whole, SweptOrder
    <3>3. QED
      BY <2>2, <3>2, Unsent
  <2>3. CASE send[c] = "taking"
    <3>1. First(c) \in body /\ body' = body \ {First(c)} /\ Takes(c)
      BY <2>3, Sends DEF Takes
    <3>2. First(c) \in File /\ First(c)[1] = c /\ First(c)[2] = 1
      BY FileType
    <3>9. Pending(First(c))
      BY <3>1 DEF Pending
    <3>3. turns[c] = 0
      BY <3>2, <3>9 DEF Inv, Token
    <3>4. ASSUME NEW f \in File, f[1] = c, f # First(c) PROVE stamp[f] = 0
      <4>1. f[2] \in Nat /\ f[2] >= 1 /\ f = << f[1], f[2] >> /\ f[2] # 1
        BY <3>4, FileType DEF First
      <4>5. f[2] \in Nat /\ f[2] >= 1 /\ f[2] # 1
        BY <4>1
      <4>4. 1 < f[2]
        BY <4>5, Above, Zenon
      <4>2. First(c)[1] = f[1] /\ First(c)[2] < f[2]
        BY <3>2, <3>4, <4>4
      <4>3. QED
        BY <3>2, <3>9, <4>2 DEF Inv, Token
    <3>5. \A f \in File : f[1] = c => f \notin body \/ f = First(c)
      BY <3>4 DEF Inv, Known
    <3>6. ASSUME NEW r \in Readers, cur[r][1] = c, at[r] = "admit" PROVE FALSE
      <4>1. cur[r] = First(c)
        BY <3>4, <3>6, InHandKnown DEF Inv
      <4>2. Holds(r, First(c))
        BY <3>6, <4>1 DEF Holds
      <4>3. QED
        BY <3>1, <4>2 DEF Inv, Taken
    <3>7. c \notin swept
      <4> SUFFICES ASSUME c \in swept PROVE FALSE
        OBVIOUS
      <4>1. PICK f \in File : f[1] = c /\ f[2] > 1 /\ stamp[f] # 0
        BY <3>1 DEF Whole, SweptOrder
      <4>5. f[2] \in Nat
        BY FileType
      <4>4. f[2] # 1
        BY <4>1, <4>5, Above, Zenon
      <4>2. f # First(c)
        BY <3>2, <4>4
      <4>3. QED
        BY <3>4, <4>1, <4>2
    <3>8. QED
      BY <3>1, <3>3, <3>5, <3>6, <3>7
  <2>4. QED
    BY <2>1, <2>2, <2>3, Sends
<1>2. turns'[c] = 0
  BY <1>1, Turned
<1>3. ASSUME NEW f \in File, f[1] = c PROVE f \notin body'
  <2>1. CASE f \in body
    BY <1>1, <1>3, <2>1
  <2>2. CASE f \notin body
    <3> SUFFICES ASSUME f \in body' PROVE FALSE
      OBVIOUS
    <3>1. CASE \E n \in Copy : f = First(n) /\ send'[n] \in {"sent", "asking"}
      BY <1>3, <3>1, FileType
    <3>2. CASE \E r \in Readers : at[r] = "admit" /\ f = << cur[r][1], cur[r][2] + 1 >>
      <4>1. PICK r \in Readers : at[r] = "admit" /\ f = << cur[r][1], cur[r][2] + 1 >>
        BY <3>2
      <4>2. cur[r][1] = c
        BY <1>3, <4>1
      <4>3. QED
        BY <1>1, <4>1, <4>2
    <3>3. QED
      BY <2>2, <3>1, <3>2, Comes
  <2>3. QED
    BY <2>1, <2>2
<1>4. ASSUME NEW r \in Readers, cur'[r][1] = c, at'[r] = "admit" PROVE FALSE
  <2>1. cur[r] = cur'[r] /\ at[r] \in {"read", "admit"} /\ (at[r] = "read" => cur[r] \in body /\ UNCHANGED body)
    BY <1>4, Hands
  <2>2. cur[r] \in File
    BY DEF TypeOK
  <2>3. CASE at[r] = "read"
    BY <1>3, <1>4, <2>1, <2>2, <2>3
  <2>4. CASE at[r] = "admit"
    BY <1>1, <1>4, <2>1, <2>4
  <2>5. QED
    BY <2>1, <2>3, <2>4
<1>5. c \notin swept'
  <2> SUFFICES ASSUME c \in swept' PROVE FALSE
    OBVIOUS
  <2>1. sweep.at # "off" /\ sweep.file \in body /\ sweep.file[1] = c /\ send' = send
    BY <1>1, SweepTakes
  <2>2. send[c] \in G
    BY <2>1
  <2>3. sweep.file \in File
    BY DEF TypeOK
  <2>4. QED
    BY <2>1, <2>2, <2>3 DEF Whole, Gone
<1>6. QED
  BY <1>2, <1>3, <1>4, <1>5

(* A body that is deleted was handed over, taken back or swept.              *)
LEMMA SafeStep ==
    ASSUME Whole, [Next]_vars
    PROVE  Safe'
<1> TypeOK /\ Inv
  BY DEF Whole, Inv
<1>1. ASSUME NEW c \in Copy, turns[c] > 0 \/ c \in swept PROVE turns'[c] > 0 \/ c \in swept'
  <2>1. turns[c] \in Nat /\ turns'[c] \in Nat
    BY TypeStep DEF TypeOK
  <2>2. QED
    BY <1>1, <2>1, Keeps
\* A body, later than the number n, leaves a trace when it is deleted.
<1>2. ASSUME NEW f \in File, f \in body, NEW n \in Nat, n < f[2],
             n = 0 => send'[f[1]] # "give up"
      PROVE  turns'[f[1]] > 0 \/ f[1] \in swept' \/ \E g \in body' : g[1] = f[1] /\ g[2] > n
  <2>1. CASE f \in body'
    BY <1>2, <2>1
  <2>2. CASE f \notin body'
    <3>1. body' = body \ {f}
      BY <1>2, <2>2, Leaves
    <3>2. f[1] \in Copy /\ f[2] \in Nat
      BY FileType
    <3>3. CASE \E r \in Readers : at[r] = "delete" /\ cur[r] = f
      <4>1. PICK r \in Readers : at[r] = "delete" /\ cur[r] = f
        BY <3>3
      <4>2. turns[f[1]] > 0 \/ f[1] \in swept \/ \E g \in body : g[1] = f[1] /\ g[2] > f[2]
        BY <4>1 DEF Whole, Safe
      <4>3. CASE turns[f[1]] > 0 \/ f[1] \in swept
        BY <1>1, <3>2, <4>3
      <4>4. CASE \E g \in body : g[1] = f[1] /\ g[2] > f[2]
        <5>1. PICK g \in body : g[1] = f[1] /\ g[2] > f[2]
          BY <4>4
        <5>2. g \in File /\ g[2] \in Nat
          BY FileType DEF TypeOK
        <5>3. n < f[2] /\ n \in Nat /\ f[2] \in Nat
          BY <1>2, <3>2
        <5>5. g[2] > n
          BY <5>1, <5>2, <5>3
        <5>6. g # f
          BY <5>1, <5>2
        <5>4. QED
          BY <3>1, <5>1, <5>5, <5>6
      <4>5. QED
        BY <4>2, <4>3, <4>4
    <3>4. CASE \E c \in Copy : First(c) = f /\ send'[c] = "give up"
      <4>1. PICK c \in Copy : First(c) = f /\ send'[c] = "give up"
        BY <3>4
      <4>2. f[1] = c /\ f[2] = 1
        BY <4>1, FileType
      <4>5. n < 1
        BY <1>2, <4>2
      <4>3. n = 0
        BY <4>5
      <4>4. QED
        BY <1>2, <4>1, <4>2, <4>3
    <3>5. QED
      BY <1>2, <2>2, <3>3, <3>4, Leaves
  <2>3. QED
    BY <2>1, <2>2
<1>3. ASSUME NEW c \in Copy, Deposited(c)'
      PROVE  turns'[c] > 0 \/ c \in swept' \/ \E f \in body' : f[1] = c
  <2>1. CASE Deposited(c)
    <3>1. turns[c] > 0 \/ c \in swept \/ \E f \in body : f[1] = c
      BY <2>1 DEF Whole, Safe
    <3>2. ASSUME NEW f \in body, f[1] = c PROVE turns'[c] > 0 \/ c \in swept' \/ \E g \in body' : g[1] = c
      <4>1. f \in File /\ f[2] \in Nat /\ f[2] >= 1
        BY FileType DEF TypeOK
      <4>2. send'[c] # "give up"
        BY <1>3 DEF Deposited
      <4>3. 0 < f[2]
        BY <4>1
      <4>4. QED
        BY <1>2, <3>2, <4>1, <4>2, <4>3
    <3>3. QED
      BY <1>1, <3>1, <3>2
  <2>2. CASE ~Deposited(c)
    <3>1. turns'[c] > 0 \/ First(c) \in body'
      BY <1>3, <2>2, Sends DEF Deposited
    <3>2. QED
      BY <3>1, FileType
  <2>3. QED
    BY <2>1, <2>2
<1>4. ASSUME NEW r \in Readers, at'[r] = "delete"
      PROVE  \/ turns'[cur'[r][1]] > 0 \/ cur'[r][1] \in swept'
             \/ \E f \in body' : f[1] = cur'[r][1] /\ f[2] > cur'[r][2]
  <2>1. cur'[r] = cur[r] /\ at[r] \in {"admit", "delete"}
    BY <1>4, Hands
  <2>2. cur[r] \in File /\ cur[r][1] \in Copy /\ cur[r][2] \in Nat /\ cur[r][2] >= 1
    BY FileType DEF TypeOK
  <2>3. CASE at[r] = "admit"
    <3>1. turns'[cur[r][1]] = turns[cur[r][1]] + 1 \/ << cur[r][1], cur[r][2] + 1 >> \in body'
      BY <1>4, <2>3, Admits
    <3>2. turns[cur[r][1]] \in Nat
      BY <2>2 DEF TypeOK
    <3>3. CASE << cur[r][1], cur[r][2] + 1 >> \in body'
      <4> DEFINE g == << cur[r][1], cur[r][2] + 1 >>
      <4>1. g[1] = cur'[r][1] /\ g[2] > cur'[r][2]
        BY <2>1, <2>2
      <4>2. QED
        BY <3>3, <4>1
    <3>4. QED
      BY <2>1, <3>1, <3>2, <3>3
  <2>4. CASE at[r] = "delete"
    <3>1. turns[cur[r][1]] > 0 \/ cur[r][1] \in swept \/ \E f \in body : f[1] = cur[r][1] /\ f[2] > cur[r][2]
      BY <2>4 DEF Whole, Safe
    <3>2. ASSUME NEW f \in body, f[1] = cur[r][1], f[2] > cur[r][2]
          PROVE  turns'[f[1]] > 0 \/ f[1] \in swept' \/ \E g \in body' : g[1] = f[1] /\ g[2] > cur[r][2]
      <4>1. f \in File /\ f[2] \in Nat
        BY FileType DEF TypeOK
      <4>2. cur[r][2] < f[2] /\ cur[r][2] # 0
        BY <2>2, <3>2, <4>1
      <4>3. QED
        BY <1>2, <2>2, <4>1, <4>2
    <3>3. QED
      BY <1>1, <2>1, <2>2, <3>1, <3>2
  <2>5. QED
    BY <2>1, <2>3, <2>4
<1>5. ASSUME NEW r \in Readers, at'[r] = "admit", cur'[r] \notin body' PROVE cur'[r][1] \in swept'
  <2>1. cur'[r] = cur[r] /\ at[r] \in {"read", "admit"} /\ (at[r] = "read" => cur[r] \in body /\ body' = body)
    BY <1>5, Hands
  <2>2. cur[r] \in File /\ cur[r][1] \in Copy
    BY FileType DEF TypeOK
  <2>3. at[r] = "admit"
    BY <1>5, <2>1
  <2>4. CASE cur[r] \notin body
    <3>1. cur[r][1] \in swept
      BY <2>3, <2>4 DEF Whole, Safe
    <3>2. QED
      BY <2>1, <3>1, Keeps
  <2>5. CASE cur[r] \in body
    <3>1. ASSUME NEW s \in Readers, at[s] = "delete", cur[s] = cur[r] PROVE FALSE
      BY <2>3, <3>1 DEF Inv, InOneHand
    <3>2. ASSUME NEW c \in Copy, send[c] = "taking", First(c) = cur[r] PROVE FALSE
      BY <2>3, <2>5, <3>2 DEF Inv, Taken, Takes, Holds
    <3>3. QED
      BY <1>5, <2>1, <2>2, <2>5, <3>1, <3>2, Leaves
  <2>6. QED
    BY <2>4, <2>5
<1>6. QED
  BY <1>3, <1>4, <1>5 DEF Safe

(* The sweep finds a later file of a copy only when it was kept again.       *)
LEMMA SweptStep ==
    ASSUME Whole, [Next]_vars
    PROVE  SweptOrder'
<1> TypeOK /\ Inv
  BY DEF Whole, Inv
<1>1. ASSUME NEW c \in Copy, c \in swept'
      PROVE  stamp[First(c)] # 0 /\ stamp'[First(c)] # 0
  <2>1. CASE c \in swept
    BY <2>1, FirstType, Stays DEF Whole, SweptOrder
  <2>2. CASE c \notin swept
    <3>1. sweep.file \in body /\ sweep.file[1] = c /\ sweep.file \in File
      BY <1>1, <2>2, SweepTakes DEF TypeOK
    <3>2. stamp[sweep.file] # 0
      BY <3>1 DEF Inv, Known
    <3>3. stamp[First(c)] # 0
      BY <3>1, <3>2, FirstDeposit DEF Inv
    <3>4. QED
      BY <3>3, FirstType, Stays
  <2>3. QED
    BY <2>1, <2>2
<1>2. ASSUME NEW c \in Copy, c \in swept', First(c) \in body'
      PROVE  \E f \in File : f[1] = c /\ f[2] > 1 /\ stamp'[f] # 0
  <2>1. First(c) \in body
    BY <1>1, <1>2, FirstType, Fresh
  <2>2. CASE c \in swept
    <3>1. PICK f \in File : f[1] = c /\ f[2] > 1 /\ stamp[f] # 0
      BY <2>1, <2>2 DEF Whole, SweptOrder
    <3>2. QED
      BY <3>1, Stays
  <2>3. CASE c \notin swept
    <3> DEFINE f == sweep.file
    <3>1. f \in body /\ f[1] = c /\ f \in File /\ body' = body \ {f}
      BY <1>2, <2>3, SweepTakes DEF TypeOK
    <3>2. f # First(c)
      BY <1>2, <3>1
    <3>3. f[2] > 1
      <4>1. f[2] \in Nat /\ f[2] >= 1 /\ f = << f[1], f[2] >>
        BY <3>1, FileType
      <4>2. f[2] # 1
        BY <3>1, <3>2, <4>1 DEF First
      <4>3. QED
        BY <4>1, <4>2
    <3>4. stamp'[f] # 0
      BY <3>1, Stays DEF Inv, Known
    <3>5. QED
      BY <3>1, <3>3, <3>4
  <2>4. QED
    BY <2>2, <2>3
<1>3. QED
  BY <1>1, <1>2 DEF SweptOrder

(* A message that became a letter is no request any more.                    *)
LEMMA PairedStep ==
    ASSUME Whole, [Next]_vars
    PROVE  Paired'
<1> TypeOK
  BY DEF Whole, Inv
<1>1. ASSUME NEW m \in Mail PROVE send'[Request(m)] \in {"new", "posting", "sent", "refused"}
  <2>1. send[Request(m)] \in {"new", "posting", "sent", "refused"}
    BY DEF Whole, Paired
  <2>2. QED
    BY <2>1, Writes
<1>2. ASSUME NEW m \in Mail, m \notin unheard', send'[Letter(m)] # "new"
      PROVE  send'[Request(m)] \in {"new", "refused"}
  <2>1. send[Request(m)] \in {"new", "posting", "sent", "refused"} /\ m \notin unheard
    BY <1>2, Writes DEF Whole, Paired
  <2>2. CASE send[Letter(m)] = "new"
    BY <1>2, <2>1, <2>2, Writes
  <2>3. CASE send[Letter(m)] # "new"
    <3>1. send[Request(m)] \in {"new", "refused"}
      BY <2>1, <2>3 DEF Whole, Paired
    <3>2. QED
      BY <2>1, <2>3, <3>1, Writes
  <2>4. QED
    BY <2>2, <2>3
<1>3. QED
  BY <1>1, <1>2 DEF Paired

(* The whole invariant.                                                      *)
LEMMA WholeStart == Init => Whole
<1> SUFFICES ASSUME Init PROVE Whole
  OBVIOUS
<1>1. Inv
  BY InvStart
<1>2. \A c \in Copy : send[c] = "new" /\ c \notin swept
  BY DEF Init
<1>3. \A r \in Readers : at[r] = "off"
  BY DEF Init
<1>4. Paired
  BY <1>2, CopyType DEF Paired
<1>5. QED
  BY <1>1, <1>2, <1>3, <1>4 DEF Whole, Gone, Safe, SweptOrder, Deposited

LEMMA WholeStep ==
    ASSUME Whole, SweepsFail = FALSE, [Next]_vars
    PROVE  Whole'
  BY InvStep, GoneStep, SafeStep, SweptStep, PairedStep DEF Whole

(* A copy that was refused, or never set out, is nowhere.                    *)
LEMMA IsNowhere ==
    ASSUME Whole, NEW c \in Copy, send[c] \in {"new", "refused", "failed"}
    PROVE  Nowhere(c)
<1>1. First(c) \in File /\ First(c)[1] = c
  BY FileType
<1>2. CASE send[c] = "new"
  BY <1>2, Unsent DEF Whole, Nowhere, Files, InHand
<1>3. CASE send[c] # "new"
  <2>1. turns[c] = 0 /\ \A f \in File : f[1] = c => f \notin body
    BY <1>1, <1>3 DEF Whole, Gone
  <2>2. \A r \in Readers : cur[r][1] = c => at[r] # "admit"
    BY <1>3 DEF Whole, Gone
  <2>3. QED
    BY <2>1, <2>2 DEF Nowhere, Files, InHand
<1>4. QED
  BY <1>2, <1>3

(* Two drains at once, a reader that dies or cannot delete what it admitted,  *)
(* a body kept again by a parking engine: as long as the sweep can delete a   *)
(* body whose claim it drops, the session gets a copy at most once, and as    *)
(* two copies only a message whose sender did not wait for its POST.          *)
THEOREM OnceOnly ==
    ASSUME SweepsFail = FALSE
    PROVE  Spec => []AtMostOnce
<1>1. Whole => AtMostOnce
  <2> SUFFICES ASSUME Whole PROVE AtMostOnce
    OBVIOUS
  <2>1. \A c \in Copy : turns[c] <= 1
    BY DEF Whole, Inv, Token
  <2>2. ASSUME NEW m \in Mail, m \notin unheard PROVE turns[Request(m)] = 0 \/ turns[Letter(m)] = 0
    <3>1. Request(m) \in Copy /\ Letter(m) \in Copy
      BY CopyType
    <3>2. CASE send[Letter(m)] = "new"
      BY <3>1, <3>2, IsNowhere DEF Nowhere
    <3>3. CASE send[Letter(m)] # "new"
      <4>1. send[Request(m)] \in {"new", "refused"}
        BY <2>2, <3>3 DEF Whole, Paired
      <4>2. QED
        BY <3>1, <4>1, IsNowhere DEF Nowhere
    <3>4. QED
      BY <3>2, <3>3
  <2>3. QED
    BY <2>1, <2>2 DEF AtMostOnce
<1>2. Whole /\ [Next]_vars => Whole'
  BY WholeStep
<1>3. QED
  BY WholeStart, <1>1, <1>2, PTL DEF Spec

(* A sender that is told the message did not arrive is not contradicted by    *)
(* what it kept, and by its POST only when it did not wait for the answer.    *)
THEOREM RefusedForGood ==
    ASSUME SweepsFail = FALSE
    PROVE  Spec => []RefusedIsNeverRead
<1>1. Whole => RefusedIsNeverRead
  <2> SUFFICES ASSUME Whole, NEW m \in Mail, send[Letter(m)] \in {"refused", "failed"}
               PROVE  Nowhere(Letter(m)) /\ (m \in unheard \/ Nowhere(Request(m)))
    BY DEF RefusedIsNeverRead
  <2>1. Request(m) \in Copy /\ Letter(m) \in Copy
    BY CopyType
  <2>2. Nowhere(Letter(m))
    BY <2>1, IsNowhere
  <2>3. CASE m \notin unheard
    <3>1. send[Request(m)] \in {"new", "refused"}
      BY <2>3 DEF Whole, Paired
    <3>2. QED
      BY <2>1, <2>2, <3>1, IsNowhere
  <2>4. QED
    BY <2>2, <2>3
<1>2. Whole /\ [Next]_vars => Whole'
  BY WholeStep
<1>3. QED
  BY WholeStart, <1>1, <1>2, PTL DEF Spec

(* A copy that an engine or the mailbox took was read, waits, or was swept.           *)
THEOREM DeliveredStays ==
    ASSUME SweepsFail = FALSE
    PROVE  Spec => []DeliveredIsNotDropped
<1>1. Whole => DeliveredIsNotDropped
  <2> SUFFICES ASSUME Whole, NEW c \in Copy, send[c] = "sent"
               PROVE  turns[c] > 0 \/ Files(c) \cap body # {} \/ c \in swept
    BY DEF DeliveredIsNotDropped
  <2>1. body \subseteq File
    BY DEF Whole, Inv, TypeOK
  <2>2. turns[c] > 0 \/ c \in swept \/ \E f \in body : f[1] = c
    BY DEF Whole, Safe, Deposited
  <2>3. QED
    BY <2>1, <2>2 DEF Files
<1>2. Whole /\ [Next]_vars => Whole'
  BY WholeStep
<1>3. QED
  BY WholeStart, <1>1, <1>2, PTL DEF Spec

(* What a sender is told is true, whatever the chat did meanwhile, but for a  *)
(* POST it gave up on.                                                        *)
THEOREM SenderIsToldTheTruth ==
    ASSUME SweepsFail = FALSE
    PROVE  Spec => []AnswersAreTrue
  BY RefusedForGood, DeliveredStays, PTL DEF AnswersAreTrue

(***************************************************************************)
(* The mailbox keeps the promise of KeptMail.                              *)
(***************************************************************************)

Has(c) == Files(c) \cap body # {} \/ InHand(c)

(* The fate of a copy, and what its sender was told, before a step and        *)
(* after it.                                                                  *)
LEMMA FateNow ==
    ASSUME NEW c \in Copy
    PROVE  /\ turns[c] > 0 => fate[c] = "read"
           /\ ~(turns[c] > 0) /\ Has(c) => fate[c] = "kept"
           /\ ~(turns[c] > 0) /\ ~Has(c) /\ stamp[First(c)] = 0 => fate[c] = "unsent"
           /\ ~(turns[c] > 0) /\ ~Has(c) /\ stamp[First(c)] # 0 /\ c \in swept => fate[c] = "lost"
           /\ ~(turns[c] > 0) /\ ~Has(c) /\ stamp[First(c)] # 0 /\ c \notin swept => fate[c] = "back"
  BY DEF fate, Has

LEMMA FateNext ==
    ASSUME NEW c \in Copy
    PROVE  /\ turns'[c] > 0 => fate'[c] = "read"
           /\ ~(turns'[c] > 0) /\ Has(c)' => fate'[c] = "kept"
           /\ ~(turns'[c] > 0) /\ ~Has(c)' /\ stamp'[First(c)] = 0 => fate'[c] = "unsent"
           /\ ~(turns'[c] > 0) /\ ~Has(c)' /\ stamp'[First(c)] # 0 /\ c \in swept' => fate'[c] = "lost"
           /\ ~(turns'[c] > 0) /\ ~Has(c)' /\ stamp'[First(c)] # 0 /\ c \notin swept' => fate'[c] = "back"
  BY DEF fate, Has

Unasked(c) == c[2] = "request" /\ c[1] \in unheard

LEMMA Told ==
    ASSUME NEW c \in Copy
    PROVE  /\ told[c] = IF Unasked(c) THEN "nothing" ELSE IF send[c] = "sent" THEN "delivered"
                        ELSE IF send[c] \in {"refused", "failed"} THEN "refused" ELSE "nothing"
           /\ told'[c] = IF Unasked(c)' THEN "nothing" ELSE IF send'[c] = "sent" THEN "delivered"
                         ELSE IF send'[c] \in {"refused", "failed"} THEN "refused" ELSE "nothing"
  BY DEF told, Unasked

(* A sender that stops waiting for the answer has not been told anything.     *)
LEMMA GivesUp ==
    ASSUME Whole, NEW c \in Copy, [Next]_vars
    PROVE  /\ Unasked(c) => Unasked(c)'
           /\ Unasked(c)' /\ ~Unasked(c) => told[c] = "nothing" /\ told'[c] = "nothing"
<1>1. Unasked(c) => Unasked(c)'
  <2> SUFFICES ASSUME Unasked(c) PROVE Unasked(c)'
    OBVIOUS
  <2>1. c[1] \in Mail
    BY DEF Copy
  <2>2. QED
    BY <2>1, Writes DEF Unasked, Whole, Inv, Paired
<1>2. ASSUME Unasked(c)', ~Unasked(c) PROVE told[c] = "nothing" /\ told'[c] = "nothing"
  <2>1. c[1] \in Mail /\ c = Request(c[1])
    BY <1>2 DEF Copy, Request, Unasked
  <2>2. send[c] = "posting"
    BY <1>2, <2>1, Writes DEF Unasked, Whole, Inv, Paired
  <2>3. QED
    BY <1>2, <2>2, Told
<1>3. QED
  BY <1>1, <1>2

(* A copy that is somewhere was deposited.                                    *)
LEMMA HasDate ==
    ASSUME Inv, NEW c \in Copy, Has(c)
    PROVE  stamp[First(c)] # 0
<1>1. CASE InHand(c)
  <2>1. PICK r \in Readers : at[r] = "admit" /\ cur[r][1] = c
    BY <1>1 DEF InHand
  <2>2. QED
    BY <2>1, InHandKnown, FirstDeposit DEF Inv
<1>2. CASE Files(c) \cap body # {}
  <2>1. PICK f \in File : f[1] = c /\ f \in body
    BY <1>2 DEF Files
  <2>2. QED
    BY <2>1, FirstDeposit DEF Inv, Known
<1>3. QED
  BY <1>1, <1>2 DEF Has

(* A copy that was refused is nowhere.                                        *)
LEMMA RefusedHasNot ==
    ASSUME Whole, NEW c \in Copy, send[c] \in {"refused", "failed"}
    PROVE  turns[c] = 0 /\ ~Has(c) /\ c \notin swept
<1>1. First(c) \in File /\ First(c)[1] = c
  BY FileType
<1>2. turns[c] = 0 /\ c \notin swept /\ \A f \in File : f[1] = c => f \notin body
  BY <1>1 DEF Whole, Gone
<1>3. \A r \in Readers : cur[r][1] = c => at[r] # "admit"
  BY DEF Whole, Gone
<1>4. QED
  BY <1>2, <1>3 DEF Has, Files, InHand

(* A copy that was refused is nowhere, also after a step.                     *)
LEMMA RefusedNext ==
    ASSUME Whole', NEW c \in Copy, send'[c] \in {"refused", "failed"}
    PROVE  turns'[c] = 0 /\ ~Has(c)' /\ c \notin swept'
<1>1. First(c) \in File /\ First(c)[1] = c
  BY FileType
<1>2. turns'[c] = 0 /\ c \notin swept' /\ \A f \in File : f[1] = c => f \notin body'
  BY <1>1 DEF Whole, Gone
<1>3. \A r \in Readers : cur'[r][1] = c => at'[r] # "admit"
  BY DEF Whole, Gone
<1>4. QED
  BY <1>2, <1>3 DEF Has, Files, InHand

(* A deposited copy that is nowhere stays where it is.                        *)
LEMMA NowhereStays ==
    ASSUME Whole, NEW c \in Copy, [Next]_vars, turns[c] = 0, ~Has(c), stamp[First(c)] # 0
    PROVE  turns'[c] = 0 /\ ~Has(c)' /\ (c \in swept' <=> c \in swept)
<1> TypeOK /\ Inv
  BY DEF Whole, Inv
<1>1. send[c] \notin {"posting", "keeping"}
  BY DEF Inv, Early
<1>2. \A r \in Readers : at[r] = "admit" => cur[r][1] # c
  BY DEF Has, InHand
<1>3. \A f \in File : f[1] = c => f \notin body
  BY DEF Has, Files
<1>4. turns'[c] = 0
  BY <1>1, <1>2, Turned
<1>5. ASSUME NEW f \in File, f[1] = c, f \in body' PROVE FALSE
  <2>1. f \notin body
    BY <1>3, <1>5
  <2>2. CASE \E n \in Copy : f = First(n) /\ send[n] \in {"posting", "keeping"}
    BY <1>1, <1>5, <2>2, FileType
  <2>3. CASE \E r \in Readers : at[r] = "admit" /\ f = << cur[r][1], cur[r][2] + 1 >>
    <3>1. PICK r \in Readers : at[r] = "admit" /\ f = << cur[r][1], cur[r][2] + 1 >>
      BY <2>3
    <3>2. cur[r][1] = c
      BY <1>5, <3>1
    <3>3. QED
      BY <1>2, <3>1, <3>2
  <2>4. QED
    BY <1>5, <2>1, <2>2, <2>3, Comes
<1>6. ASSUME NEW r \in Readers, at'[r] = "admit", cur'[r][1] = c PROVE FALSE
  <2>1. cur[r] = cur'[r] /\ at[r] \in {"read", "admit"} /\ (at[r] = "read" => cur[r] \in body)
    BY <1>6, Hands
  <2>2. cur[r] \in File
    BY DEF TypeOK
  <2>3. QED
    BY <1>2, <1>3, <1>6, <2>1, <2>2
<1>7. c \in swept' => c \in swept
  <2>1. sweep.file \in File
    BY DEF TypeOK
  <2>2. QED
    BY <1>3, <2>1, SweepTakes
<1>8. QED
  BY <1>4, <1>5, <1>6, <1>7, Keeps DEF Has, Files, InHand

(* Every step is a step of KeptMail.                                          *)
LEMMA KeptStep ==
    ASSUME Whole, SweepsFail = FALSE, [Next]_vars
    PROVE  Kept!Step
<1> Whole'
  BY WholeStep
<1> TypeOK /\ Inv
  BY DEF Whole, Inv
<1>1. fate' \in [Copy -> Kept!Fates]
  BY DEF fate, Kept!Fates
<1>2. told' \in [Copy -> Kept!Answers]
  BY DEF told, Kept!Answers
<1>3. ASSUME NEW c \in Copy, fate'[c] # fate[c]
      PROVE  << fate[c], fate'[c] >> \in Kept!Moves /\ told[c] # "refused"
  <2>1. turns[c] \in Nat /\ turns'[c] \in Nat /\ turns'[c] >= turns[c]
    BY TypeStep, Keeps DEF TypeOK
  <2>2. ~(turns[c] > 0)
    <3> SUFFICES ASSUME turns[c] > 0 PROVE FALSE
      OBVIOUS
    <3>1. turns'[c] > 0
      BY <2>1
    <3>2. QED
      BY <1>3, <3>1, FateNow, FateNext
  <2>3. turns[c] = 0
    BY <2>1, <2>2
  <2>4. told[c] # "refused"
    <3> SUFFICES ASSUME send[c] \in {"refused", "failed"} PROVE FALSE
      BY Told
    <3>1. send'[c] = send[c]
      BY Sends DEF Answered
    <3>2. turns'[c] = 0 /\ ~Has(c)' /\ c \notin swept'
      <4>1. (turns[c] = 0 /\ ~Has(c) /\ c \notin swept)'
        BY <3>1, RefusedNext
      <4>2. QED
        BY <4>1
    <3>3. turns[c] = 0 /\ ~Has(c) /\ c \notin swept
      BY RefusedHasNot
    <3>4. stamp[First(c)] # 0 => stamp'[First(c)] # 0
      BY FirstType, Stays
    <3>5. stamp[First(c)] = 0 => stamp'[First(c)] = 0
      BY <3>1, <3>3, Untouched
    <3>6. QED
      BY <1>3, <3>2, <3>3, <3>4, <3>5, FateNow, FateNext
  <2>5. CASE Has(c)
    <3>1. stamp'[First(c)] # 0
      BY <2>5, HasDate, FirstType, Stays
    <3>2. fate[c] = "kept" /\ fate'[c] \in {"read", "kept", "lost", "back"}
      BY <2>2, <2>5, <3>1, FateNow, FateNext
    <3>3. QED
      BY <1>3, <2>4, <3>2 DEF Kept!Moves
  <2>6. CASE ~Has(c) /\ stamp[First(c)] = 0
    <3>1. fate[c] = "unsent"
      BY <2>2, <2>6, FateNow
    <3>2. stamp'[First(c)] # 0 => Has(c)'
      <4>1. stamp'[First(c)] # 0 => First(c) \in body'
        BY <2>6, FirstType, Dates
      <4>2. First(c) \in File /\ First(c)[1] = c
        BY FileType
      <4>3. QED
        BY <4>1, <4>2 DEF Has, Files
    <3>3. fate'[c] \in {"read", "kept", "unsent"}
      BY <3>2, FateNext
    <3>4. QED
      BY <1>3, <2>4, <3>1, <3>3 DEF Kept!Moves
  <2>7. CASE ~Has(c) /\ stamp[First(c)] # 0
    <3>1. turns'[c] = 0 /\ ~Has(c)' /\ (c \in swept' <=> c \in swept)
      BY <2>3, <2>7, NowhereStays
    <3>2. stamp'[First(c)] # 0
      BY <2>7, FirstType, Stays
    <3>3. QED
      BY <1>3, <2>2, <2>7, <3>1, <3>2, FateNow, FateNext
  <2>8. QED
    BY <2>5, <2>6, <2>7
<1>4. ASSUME NEW c \in Copy, told'[c] # told[c]
      PROVE  told[c] = "nothing" /\ << fate'[c], told'[c] >> \in Kept!Tells
  <2>0. ~Unasked(c) /\ ~Unasked(c)'
    <3>1. CASE Unasked(c)
      BY <1>4, <3>1, GivesUp, Told
    <3>2. CASE Unasked(c)' /\ ~Unasked(c)
      BY <1>4, <3>2, GivesUp
    <3>3. QED
      BY <3>1, <3>2
  <2>1. send'[c] # send[c]
    BY <1>4, <2>0, Told
  <2>2. send[c] \notin {"sent", "refused", "failed"}
    BY <2>1, Sends DEF Answered
  <2>3. told[c] = "nothing"
    BY <2>2, Told
  <2>4. CASE send'[c] = "sent"
    <3>1. turns'[c] > 0 \/ c \in swept' \/ Has(c)'
      <4>1. turns'[c] > 0 \/ c \in swept' \/ \E f \in body' : f[1] = c
        BY <2>4 DEF Whole, Safe, Deposited
      <4>2. body' \subseteq File
        BY TypeStep DEF TypeOK
      <4>3. QED
        BY <4>1, <4>2 DEF Has, Files
    <3>2. c \in swept' => stamp'[First(c)] # 0
      BY DEF Whole, SweptOrder
    <3>3. fate'[c] \in {"read", "kept", "lost"}
      BY <3>1, <3>2, FateNext
    <3>4. told'[c] = "delivered"
      BY <2>0, <2>4, Told
    <3>5. QED
      BY <2>3, <3>3, <3>4 DEF Kept!Tells
  <2>5. CASE send'[c] \in {"refused", "failed"}
    <3>1. turns'[c] = 0 /\ ~Has(c)' /\ c \notin swept'
      BY <2>5, RefusedNext
    <3>2. fate'[c] \in {"unsent", "back"}
      BY <3>1, FateNext
    <3>3. told'[c] = "refused"
      BY <2>0, <2>5, Told
    <3>4. QED
      BY <2>3, <3>2, <3>3 DEF Kept!Tells
  <2>6. QED
    BY <1>4, <2>0, <2>3, <2>4, <2>5, Told
<1>5. QED
  BY <1>1, <1>2, <1>3, <1>4 DEF Kept!Step

(* Whoever reads, takes back, keeps again or sweeps: every copy keeps the     *)
(* promise of KeptMail.                                                       *)
THEOREM Implements ==
    ASSUME SweepsFail = FALSE
    PROVE  Spec => ImplementsKeptMail
<1>1. Init => Kept!Init
  <2> SUFFICES ASSUME Init PROVE Kept!Init
    OBVIOUS
  <2>1. ASSUME NEW c \in Copy PROVE fate[c] = "unsent" /\ told[c] = "nothing"
    <3>1. turns[c] = 0 /\ ~Has(c) /\ stamp[First(c)] = 0 /\ send[c] = "new"
      BY FirstType DEF Init, Has, Files, InHand
    <3>2. QED
      BY <3>1, FateNow, Told
  <2>2. QED
    BY <2>1 DEF Kept!Init, fate, told
<1>2. Whole /\ [Next]_vars => [Kept!Step]_(Kept!vars)
  BY KeptStep
<1>3. Whole /\ [Next]_vars => Whole'
  BY WholeStep
<1>4. QED
  BY WholeStart, <1>1, <1>2, <1>3, PTL DEF Spec, ImplementsKeptMail, Kept!Spec

=============================================================================
