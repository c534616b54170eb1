--------------------------- MODULE CommandLineProofs ---------------------------
(***************************************************************************)
(* Proofs about FileTransfers and CommandLine.  First what every call      *)
(* keeps of file_access, and that its answer is true, however many calls   *)
(* and others there are, with lemmas about single steps; then, on the same *)
(* lemmas, that the server keeps it whatever is typed at any number of     *)
(* terminals, and that the exit codes are true.                            *)
(***************************************************************************)
EXTENDS CommandLine, TLAPS

(***************************************************************************)
(* The server by itself (FileTransfers).                                   *)
(***************************************************************************)

Domains ==
    /\ DOMAIN pc = Callers /\ DOMAIN request = Callers /\ DOMAIN bytes = Callers
    /\ DOMAIN reply = Callers /\ DOMAIN answer = Callers

\* What is shared: the disk is touched where it may be.
SharedInv ==
    /\ mode \in {"local", "off"}
    /\ folders \subseteq foldersWas
    /\ touched \subseteq Absolute /\ (mode = "off" => touched = {})

Silent == {"stored", "lost", "done"}
NothingStoredBy(c) == \A s \in stored : s[1] # c

\* How far a call is tells what is settled about it.
FileInv(c) ==
    LET r == request[c]
    IN /\ pc[c] \in {"file", "read"} => mode = "local" /\ r.inline = Void
       /\ pc[c] = "read" => r.path \in Absolute
       /\ pc[c] \in {"fetch", "deliver", "write"} =>
            \/ mode = "off" /\ r.path = Void
            \/ mode = "local" /\ r.path # Void /\ r.path \in foldersWas /\ r.path \in Absolute
       /\ pc[c] = "write" => mode = "local"
       /\ pc[c] = "store" /\ r.inline # Void => Size(bytes[c]) <= MaxInline
       /\ pc[c] = "idle" => c \notin fetched
StoreInv(c) ==
    /\ pc[c] \notin Silent => NothingStoredBy(c)
    /\ pc[c] = "done" <=> answer[c].result # "none"
    /\ pc[c] = "stored" => <<c, stored_name(c), bytes[c]>> \in stored
MovedBy(c) ==
    /\ answer[c].result = "inline" => mode = "off" /\ Size(answer[c].bytes) <= MaxInline
    /\ c \in fetched /\ mode = "local" => request[c].path \in foldersWas
SmallBy(c) ==
    \A s \in stored : s[1] = c /\ request[c].inline # Void => Size(s[3]) <= MaxInline
NamedBy(c) ==
    /\ answer[c].result = "stored" => <<c, answer[c].name, answer[c].bytes>> \in stored
    /\ answer[c].result \notin {"none", "stored", "error"} => NothingStoredBy(c)

CallInv(c) == FileInv(c) /\ StoreInv(c) /\ MovedBy(c) /\ SmallBy(c) /\ NamedBy(c)
IInv == Domains /\ SharedInv /\ \A c \in Callers : CallInv(c)

-----------------------------------------------------------------------------

LEMMA InitHolds == Init => IInv
  BY TransferAssumption
  DEF Init, IInv, Domains, SharedInv, CallInv, FileInv, StoreInv, MovedBy, SmallBy, NamedBy,
      NothingStoredBy, NoAnswer, NoRequest, Silent

LEMMA InvariantImplies == IInv => FileAccessIsKept /\ AnswersNameWhatIsStored
  BY DEF IInv, SharedInv, CallInv, MovedBy, SmallBy, NamedBy, NothingStoredBy, FileAccessIsKept,
         AnswersNameWhatIsStored

\* A step that touches only the world of others.
LEMMA OtherKeeps == IInv /\ Other => IInv'
<1> SUFFICES ASSUME IInv, Other PROVE IInv'
  OBVIOUS
<1>1. /\ UNCHANGED <<mode, callVars, touched, stored, fetched>>
      /\ folders' \subseteq foldersWas' /\ foldersWas \subseteq foldersWas'
  BY DEF Other, IInv, SharedInv
<1>2. Domains' /\ SharedInv'
  BY <1>1 DEF IInv, Domains, SharedInv, callVars
<1>3. ASSUME NEW c \in Callers PROVE CallInv(c)'
  BY <1>1 DEF IInv, CallInv, FileInv, StoreInv, MovedBy, SmallBy, NamedBy, NothingStoredBy,
         callVars, stored_name, Wanted
<1> QED
  BY <1>2, <1>3 DEF IInv

\* A step of one call leaves the others alone, and the shared state as it was
\* but for what the call touches and stores.
Alone(c) ==
    /\ \A d \in Callers \ {c} :
          /\ pc'[d] = pc[d] /\ request'[d] = request[d] /\ bytes'[d] = bytes[d]
          /\ reply'[d] = reply[d] /\ answer'[d] = answer[d]
    /\ mode' = mode /\ folders' = folders /\ foldersWas' = foldersWas
    /\ stored \subseteq stored' /\ \A s \in stored' \ stored : s[1] = c
    /\ fetched \subseteq fetched' /\ fetched' \subseteq fetched \cup {c}

LEMMA OwnStep ==
    ASSUME NEW c \in Callers, IInv, Alone(c), Domains', SharedInv', CallInv(c)'
    PROVE  IInv'
<1>1. ASSUME NEW d \in Callers \ {c} PROVE CallInv(d)'
  <2>1. NothingStoredBy(d) => NothingStoredBy(d)'
    BY <1>1 DEF Alone, NothingStoredBy
  <2>2. FileInv(d)' /\ MovedBy(d)' /\ SmallBy(d)'
    BY <1>1 DEF Alone, IInv, CallInv, FileInv, MovedBy, SmallBy
  <2>3. StoreInv(d)' /\ NamedBy(d)'
    BY <1>1, <2>1 DEF Alone, IInv, CallInv, StoreInv, NamedBy, stored_name, Wanted
  <2> QED
    BY <2>2, <2>3 DEF CallInv
<1> QED
  BY <1>1 DEF IInv

\* A step that stores nothing, of a call that has stored nothing.
LEMMA QuietStep ==
    ASSUME NEW c \in Callers, IInv, pc[c] \notin Silent, stored' = stored
    PROVE  NothingStoredBy(c)' /\ SmallBy(c)'
  BY DEF IInv, CallInv, StoreInv, NothingStoredBy, SmallBy

\* Such a step either goes on, or ends the call without a success to check.
Ends(c) == pc'[c] = "done" /\ answer'[c].result \notin {"inline", "stored", "none"}
GoesOn(c) == pc'[c] \notin Silent /\ pc'[c] # "idle" /\ answer'[c] = answer[c]
Paid(c) == c \in fetched /\ mode = "local" => request[c].path \in foldersWas

LEMMA Outcome ==
    ASSUME NEW c \in Callers, IInv, pc[c] \notin Silent, Ends(c) \/ GoesOn(c),
           NothingStoredBy(c)', FileInv(c)', Paid(c)'
    PROVE  StoreInv(c)' /\ MovedBy(c)' /\ NamedBy(c)'
<1>1. answer[c].result = "none"
  BY DEF IInv, CallInv, StoreInv, Silent
<1>2. CASE Ends(c)
  BY <1>2 DEF Ends, Paid, StoreInv, MovedBy, NamedBy, Silent
<1>3. CASE GoesOn(c)
  BY <1>1, <1>3 DEF GoesOn, Paid, StoreInv, MovedBy, NamedBy, Silent
<1> QED
  BY <1>2, <1>3

LEMMA EndedFileInv == ASSUME NEW c, pc'[c] \in Silent PROVE FileInv(c)'
  BY DEF FileInv, Silent

LEMMA ServeIsOwn == ASSUME NEW c \in Callers, IInv, Serve(c) PROVE Alone(c)
<1> USE DEF world, Goto, Finish, Refuse
<1>1. CASE read_input(c)
  BY <1>1 DEF read_input, Fits, Hold, Alone, IInv, Domains
<1>2. CASE validate_file_path(c)
  BY <1>2 DEF validate_file_path, Alone, IInv, Domains
<1>3. CASE read_bytes(c)
  BY <1>3 DEF read_bytes, Hold, Alone, IInv, Domains
<1>4. CASE put_attachment(c)
  BY <1>4 DEF put_attachment, Alone, IInv, Domains
<1>5. CASE tell(c)
  BY <1>5 DEF tell, stored_name, Alone, IInv, Domains
<1>6. CASE check_output_path(c)
  BY <1>6 DEF check_output_path, MayBeWritten, Alone, IInv, Domains
<1>7. CASE fetch(c)
  BY <1>7 DEF fetch, Hold, Alone, IInv, Domains
<1>8. CASE deliver_file(c)
  BY <1>8 DEF deliver_file, MayBeWritten, Alone, IInv, Domains
<1>9. CASE write_bytes(c)
  BY <1>9 DEF write_bytes, Alone, IInv, Domains
<1>10. CASE deliver_inline(c)
  BY <1>10 DEF deliver_inline, Fits, Alone, IInv, Domains
<1>11. CASE delete_attachment(c)
  BY <1>11 DEF delete_attachment, Alone, IInv, Domains
<1> QED
  BY <1>1, <1>2, <1>3, <1>4, <1>5, <1>6, <1>7, <1>8, <1>9, <1>10, <1>11 DEF Serve

LEMMA ServeKeeps == ASSUME NEW c \in Callers, IInv, Serve(c) PROVE IInv'
<1> USE TransferAssumption DEF world, Goto, Finish, Refuse
<1>1. CASE read_input(c)
  <2>1. Alone(c)
    BY ServeIsOwn
  <2>2. Domains' /\ SharedInv'
    BY <1>1 DEF read_input, Fits, Hold, IInv, Domains, SharedInv, CallInv, FileInv
  <2>3. pc[c] \notin Silent /\ stored' = stored
    BY <1>1 DEF read_input, Silent
  <2>4. NothingStoredBy(c)' /\ SmallBy(c)'
    BY <2>3, QuietStep
  <2>5. Ends(c) \/ GoesOn(c)
    BY <1>1 DEF read_input, Fits, Hold, IInv, Domains, Ends, GoesOn, Silent
  <2>6. FileInv(c)'
    BY <1>1, EndedFileInv DEF read_input, Fits, Hold, IInv, Domains, SharedInv, CallInv, FileInv, Silent
  <2>7. Paid(c)'
    BY <1>1 DEF read_input, Fits, Hold, IInv, Domains, SharedInv, CallInv, FileInv, MovedBy, Paid
  <2> QED
    BY <2>1, <2>2, <2>3, <2>4, <2>5, <2>6, <2>7, Outcome, OwnStep DEF CallInv
<1>2. CASE validate_file_path(c)
  <2>1. Alone(c)
    BY ServeIsOwn
  <2>2. Domains' /\ SharedInv'
    BY <1>2 DEF validate_file_path, IInv, Domains, SharedInv, CallInv, FileInv
  <2>3. pc[c] \notin Silent /\ stored' = stored
    BY <1>2 DEF validate_file_path, Silent
  <2>4. NothingStoredBy(c)' /\ SmallBy(c)'
    BY <2>3, QuietStep
  <2>5. Ends(c) \/ GoesOn(c)
    BY <1>2 DEF validate_file_path, IInv, Domains, Ends, GoesOn, Silent
  <2>6. FileInv(c)'
    BY <1>2, EndedFileInv DEF validate_file_path, IInv, Domains, SharedInv, CallInv, FileInv, Silent
  <2>7. Paid(c)'
    BY <1>2 DEF validate_file_path, IInv, Domains, SharedInv, CallInv, FileInv, MovedBy, Paid
  <2> QED
    BY <2>1, <2>2, <2>3, <2>4, <2>5, <2>6, <2>7, Outcome, OwnStep DEF CallInv
<1>3. CASE read_bytes(c)
  <2>1. Alone(c)
    BY ServeIsOwn
  <2>2. Domains' /\ SharedInv'
    BY <1>3 DEF read_bytes, Hold, IInv, Domains, SharedInv, CallInv, FileInv
  <2>3. pc[c] \notin Silent /\ stored' = stored
    BY <1>3 DEF read_bytes, Silent
  <2>4. NothingStoredBy(c)' /\ SmallBy(c)'
    BY <2>3, QuietStep
  <2>5. Ends(c) \/ GoesOn(c)
    BY <1>3 DEF read_bytes, Hold, IInv, Domains, Ends, GoesOn, Silent
  <2>6. FileInv(c)'
    BY <1>3, EndedFileInv DEF read_bytes, Hold, IInv, Domains, SharedInv, CallInv, FileInv, Silent
  <2>7. Paid(c)'
    BY <1>3 DEF read_bytes, Hold, IInv, Domains, SharedInv, CallInv, FileInv, MovedBy, Paid
  <2> QED
    BY <2>1, <2>2, <2>3, <2>4, <2>5, <2>6, <2>7, Outcome, OwnStep DEF CallInv
<1>4. CASE put_attachment(c)
  <2>1. Alone(c)
    BY ServeIsOwn
  <2>2. Domains' /\ SharedInv'
    BY <1>4 DEF put_attachment, IInv, Domains, SharedInv, CallInv, FileInv
  <2>3. SmallBy(c)'
    BY <1>4 DEF put_attachment, IInv, Domains, CallInv, FileInv, SmallBy
  <2>4. FileInv(c)' /\ MovedBy(c)'
    BY <1>4 DEF put_attachment, IInv, Domains, SharedInv, CallInv, FileInv, MovedBy
  <2>5. StoreInv(c)' /\ NamedBy(c)'
    <3>1. pc[c] = "store" /\ answer'[c].result = "none" /\ bytes' = bytes /\ request' = request
      BY <1>4 DEF put_attachment, IInv, CallInv, StoreInv, Silent
    <3>2. pc'[c] = "stored" => <<c, stored_name(c)', bytes[c]>> \in stored'
      <4>1. ASSUME NEW n \in StoredAs(c), NEW name \in {n, Void}, name = Void => n = Wanted(c),
                   reply' = [reply EXCEPT ![c] = name]
            PROVE  stored_name(c)' = n
        <5>1. n # Void
          BY <4>1, <3>1 DEF StoredAs, Wanted, Void
        <5>2. reply'[c] = name /\ Wanted(c)' = Wanted(c)
          BY <3>1, <4>1 DEF IInv, Domains, Wanted
        <5> QED
          BY <4>1, <5>1, <5>2 DEF stored_name
      <4>2. pc'[c] = "stored" =>
               \E n \in StoredAs(c) :
                  /\ stored' = stored \cup {<<c, n, bytes[c]>>}
                  /\ \E name \in {n, Void} :
                        /\ name = Void => n = Wanted(c)
                        /\ reply' = [reply EXCEPT ![c] = name]
        BY <1>4 DEF put_attachment, IInv, Domains
      <4> QED
        BY <4>1, <4>2
    <3>3. pc'[c] \in {"stored", "lost"}
      BY <1>4 DEF put_attachment, IInv, Domains
    <3> QED
      BY <3>1, <3>2, <3>3 DEF StoreInv, NamedBy, Silent
  <2> QED
    BY <2>1, <2>2, <2>3, <2>4, <2>5, OwnStep DEF CallInv
<1>5. CASE tell(c)
  <2>1. Alone(c)
    BY ServeIsOwn
  <2>2. Domains' /\ SharedInv'
    BY <1>5 DEF tell, stored_name, IInv, Domains, SharedInv, CallInv, FileInv
  <2>3. SmallBy(c)'
    BY <1>5 DEF tell, stored_name, IInv, Domains, CallInv, SmallBy
  <2>4. FileInv(c)' /\ MovedBy(c)'
    BY <1>5 DEF tell, stored_name, IInv, Domains, SharedInv, CallInv, FileInv, MovedBy
  <2>5. pc'[c] = "done" /\ stored' = stored
    BY <1>5 DEF tell, stored_name, IInv, Domains
  <2>6. StoreInv(c)'
    <3>1. answer'[c].result \in {"stored", "error"}
      BY <1>5 DEF tell, stored_name, IInv, Domains
    <3> QED
      BY <2>5, <3>1 DEF StoreInv, Silent
  <2>7. NamedBy(c)'
    <3>1. CASE pc[c] = "stored"
      <4>1. answer'[c] = [result |-> "stored", name |-> stored_name(c), bytes |-> bytes[c]]
        BY <1>5, <3>1 DEF tell, stored_name, IInv, Domains
      <4>2. <<c, stored_name(c), bytes[c]>> \in stored'
        BY <2>5, <3>1 DEF IInv, CallInv, StoreInv
      <4> QED
        BY <4>1, <4>2 DEF NamedBy
    <3>2. CASE pc[c] # "stored"
      <4>1. answer'[c].result = "error"
        BY <1>5, <3>2 DEF tell, stored_name, IInv, Domains
      <4> QED
        BY <4>1 DEF NamedBy
    <3> QED
      BY <3>1, <3>2
  <2> QED
    BY <2>1, <2>2, <2>3, <2>4, <2>6, <2>7, OwnStep DEF CallInv
<1>6. CASE check_output_path(c)
  <2>1. Alone(c)
    BY ServeIsOwn
  <2>2. Domains' /\ SharedInv'
    BY <1>6 DEF check_output_path, MayBeWritten, IInv, Domains, SharedInv, CallInv, FileInv
  <2>3. pc[c] \notin Silent /\ stored' = stored
    BY <1>6 DEF check_output_path, Silent
  <2>4. NothingStoredBy(c)' /\ SmallBy(c)'
    BY <2>3, QuietStep
  <2>5. Ends(c) \/ GoesOn(c)
    BY <1>6 DEF check_output_path, MayBeWritten, IInv, Domains, Ends, GoesOn, Silent
  <2>6. FileInv(c)'
    BY <1>6, EndedFileInv DEF check_output_path, MayBeWritten, IInv, Domains, SharedInv, CallInv, FileInv, Silent
  <2>7. Paid(c)'
    BY <1>6 DEF check_output_path, MayBeWritten, IInv, Domains, SharedInv, CallInv, FileInv, MovedBy, Paid
  <2> QED
    BY <2>1, <2>2, <2>3, <2>4, <2>5, <2>6, <2>7, Outcome, OwnStep DEF CallInv
<1>7. CASE fetch(c)
  <2>1. Alone(c)
    BY ServeIsOwn
  <2>2. Domains' /\ SharedInv'
    BY <1>7 DEF fetch, Hold, IInv, Domains, SharedInv, CallInv, FileInv
  <2>3. pc[c] \notin Silent /\ stored' = stored
    BY <1>7 DEF fetch, Silent
  <2>4. NothingStoredBy(c)' /\ SmallBy(c)'
    BY <2>3, QuietStep
  <2>5. Ends(c) \/ GoesOn(c)
    BY <1>7 DEF fetch, Hold, IInv, Domains, Ends, GoesOn, Silent
  <2>6. FileInv(c)'
    BY <1>7, EndedFileInv DEF fetch, Hold, IInv, Domains, SharedInv, CallInv, FileInv, Silent
  <2>7. Paid(c)'
    BY <1>7 DEF fetch, Hold, IInv, Domains, SharedInv, CallInv, FileInv, MovedBy, Paid
  <2> QED
    BY <2>1, <2>2, <2>3, <2>4, <2>5, <2>6, <2>7, Outcome, OwnStep DEF CallInv
<1>8. CASE deliver_file(c)
  <2>1. Alone(c)
    BY ServeIsOwn
  <2>2. Domains' /\ SharedInv'
    BY <1>8 DEF deliver_file, MayBeWritten, IInv, Domains, SharedInv, CallInv, FileInv
  <2>3. pc[c] \notin Silent /\ stored' = stored
    BY <1>8 DEF deliver_file, Silent
  <2>4. NothingStoredBy(c)' /\ SmallBy(c)'
    BY <2>3, QuietStep
  <2>5. Ends(c) \/ GoesOn(c)
    BY <1>8 DEF deliver_file, MayBeWritten, IInv, Domains, Ends, GoesOn, Silent
  <2>6. FileInv(c)'
    BY <1>8, EndedFileInv DEF deliver_file, MayBeWritten, IInv, Domains, SharedInv, CallInv, FileInv, Silent
  <2>7. Paid(c)'
    BY <1>8 DEF deliver_file, MayBeWritten, IInv, Domains, SharedInv, CallInv, FileInv, MovedBy, Paid
  <2> QED
    BY <2>1, <2>2, <2>3, <2>4, <2>5, <2>6, <2>7, Outcome, OwnStep DEF CallInv
<1>9. CASE write_bytes(c)
  <2>1. Alone(c)
    BY ServeIsOwn
  <2>2. Domains' /\ SharedInv'
    BY <1>9 DEF write_bytes, IInv, Domains, SharedInv, CallInv, FileInv
  <2>3. pc[c] \notin Silent /\ stored' = stored
    BY <1>9 DEF write_bytes, Silent
  <2>4. NothingStoredBy(c)' /\ SmallBy(c)'
    BY <2>3, QuietStep
  <2>5. Ends(c)
    BY <1>9 DEF write_bytes, IInv, Domains, Ends, GoesOn, Silent
  <2>6. FileInv(c)'
    BY <1>9, EndedFileInv DEF write_bytes, IInv, Domains, SharedInv, CallInv, FileInv, Silent
  <2>7. Paid(c)'
    BY <1>9 DEF write_bytes, IInv, Domains, SharedInv, CallInv, FileInv, MovedBy, Paid
  <2> QED
    BY <2>1, <2>2, <2>3, <2>4, <2>5, <2>6, <2>7, Outcome, OwnStep DEF CallInv
<1>10. CASE deliver_inline(c)
  <2>1. Alone(c)
    BY ServeIsOwn
  <2>2. Domains' /\ SharedInv'
    BY <1>10 DEF deliver_inline, Fits, IInv, Domains, SharedInv, CallInv, FileInv
  <2>3. pc[c] \notin Silent /\ stored' = stored
    BY <1>10 DEF deliver_inline, Silent
  <2>4. NothingStoredBy(c)' /\ SmallBy(c)'
    BY <2>3, QuietStep
  <2>5. FileInv(c)' /\ Paid(c)'
    BY <1>10, EndedFileInv DEF deliver_inline, Fits, IInv, Domains, CallInv, FileInv, Paid, Silent
  <2>6. CASE answer'[c].result = "inline"
    <3>1. /\ answer'[c] = [result |-> "inline", name |-> Void, bytes |-> bytes[c]]
          /\ Size(bytes[c]) <= MaxInline /\ pc'[c] = "done"
      BY <1>10, <2>6 DEF deliver_inline, Fits, IInv, Domains
    <3>2. mode' = "off"
      BY <1>10 DEF deliver_inline, Fits, IInv, CallInv, FileInv
    <3>3. StoreInv(c)' /\ NamedBy(c)'
      BY <2>4, <3>1 DEF StoreInv, NamedBy, Silent
    <3>4. MovedBy(c)'
      BY <2>5, <3>1, <3>2 DEF MovedBy, Paid
    <3> QED
      BY <2>1, <2>2, <2>4, <2>5, <3>3, <3>4, OwnStep DEF CallInv
  <2>7. CASE answer'[c].result # "inline"
    <3>1. Ends(c)
      BY <1>10, <2>7 DEF deliver_inline, Fits, Ends, IInv, Domains
    <3> QED
      BY <2>1, <2>2, <2>3, <2>4, <2>5, <3>1, Outcome, OwnStep DEF CallInv
  <2> QED
    BY <2>6, <2>7
<1>11. CASE delete_attachment(c)
  <2>1. Alone(c)
    BY ServeIsOwn
  <2>2. Domains' /\ SharedInv'
    BY <1>11 DEF delete_attachment, IInv, Domains, SharedInv, CallInv, FileInv
  <2>3. pc[c] \notin Silent /\ stored' = stored
    BY <1>11 DEF delete_attachment, Silent
  <2>4. NothingStoredBy(c)' /\ SmallBy(c)'
    BY <2>3, QuietStep
  <2>5. Ends(c)
    BY <1>11 DEF delete_attachment, IInv, Domains, Ends, GoesOn, Silent
  <2>6. FileInv(c)'
    BY <1>11, EndedFileInv DEF delete_attachment, IInv, Domains, SharedInv, CallInv, FileInv, Silent
  <2>7. Paid(c)'
    BY <1>11 DEF delete_attachment, IInv, Domains, SharedInv, CallInv, FileInv, MovedBy, Paid
  <2> QED
    BY <2>1, <2>2, <2>3, <2>4, <2>5, <2>6, <2>7, Outcome, OwnStep DEF CallInv
<1> QED
  BY <1>1, <1>2, <1>3, <1>4, <1>5, <1>6, <1>7, <1>8, <1>9, <1>10, <1>11 DEF Serve

\* A call that begins, with any request: nothing is known of it yet.
LEMMA BeginKeeps ==
    ASSUME NEW c \in Callers, IInv, pc[c] = "idle", Domains', SharedInv', Alone(c),
           answer' = answer, stored' = stored, fetched' = fetched,
           pc'[c] \in {"input", "check", "delete", "ticket"}
    PROVE  IInv'
<1>1. NothingStoredBy(c)' /\ SmallBy(c)'
  BY QuietStep DEF Silent
<1>2. FileInv(c)' /\ Paid(c)'
  BY DEF IInv, CallInv, FileInv, Paid
<1>3. GoesOn(c)
  BY DEF GoesOn, Silent
<1> QED
  BY <1>1, <1>2, <1>3, Outcome, OwnStep DEF CallInv, Silent

LEMMA CallKeeps == ASSUME NEW c \in Callers, IInv, Call(c) PROVE IInv'
<1>1. Domains' /\ SharedInv' /\ Alone(c)
  BY DEF Call, Goto, world, Alone, IInv, Domains, SharedInv
<1>2. /\ pc[c] = "idle" /\ pc'[c] \in {"input", "check", "delete"}
      /\ answer' = answer /\ stored' = stored /\ fetched' = fetched
  BY DEF Call, Goto, IInv, Domains
<1> QED
  BY <1>1, <1>2, BeginKeeps

LEMMA StutterKeeps == IInv /\ UNCHANGED vars => IInv'
  BY DEF vars, world, callVars, IInv, Domains, SharedInv, CallInv, FileInv, StoreInv,
         MovedBy, SmallBy, NamedBy, NothingStoredBy, stored_name, Wanted

-----------------------------------------------------------------------------

LEMMA Invariant == Spec => []IInv
<1>1. IInv /\ [Next]_vars => IInv'
  BY OtherKeeps, CallKeeps, ServeKeeps, StutterKeeps DEF Next
<1> QED
  BY InitHolds, <1>1, PTL DEF Spec

\* Whatever calls are made, and whatever others do to the disk meanwhile:
\* file_access and the limit are kept, and no download is fetched for a place
\* that was never there (file_io).
THEOREM FileAccess == Spec => []FileAccessIsKept
  BY Invariant, InvariantImplies, PTL

\* The name a put is answered with is the one Trac stored the bytes under, and
\* a call that is refused has stored nothing, however often names are taken
\* and freed meanwhile (_handle_put).
THEOREM AnswersTrue == Spec => []AnswersNameWhatIsStored
  BY Invariant, InvariantImplies, PTL

(***************************************************************************)
(* With the command line in front of it (CommandLine).                     *)
(***************************************************************************)

Texts == Homes \cup {Nowhere}

Body == Texts \cup Contents \cup {"small"}
Tickets == [ts : Nat, description : Body, comments : Seq(Body)]

CliDomains ==
    /\ DOMAIN home = Terminals /\ DOMAIN command = Terminals /\ DOMAIN stage = Terminals
    /\ DOMAIN exit = Terminals /\ DOMAIN sent = Terminals /\ DOMAIN token = Terminals
    /\ DOMAIN number = Terminals
    /\ ticket \in Tickets

Wrote(t) == \E w \in wrote : w[1] = t

\* Where the server is with a call that brings something.
Incoming == {"input", "file", "read", "store", "stored", "lost"}

\* Where the client is, and where the server is with its call.
PlaceInv(t) ==
    /\ stage[t] \in {"idle", "lock"} => pc[t] = "idle"
    /\ stage[t] = "readback" => pc[t] = "done" /\ command[t].op = "comment" /\ Wrote(t)
    /\ exit[t] \in {0, 1, 2, 4} => stage[t] = "done" /\ pc[t] \in {"idle", "done"}
    /\ stage[t] # "done" => exit[t] = NoCode /\ number[t] = 0
    /\ pc[t] \in {"check", "fetch", "deliver", "write"} => command[t].op \in Pulls
    /\ pc[t] \in Incoming => command[t].op \in Uploads
    /\ pc[t] \notin {"idle", "ticket", "done"} => command[t].op \notin TicketWrites
    /\ IF stage[t] = "idle" THEN home[t] \in Texts ELSE sent[t] \in Texts

\* What the server's answer says of the writes of the ticket.
SaidInv(t) ==
    /\ pc[t] # "done" => ~Wrote(t)
    /\ Wrote(t) => answer[t].result \in {"saved", "error"}
    /\ answer[t].result = "saved" => Wrote(t) /\ command[t].op \in TicketWrites
    /\ answer[t].result = "stored" => command[t].op \in Uploads
    /\ answer[t].result \in Delivered => command[t].op \in Pulls

NumberIsTrue(t) ==
    number[t] # 0 => /\ \E w \in wrote : w[1] = t /\ w[2] <= number[t]
                     /\ number[t] \in DOMAIN ticket.comments
                     /\ <<ticket.comments[number[t]], sent[t]>> \in Tails
NumberInv(t) ==
    /\ \A w \in wrote : w[1] = t /\ command[t].op = "comment" =>
            w[2] \in DOMAIN ticket.comments /\ ticket.comments[w[2]] = sent[t]
    /\ NumberIsTrue(t)

CodeInv(t) ==
    LET op == command[t].op
    IN /\ exit[t] \in {0, 4} /\ op \notin Pulls => Stored(t)
       /\ exit[t] = 0 /\ op \in Pulls => home[t] \in {answer[t].bytes, Nowhere}
       /\ exit[t] = 2 => ~Stored(t) /\ (op \notin Pulls => pc[t] = "idle")
       /\ exit[t] = 1 /\ Stored(t) =>
             answer[t].result = "error" \/ (op = "create" /\ answer[t].result = "saved")

TerminalInv(t) == PlaceInv(t) /\ SaidInv(t) /\ NumberInv(t) /\ CodeInv(t)
CliInv == IInv /\ CliDomains /\ \A t \in Terminals : TerminalInv(t)

-----------------------------------------------------------------------------

LEMMA CliInvariantImplies ==
    CliInv => FileAccessIsKept /\ AnswersNameWhatIsStored /\ ExitCodesAreTrue
<1> SUFFICES ASSUME CliInv PROVE ExitCodesAreTrue
  BY InvariantImplies DEF CliInv
<1>1. ASSUME NEW t \in Terminals PROVE CodeInv(t) /\ NumberIsTrue(t)
  BY DEF CliInv, TerminalInv, NumberInv
<1> QED
  BY <1>1 DEF ExitCodesAreTrue, CodeInv, NumberIsTrue

LEMMA CliInitHolds == CliInit => CliInv
<1> SUFFICES ASSUME CliInit PROVE CliInv
  OBVIOUS
<1>1. IInv
  BY InitHolds DEF CliInit
<1>2. CliDomains
  BY DEF CliInit, CliDomains, Tickets, Body
<1>3. ASSUME NEW t \in Terminals PROVE TerminalInv(t)
  BY CommandAssumption
  DEF CliInit, Init, NoAnswer, NoCode, Delivered, Texts, TerminalInv, PlaceInv, Incoming, SaidInv,
      NumberInv, NumberIsTrue, CodeInv, Wrote, NoCommand, Pulls
<1> QED
  BY <1>1, <1>2, <1>3 DEF CliInv

\* A step that is none of this terminal's: others may take its folder away,
\* and comment on the ticket.
Elsewhere(t) ==
    /\ pc'[t] = pc[t] /\ answer'[t] = answer[t] /\ command'[t] = command[t]
    /\ stage'[t] = stage[t] /\ exit'[t] = exit[t] /\ sent'[t] = sent[t] /\ number'[t] = number[t]
    /\ home'[t] \in {home[t], Nowhere}
Grown ==
    \A i \in DOMAIN ticket.comments :
        i \in DOMAIN ticket'.comments /\ ticket'.comments[i] = ticket.comments[i]
SameWrites(t) ==
    /\ \A s : s[1] = t => (s \in stored' <=> s \in stored)
    /\ \A w : w[1] = t => (w \in wrote' <=> w \in wrote)

LEMMA ElsewhereKeeps ==
    ASSUME NEW t \in Terminals, TerminalInv(t), Elsewhere(t), SameWrites(t), Grown
    PROVE  TerminalInv(t)'
<1>1. (Wrote(t)' <=> Wrote(t)) /\ (Stored(t)' <=> Stored(t))
  BY DEF SameWrites, Wrote, Stored
<1>2. PlaceInv(t)'
  BY <1>1 DEF TerminalInv, PlaceInv, Incoming, Elsewhere, Texts
<1>3. SaidInv(t)' /\ CodeInv(t)'
  BY <1>1 DEF TerminalInv, SaidInv, CodeInv, Elsewhere
<1>4. NumberInv(t)'
  BY DEF TerminalInv, NumberInv, NumberIsTrue, Elsewhere, SameWrites, Grown
<1> QED
  BY <1>2, <1>3, <1>4 DEF TerminalInv

\* What a step of the server does to its call.
Outgoing == {"fetch", "deliver", "write"}
Effect(c) ==
    /\ pc[c] \notin {"idle", "done", "ticket"} /\ pc'[c] \notin {"idle", "check", "ticket"}
    /\ pc'[c] \in Outgoing => pc[c] \in Outgoing \cup {"check"}
    /\ pc'[c] \in Incoming => pc[c] \in Incoming
    /\ answer'[c].result \notin {"saved", "body"}
    /\ answer'[c].result = "inline" => pc[c] = "deliver"
    /\ answer'[c].result = "stored" => pc[c] = "stored"

LEMMA ServeEffect == ASSUME NEW c \in Callers, IInv, Serve(c) PROVE Effect(c)
<1>1. Domains /\ (pc[c] # "done" => answer[c].result = "none")
  BY DEF IInv, CallInv, StoreInv
<1> USE DEF Goto, Finish, Refuse
<1>2. CASE read_input(c)
  BY <1>1, <1>2 DEF read_input, Fits, Hold, Domains, Effect, Outgoing, Incoming
<1>3. CASE validate_file_path(c)
  BY <1>1, <1>3 DEF validate_file_path, Domains, Effect, Outgoing, Incoming
<1>4. CASE read_bytes(c)
  BY <1>1, <1>4 DEF read_bytes, Hold, Domains, Effect, Outgoing, Incoming
<1>5. CASE put_attachment(c)
  BY <1>1, <1>5 DEF put_attachment, Domains, Effect, Outgoing, Incoming
<1>6. CASE tell(c)
  BY <1>1, <1>6 DEF tell, stored_name, Domains, Effect, Outgoing, Incoming
<1>7. CASE check_output_path(c)
  BY <1>1, <1>7 DEF check_output_path, MayBeWritten, Domains, Effect, Outgoing, Incoming
<1>8. CASE fetch(c)
  BY <1>1, <1>8 DEF fetch, Hold, Domains, Effect, Outgoing, Incoming
<1>9. CASE deliver_file(c)
  BY <1>1, <1>9 DEF deliver_file, MayBeWritten, Domains, Effect, Outgoing, Incoming
<1>10. CASE write_bytes(c)
  BY <1>1, <1>10 DEF write_bytes, Domains, Effect, Outgoing, Incoming
<1>11. CASE deliver_inline(c)
  BY <1>1, <1>11 DEF deliver_inline, Fits, Domains, Effect, Outgoing, Incoming
<1>12. CASE delete_attachment(c)
  BY <1>1, <1>12 DEF delete_attachment, Domains, Effect, Outgoing, Incoming
<1> QED
  BY <1>2, <1>3, <1>4, <1>5, <1>6, <1>7, <1>8, <1>9, <1>10, <1>11, <1>12 DEF Serve

LEMMA ServeKeepsTerminals ==
    ASSUME NEW c \in Callers, CliInv, Serve(c), UNCHANGED cliVars
    PROVE  CliInv'
<1>1. IInv' /\ CliDomains'
  BY ServeKeeps DEF CliInv, CliDomains, cliVars
<1>2. Alone(c) /\ Effect(c)
  BY ServeIsOwn, ServeEffect DEF CliInv
<1>3. ASSUME NEW t \in Terminals PROVE TerminalInv(t)'
  <2>0. TerminalInv(t) /\ t \in Callers
    BY CommandAssumption DEF CliInv
  <2>1. CASE t # c
    <3>1. Elsewhere(t)
      BY <1>2, <2>0, <2>1 DEF Alone, Elsewhere, cliVars
    <3>2. SameWrites(t)
      BY <1>2, <2>1 DEF Alone, SameWrites, cliVars
    <3> QED
      BY <2>0, <3>1, <3>2, ElsewhereKeeps DEF Grown, cliVars
  <2>2. CASE t = c
    <3>1. /\ exit[t] \notin {0, 1, 2, 4} /\ stage[t] \notin {"idle", "lock", "readback"}
          /\ ~Wrote(t)
      BY <1>2, <2>0, <2>2 DEF TerminalInv, PlaceInv, Incoming, SaidInv, Effect
    <3>2. ~Wrote(t)'
      BY <3>1 DEF Wrote, cliVars
    <3>3. PlaceInv(t)'
      BY <1>2, <2>0, <2>2, <3>1 DEF TerminalInv, PlaceInv, Effect, Outgoing, Incoming, cliVars
    <3>4. SaidInv(t)'
      BY <1>2, <2>0, <2>2, <3>2 DEF TerminalInv, PlaceInv, Incoming, SaidInv, Effect, Delivered, cliVars
    <3>5. NumberInv(t)' /\ CodeInv(t)'
      BY <2>0, <3>1 DEF TerminalInv, NumberInv, NumberIsTrue, CodeInv, cliVars
    <3> QED
      BY <3>3, <3>4, <3>5 DEF TerminalInv
  <2> QED
    BY <2>1, <2>2
<1> QED
  BY <1>1, <1>3 DEF CliInv

-----------------------------------------------------------------------------

\* A step of no terminal, and a step of one.
LEMMA NobodysStep ==
    ASSUME CliInv, IInv', CliDomains', Grown,
           \A u \in Terminals : Elsewhere(u) /\ SameWrites(u)
    PROVE  CliInv'
<1>1. ASSUME NEW u \in Terminals PROVE TerminalInv(u)'
  BY ElsewhereKeeps DEF CliInv
<1> QED
  BY <1>1 DEF CliInv

LEMMA TerminalStep ==
    ASSUME NEW t \in Terminals, CliInv, IInv', CliDomains', Grown, TerminalInv(t)',
           \A u \in Terminals \ {t} : Elsewhere(u) /\ SameWrites(u)
    PROVE  CliInv'
<1>1. ASSUME NEW u \in Terminals \ {t} PROVE TerminalInv(u)'
  BY ElsewhereKeeps DEF CliInv
<1> QED
  BY <1>1 DEF CliInv

LEMMA OtherKeepsTerminals == ASSUME CliInv, Other, UNCHANGED cliVars PROVE CliInv'
<1>1. IInv' /\ CliDomains' /\ Grown
  BY OtherKeeps DEF CliInv, CliDomains, Grown, cliVars
<1>2. ASSUME NEW u \in Terminals PROVE Elsewhere(u) /\ SameWrites(u)
  BY DEF Other, callVars, cliVars, Elsewhere, SameWrites
<1> QED
  BY <1>1, <1>2, NobodysStep

\* A change of the ticket.
LEMMA Commented ==
    ASSUME ticket \in Tickets, NEW x \in Body,
           ticket' = [ticket EXCEPT !.ts = @ + 1, !.comments = Append(@, x)]
    PROVE  /\ ticket' \in Tickets /\ Grown
           /\ Len(ticket'.comments) \in DOMAIN ticket'.comments
           /\ ticket'.comments[Len(ticket'.comments)] = x
<1> DEFINE s == ticket.comments
<1>1. s \in Seq(Body) /\ ticket'.comments = Append(s, x)
  BY DEF Tickets
<1>2. ticket' \in Tickets
  <2>1. ticket.ts + 1 \in Nat /\ ticket.description \in Body /\ Append(s, x) \in Seq(Body)
    BY <1>1 DEF Tickets
  <2>2. ticket' = [ts |-> ticket.ts + 1, description |-> ticket.description,
                   comments |-> Append(s, x)]
    BY DEF Tickets
  <2> QED
    BY <2>1, <2>2 DEF Tickets
<1>3. /\ Len(Append(s, x)) = Len(s) + 1 /\ DOMAIN Append(s, x) = 1 .. Len(s) + 1
      /\ DOMAIN s = 1 .. Len(s) /\ Append(s, x)[Len(s) + 1] = x /\ Len(s) \in Nat
      /\ \A i \in 1 .. Len(s) : Append(s, x)[i] = s[i]
  BY <1>1
<1> QED
  BY <1>1, <1>2, <1>3 DEF Grown

LEMMA Described ==
    ASSUME ticket \in Tickets, NEW x \in Body,
           ticket' = [ticket EXCEPT !.ts = @ + 1, !.description = x]
    PROVE  ticket' \in Tickets /\ Grown
<1>1. ticket'.comments = ticket.comments
  BY DEF Tickets
<1>2. ticket' \in Tickets
  <2>1. ticket.ts + 1 \in Nat /\ ticket.comments \in Seq(Body)
    BY DEF Tickets
  <2>2. ticket' = [ts |-> ticket.ts + 1, description |-> x, comments |-> ticket.comments]
    BY DEF Tickets
  <2> QED
    BY <2>1, <2>2 DEF Tickets
<1> QED
  BY <1>1, <1>2 DEF Grown

LEMMA OtherHereKeeps == ASSUME CliInv, OtherHere PROVE CliInv'
<1>1. UNCHANGED <<mode, disk, folders, attached, foldersWas, callVars, touched, stored, fetched>>
  BY DEF OtherHere
<1>2. IInv'
  BY <1>1 DEF CliInv, callVars, IInv, Domains, SharedInv, CallInv, FileInv, StoreInv, MovedBy,
              SmallBy, NamedBy, NothingStoredBy, stored_name, Wanted
<1>3. CliDomains' /\ Grown
  <2>1. \/ ticket' = ticket
        \/ \E x \in Contents : ticket' = [ticket EXCEPT !.ts = @ + 1, !.description = x]
        \/ \E x \in Contents :
              ticket' = [ticket EXCEPT !.ts = @ + 1, !.comments = Append(@, x)]
    BY DEF OtherHere
  <2>2. DOMAIN home' = Terminals
    BY DEF OtherHere, CliInv, CliDomains
  <2>3. ticket' \in Tickets /\ Grown
    BY <2>1, Commented, Described DEF CliInv, CliDomains, Grown, Body
  <2> QED
    BY <2>2, <2>3 DEF OtherHere, localVars, CliInv, CliDomains
<1>4. ASSUME NEW u \in Terminals PROVE Elsewhere(u) /\ SameWrites(u)
  BY <1>1 DEF OtherHere, localVars, callVars, Elsewhere, SameWrites, CliInv, CliDomains
<1> QED
  BY <1>2, <1>3, <1>4, NobodysStep

LEMMA CallKeepsTerminals ==
    ASSUME NEW c \in Callers \ Terminals, CliInv, Call(c), UNCHANGED cliVars
    PROVE  CliInv'
<1>1. IInv' /\ CliDomains' /\ Grown
  BY CallKeeps DEF CliInv, CliDomains, Grown, cliVars
<1>2. ASSUME NEW u \in Terminals PROVE Elsewhere(u) /\ SameWrites(u)
  BY CommandAssumption DEF Call, Goto, cliVars, Elsewhere, SameWrites, CliInv, IInv, Domains
<1> QED
  BY <1>1, <1>2, NobodysStep

\* A step of the client alone.
LEMMA ClientStep ==
    ASSUME NEW t \in Terminals, CliInv, UNCHANGED <<vars, ticket, wrote>>, CliDomains',
           \A u \in Terminals \ {t} : Elsewhere(u),
           PlaceInv(t)', command' = command, number'[t] = number[t] \/ NumberIsTrue(t)',
           sent' = sent, CodeInv(t)'
    PROVE  CliInv'
<1>1. IInv' /\ Grown
  BY StutterKeeps DEF CliInv, Grown
<1>2. \A u \in Terminals : SameWrites(u)
  BY DEF SameWrites, vars
<1>3. SaidInv(t)'
  BY DEF CliInv, TerminalInv, SaidInv, Wrote, vars, callVars
<1>4. NumberInv(t)'
  BY DEF CliInv, TerminalInv, NumberInv, NumberIsTrue
<1> QED
  BY <1>1, <1>2, <1>3, <1>4, TerminalStep DEF TerminalInv

LEMMA CutKeeps == ASSUME NEW t \in Terminals, CliInv, Cut(t) PROVE CliInv'
<1>1. CliDomains' /\ \A u \in Terminals \ {t} : Elsewhere(u)
  BY DEF Cut, Exit, CliInv, CliDomains, Elsewhere, vars, callVars
<1>2. PlaceInv(t)' /\ CodeInv(t)'
  BY DEF Cut, Exit, CliInv, CliDomains, TerminalInv, PlaceInv, Incoming, CodeInv, vars, callVars, Wrote
<1> QED
  BY <1>1, <1>2, ClientStep DEF Cut

\* What the answer means, once the call is over.
LEMMA OverMeans ==
    ASSUME NEW t \in Terminals, CliInv, Over(t)
    PROVE  /\ answer[t].result \in Kept => Stored(t)
           /\ answer[t].result \notin Kept \cup {"error"} => ~Stored(t)
           /\ answer[t].result \in Delivered => command[t].op \in Pulls
           /\ pc[t] = "done" /\ stage[t] = "called" /\ sent[t] \in Texts
<1>1. t \in Callers /\ CallInv(t) /\ TerminalInv(t)
  BY CommandAssumption DEF CliInv, IInv
<1>2. answer[t].result = "stored" => \E s \in stored : s[1] = t
  BY <1>1 DEF CallInv, NamedBy
<1>3. answer[t].result \notin Kept \cup {"error"} => NothingStoredBy(t) /\ ~Wrote(t)
  BY <1>1 DEF CallInv, StoreInv, NamedBy, Over, TerminalInv, SaidInv, Kept
<1> QED
  BY <1>1, <1>2, <1>3
  DEF TerminalInv, PlaceInv, Incoming, SaidInv, Kept, Delivered, Over, Stored, Wrote, NothingStoredBy

LEMMA ReportKeeps == ASSUME NEW t \in Terminals, CliInv, report(t) PROVE CliInv'
<1> USE DEF report, Exit
<1>1. CliDomains' /\ \A u \in Terminals \ {t} : Elsewhere(u)
  BY DEF CliInv, CliDomains, Elsewhere, vars, callVars
<1>2. pc[t] = "done" /\ sent[t] \in Texts /\ (answer[t].result # "error" => ~Stored(t))
  BY OverMeans
<1>3. PlaceInv(t)'
  BY <1>2 DEF CliInv, CliDomains, PlaceInv, Incoming, vars, callVars
<1>4. CodeInv(t)'
  BY <1>2 DEF CliInv, CliDomains, CodeInv, Stored, vars, callVars
<1> QED
  BY <1>1, <1>3, <1>4, ClientStep

LEMMA ToldStoredKeeps == ASSUME NEW t \in Terminals, CliInv, told_stored(t) PROVE CliInv'
<1> USE DEF Exit, At
<1>1. CliDomains' /\ \A u \in Terminals \ {t} : Elsewhere(u)
  BY DEF told_stored, CliInv, CliDomains, Elsewhere, vars, callVars
<1>2. Stored(t) /\ pc[t] = "done" /\ sent[t] \in Texts /\ stage[t] = "called"
  BY OverMeans DEF told_stored
<1>3. /\ TerminalInv(t) /\ command[t].op \notin Pulls
      /\ command[t].op \in TicketWrites => Wrote(t) /\ answer[t].result = "saved"
  BY DEF told_stored, Kept, TicketWrites, Uploads, Pulls, CliInv, TerminalInv, SaidInv
<1>4. PlaceInv(t)'
  BY <1>2, <1>3 DEF told_stored, CliInv, CliDomains, TerminalInv, PlaceInv, Incoming, Wrote, NoCode,
                    TicketWrites, EXIT_STORED_INCOMPLETE, vars, callVars
<1>5. CodeInv(t)'
  <2>1. exit'[t] \in {0, 1, 4, NoCode} /\ (exit'[t] = 1 => command[t].op = "create")
    BY <1>2, <1>3 DEF told_stored, CliInv, CliDomains, EXIT_STORED_INCOMPLETE, TerminalInv, PlaceInv
  <2>2. command' = command /\ answer' = answer /\ home' = home /\ Stored(t)'
    BY <1>2 DEF told_stored, Stored, vars, callVars
  <2> QED
    BY <1>3, <2>1, <2>2 DEF CodeInv, TicketWrites, NoCode
<1>6. number'[t] = number[t] \/ NumberIsTrue(t)'
  <2>1. ASSUME NEW w \in wrote, w[1] = t, number' = [number EXCEPT ![t] = w[2]],
               command[t].op = "comment"
        PROVE  NumberIsTrue(t)'
    <3>1. number'[t] = w[2] /\ w[2] \in DOMAIN ticket.comments /\ ticket.comments[w[2]] = sent[t]
      BY <1>3, <2>1 DEF CliInv, CliDomains, TerminalInv, NumberInv
    <3>2. w[2] <= w[2]
      BY <3>1 DEF CliInv, CliDomains, Tickets
    <3> QED
      BY <1>2, <2>1, <3>1, <3>2, CommandAssumption DEF NumberIsTrue, Texts, told_stored
  <2> QED
    BY <2>1 DEF told_stored
<1>7. command' = command /\ sent' = sent /\ UNCHANGED <<vars, ticket, wrote>>
  BY DEF told_stored
<1> QED
  BY <1>1, <1>4, <1>5, <1>6, <1>7, ClientStep

LEMMA CommentNumberKeeps == ASSUME NEW t \in Terminals, CliInv, comment_number(t) PROVE CliInv'
<1> USE DEF comment_number, Exit
<1>1. CliDomains' /\ \A u \in Terminals \ {t} : Elsewhere(u)
  BY DEF CliInv, CliDomains, Elsewhere, vars, callVars
<1>2. /\ pc[t] = "done" /\ command[t].op = "comment" /\ Wrote(t) /\ sent[t] \in Texts
      /\ \A w \in wrote : w[1] = t =>
            w[2] \in DOMAIN ticket.comments /\ ticket.comments[w[2]] = sent[t]
  BY DEF CliInv, TerminalInv, PlaceInv, Incoming, NumberInv
<1>3. PlaceInv(t)'
  BY <1>2 DEF CliInv, CliDomains, PlaceInv, Incoming, Wrote, EXIT_STORED_INCOMPLETE, vars, callVars
<1>4. CodeInv(t)'
  <2>1. exit'[t] \in {0, 4}
    BY DEF CliInv, CliDomains, EXIT_STORED_INCOMPLETE
  <2>2. Stored(t)' /\ command'[t].op \notin Pulls
    BY <1>2 DEF Stored, Wrote, Pulls, vars
  <2> QED
    BY <2>1, <2>2 DEF CodeInv
<1>5. number'[t] = number[t] \/ NumberIsTrue(t)'
  <2>1. ASSUME NEW i \in OwnComment(t), \A j \in OwnComment(t) : j <= i,
               number' = [number EXCEPT ![t] = i]
        PROVE  NumberIsTrue(t)'
    <3>1. PICK w \in wrote : w[1] = t
      BY <1>2 DEF Wrote
    <3>2. w[2] \in OwnComment(t)
      BY <1>2, <3>1, CommandAssumption DEF OwnComment, Texts
    <3>3. number'[t] = i /\ i \in DOMAIN ticket.comments
          /\ <<ticket.comments[i], sent[t]>> \in Tails
      BY <2>1 DEF OwnComment, CliInv, CliDomains
    <3> QED
      BY <2>1, <3>1, <3>2, <3>3 DEF NumberIsTrue
  <2> QED
    BY <2>1
<1> QED
  BY <1>1, <1>3, <1>4, <1>5, ClientStep

LEMMA SaveKeeps == ASSUME NEW t \in Terminals, CliInv, save(t) PROVE CliInv'
<1> USE DEF save, Exit
<1>1. CliDomains' /\ \A u \in Terminals \ {t} : Elsewhere(u)
  BY DEF CliInv, CliDomains, Elsewhere, vars, callVars
<1>2. /\ pc[t] = "done" /\ sent[t] \in Texts /\ ~Stored(t)
      /\ command[t].op \in Pulls
  BY OverMeans DEF Kept, Delivered
<1>3. PlaceInv(t)'
  BY <1>2 DEF CliInv, CliDomains, PlaceInv, Incoming, vars, callVars
<1>4. CodeInv(t)'
  BY <1>2 DEF CliInv, CliDomains, CodeInv, Stored, vars, callVars
<1> QED
  BY <1>1, <1>3, <1>4, ClientStep

\* A command that begins, or goes on to write: the server knows nothing of it.
LEMMA BeforeTheCall ==
    ASSUME NEW t \in Terminals, CliInv, pc[t] = "idle"
    PROVE  /\ ~Stored(t) /\ ~Wrote(t) /\ number[t] = 0 /\ answer[t].result = "none"
           /\ TerminalInv(t)
<1>1. t \in Callers /\ CallInv(t) /\ TerminalInv(t)
  BY CommandAssumption DEF CliInv, IInv
<1>2. NothingStoredBy(t) /\ answer[t].result = "none"
  BY <1>1 DEF CallInv, StoreInv, Silent
<1>3. ~Wrote(t)
  BY <1>1 DEF TerminalInv, SaidInv
<1>4. number[t] = 0
  BY <1>1, <1>3 DEF TerminalInv, NumberInv, NumberIsTrue, Wrote
<1> QED
  BY <1>1, <1>2, <1>3, <1>4 DEF Stored, Wrote, NothingStoredBy

LEMMA BeginStep ==
    ASSUME NEW t \in Terminals, CliInv, pc[t] = "idle", IInv', CliDomains',
           UNCHANGED <<answer, stored, home, number, ticket, wrote>>,
           \A u \in Terminals \ {t} : Elsewhere(u),
           PlaceInv(t)', exit'[t] \in {1, 2, 3, NoCode}, exit'[t] = 2 => pc'[t] = "idle"
    PROVE  CliInv'
<1>1. ~Stored(t) /\ ~Wrote(t) /\ number[t] = 0 /\ answer[t].result = "none"
  BY BeforeTheCall
<1>2. SaidInv(t)' /\ CodeInv(t)'
  <2>1. ~Stored(t)' /\ ~Wrote(t)' /\ answer'[t].result = "none"
    BY <1>1 DEF Stored, Wrote
  <2> QED
    BY <2>1 DEF SaidInv, CodeInv, Delivered, NoCode
<1>3. NumberInv(t)'
  BY <1>1 DEF NumberInv, NumberIsTrue, Wrote
<1> QED
  BY <1>2, <1>3, TerminalStep DEF TerminalInv, Grown, SameWrites

LEMMA StartKeeps == ASSUME NEW t \in Terminals, CliInv, Start(t) PROVE CliInv'
<1> USE DEF Exit, At, Goto
<1>1. PICK r \in Commands : Start(t)!2!(r)
  BY DEF Start
<1>2. /\ UNCHANGED <<mode, world, bytes, reply, answer, touched, stored, fetched,
                     home, number, ticket, created, wrote>>
      /\ stage[t] = "idle" /\ pc[t] = "idle" /\ exit[t] = NoCode /\ home[t] \in Texts
      /\ t \in Callers
  BY CommandAssumption DEF Start, CliInv, TerminalInv, PlaceInv, Incoming
<1>3. CliDomains' /\ \A u \in Terminals \ {t} : Elsewhere(u)
  BY <1>1, <1>2, CommandAssumption DEF CliInv, CliDomains, IInv, Domains, Elsewhere
<1>4. IInv'
  <2>1. CASE pc' = pc /\ request' = request
    BY <1>2, <2>1, StutterKeeps DEF CliInv, vars, callVars
  <2>2. CASE pc' # pc \/ request' # request
    <3>1. pc'[t] \in {"input", "check", "ticket"}
      BY <1>1, <1>2, <2>2 DEF CliInv, IInv, Domains
    <3>2. Domains' /\ SharedInv' /\ Alone(t)
      BY <1>1, <1>2 DEF CliInv, IInv, Domains, SharedInv, Alone, world
    <3> QED
      BY <1>2, <3>1, <3>2, BeginKeeps DEF CliInv
  <2> QED
    BY <2>1, <2>2
<1>5. exit'[t] \in {2, 3, NoCode} /\ (exit'[t] = 2 => pc'[t] = "idle")
  BY <1>1, <1>2 DEF CliInv, CliDomains, NoCode
<1>6. PlaceInv(t)'
  BY <1>1, <1>2, BeforeTheCall
  DEF CliInv, CliDomains, IInv, Domains, PlaceInv, Incoming, NoCode, Uploads, Downloads, Pulls, TicketWrites
<1> QED
  BY <1>2, <1>3, <1>4, <1>5, <1>6, BeginStep

LEMMA LockKeeps == ASSUME NEW t \in Terminals, CliInv, lock_token(t) PROVE CliInv'
<1> USE DEF lock_token, Exit, At, Goto
<1>1. stage[t] = "lock" /\ pc[t] = "idle" /\ sent[t] \in Texts /\ t \in Callers /\ exit[t] = NoCode
  BY CommandAssumption DEF CliInv, TerminalInv, PlaceInv, Incoming
<1>2. CliDomains' /\ \A u \in Terminals \ {t} : Elsewhere(u)
  BY <1>1, CommandAssumption DEF CliInv, CliDomains, IInv, Domains, Elsewhere
<1>3. IInv'
  <2>1. CASE pc' = pc
    BY <2>1, StutterKeeps DEF CliInv, vars, callVars
  <2>2. CASE pc' # pc
    <3>1. pc'[t] = "ticket"
      BY <1>1, <2>2 DEF CliInv, IInv, Domains
    <3>2. Domains' /\ SharedInv' /\ Alone(t)
      BY <1>1 DEF CliInv, IInv, Domains, SharedInv, Alone, world
    <3> QED
      BY <1>1, <3>1, <3>2, BeginKeeps DEF CliInv
  <2> QED
    BY <2>1, <2>2
<1>4. exit'[t] \in {1, 3, NoCode}
  BY <1>1 DEF CliInv, CliDomains
<1>5. PlaceInv(t)'
  BY <1>1, BeforeTheCall DEF CliInv, CliDomains, IInv, Domains, PlaceInv, Incoming, NoCode
<1> QED
  BY <1>1, <1>2, <1>3, <1>4, <1>5, BeginStep DEF NoCode

LEMMA TicketWriteKeeps == ASSUME NEW t \in Terminals, CliInv, ticket_write(t) PROVE CliInv'
<1> USE DEF Answered, Goto
<1>1. /\ pc[t] = "ticket" /\ command[t].op \in TicketWrites /\ t \in Callers
      /\ UNCHANGED <<mode, world, request, bytes, reply, touched, stored, fetched, home, localVars>>
  BY CommandAssumption DEF ticket_write
<1>2. /\ TerminalInv(t) /\ stage[t] \notin {"idle", "lock", "readback"} /\ ~Wrote(t)
      /\ exit[t] \notin {0, 1, 2, 4} /\ sent[t] \in Texts /\ number[t] = 0
  BY <1>1 DEF CliInv, TerminalInv, PlaceInv, Incoming, SaidInv, NumberInv, NumberIsTrue, Wrote
<1>3. /\ pc'[t] = "done" /\ answer'[t].result \in {"refused", "error", "saved"}
      /\ \A u \in Callers \ {t} : pc'[u] = pc[u] /\ answer'[u] = answer[u]
  BY <1>1 DEF ticket_write, CliInv, IInv, Domains
<1>4. IInv'
  <2>1. Domains' /\ SharedInv' /\ Alone(t)
    BY <1>1, <1>3 DEF ticket_write, CliInv, IInv, Domains, SharedInv, Alone, world
  <2>2. NothingStoredBy(t)' /\ SmallBy(t)'
    BY <1>1, QuietStep DEF CliInv, Silent
  <2>3. FileInv(t)' /\ Ends(t) /\ Paid(t)'
    BY <1>1, <1>3, EndedFileInv DEF Silent, Ends, Paid, CliInv, IInv, CallInv, MovedBy, world
  <2> QED
    BY <1>1, <2>1, <2>2, <2>3, Outcome, OwnStep DEF CallInv, CliInv, Silent
<1>5. ticket' \in Tickets /\ Grown
  BY <1>1, <1>2, Commented, Described
  DEF ticket_write, Changed, CliInv, CliDomains, Body, Grown
<1>6. CliDomains'
  BY <1>1, <1>5 DEF CliInv, CliDomains, localVars
<1>7. ASSUME NEW u \in Terminals \ {t} PROVE Elsewhere(u) /\ SameWrites(u)
  BY <1>1, <1>3, CommandAssumption DEF ticket_write, Elsewhere, SameWrites, localVars
<1>8. PlaceInv(t)' /\ CodeInv(t)'
  BY <1>1, <1>2, <1>3 DEF TerminalInv, PlaceInv, Incoming, CodeInv, localVars
<1>9. SaidInv(t)'
  <2>1. CASE wrote' = wrote /\ answer'[t].result \in {"refused", "error"}
    BY <1>2, <1>3, <2>1 DEF SaidInv, Wrote, Delivered
  <2>2. CASE /\ <<t, Len(ticket'.comments)>> \in wrote'
             /\ answer'[t].result \in {"error", "saved"}
    <3>1. Wrote(t)'
      BY <2>2 DEF Wrote
    <3> QED
      BY <1>1, <1>3, <2>2, <3>1 DEF SaidInv, Delivered, localVars
  <2>3. t \in DOMAIN answer
    BY <1>1 DEF CliInv, IInv, Domains
  <2>4. ASSUME NEW result, NEW data, Answered(t, result, Void, data)
        PROVE  answer'[t].result = result
    BY <2>3, <2>4
  <2>5. CASE wrote' = wrote /\ \E result \in {"refused", "error"} : Answered(t, result, Void, Void)
    <3>1. PICK result \in {"refused", "error"} : Answered(t, result, Void, Void)
      BY <2>5
    <3>2. answer'[t].result = result
      BY <2>4, <3>1
    <3> QED
      BY <2>1, <2>5, <3>2
  <2>6. CASE /\ wrote' = wrote \cup {<<t, Len(ticket'.comments)>>}
             /\ \E result \in {"saved", "error"} : Answered(t, result, Void, sent[t])
    <3>1. PICK result \in {"saved", "error"} : Answered(t, result, Void, sent[t])
      BY <2>6
    <3>2. answer'[t].result = result
      BY <2>4, <3>1
    <3> QED
      BY <2>2, <2>6, <3>2
  <2> QED
    BY <2>5, <2>6 DEF ticket_write
<1>10. NumberInv(t)'
  <2>1. ASSUME NEW w \in wrote', w[1] = t, command'[t].op = "comment"
        PROVE  w[2] \in DOMAIN ticket'.comments /\ ticket'.comments[w[2]] = sent'[t]
    <3>1. w = <<t, Len(ticket'.comments)>> /\ ticket' = Changed(t) /\ command' = command /\ sent' = sent
      BY <1>1, <1>2, <2>1 DEF ticket_write, Wrote, localVars
    <3>2. ticket' = [ticket EXCEPT !.ts = @ + 1, !.comments = Append(@, sent[t])]
      BY <2>1, <3>1 DEF Changed
    <3> QED
      BY <1>2, <3>1, <3>2, Commented DEF CliInv, CliDomains, Body
  <2> QED
    BY <1>1, <1>2, <2>1 DEF NumberInv, NumberIsTrue, localVars
<1> QED
  BY <1>4, <1>5, <1>6, <1>7, <1>8, <1>9, <1>10, TerminalStep DEF TerminalInv

LEMMA TicketReadKeeps == ASSUME NEW t \in Terminals, CliInv, ticket_read(t) PROVE CliInv'
<1> USE DEF Answered, Goto
<1>1. /\ pc[t] = "ticket" /\ command[t].op = "body" /\ t \in Callers
      /\ UNCHANGED <<mode, world, request, bytes, reply, touched, stored, fetched, cliVars>>
  BY CommandAssumption DEF ticket_read
<1>2. /\ TerminalInv(t) /\ stage[t] \notin {"idle", "lock", "readback"} /\ ~Wrote(t)
      /\ exit[t] \notin {0, 1, 2, 4} /\ sent[t] \in Texts
  BY <1>1 DEF CliInv, TerminalInv, PlaceInv, Incoming, SaidInv
<1>3. /\ pc'[t] = "done" /\ answer'[t].result \in {"body", "error"}
      /\ \A u \in Callers \ {t} : pc'[u] = pc[u] /\ answer'[u] = answer[u]
  BY <1>1 DEF ticket_read, CliInv, IInv, Domains
<1>4. IInv'
  <2>1. Domains' /\ SharedInv' /\ Alone(t)
    BY <1>1, <1>3 DEF ticket_read, CliInv, IInv, Domains, SharedInv, Alone, world
  <2>2. NothingStoredBy(t)' /\ SmallBy(t)'
    BY <1>1, QuietStep DEF CliInv, Silent
  <2>3. FileInv(t)' /\ Ends(t) /\ Paid(t)'
    BY <1>1, <1>3, EndedFileInv DEF Silent, Ends, Paid, CliInv, IInv, CallInv, MovedBy, world
  <2> QED
    BY <1>1, <2>1, <2>2, <2>3, Outcome, OwnStep DEF CallInv, CliInv, Silent
<1>5. CliDomains' /\ Grown
  BY <1>1 DEF CliInv, CliDomains, Grown, cliVars
<1>6. ASSUME NEW u \in Terminals \ {t} PROVE Elsewhere(u) /\ SameWrites(u)
  BY <1>1, <1>3, CommandAssumption DEF Elsewhere, SameWrites, cliVars
<1>7. PlaceInv(t)' /\ CodeInv(t)' /\ NumberInv(t)'
  BY <1>1, <1>2, <1>3 DEF TerminalInv, PlaceInv, Incoming, CodeInv, NumberInv, NumberIsTrue, cliVars
<1>8. SaidInv(t)'
  BY <1>1, <1>2, <1>3 DEF SaidInv, Wrote, Delivered, Pulls, cliVars
<1> QED
  BY <1>4, <1>5, <1>6, <1>7, <1>8, TerminalStep DEF TerminalInv

-----------------------------------------------------------------------------

LEMMA CliInvariant == CliSpec => []CliInv
<1>1. CliInv /\ UNCHANGED cliSpecVars => CliInv'
  <2> SUFFICES ASSUME CliInv, UNCHANGED cliSpecVars PROVE CliInv'
    OBVIOUS
  <2>1. IInv' /\ CliDomains' /\ Grown
    BY StutterKeeps DEF cliSpecVars, cliVars, CliInv, CliDomains, Grown
  <2>2. ASSUME NEW u \in Terminals PROVE Elsewhere(u) /\ SameWrites(u)
    BY DEF cliSpecVars, cliVars, vars, callVars, Elsewhere, SameWrites
  <2> QED
    BY <2>1, <2>2, NobodysStep
<1>2. CliInv /\ CliNext => CliInv'
  BY OtherKeepsTerminals, OtherHereKeeps, CallKeepsTerminals, ServeKeepsTerminals, StartKeeps,
     LockKeeps, TicketWriteKeeps, TicketReadKeeps, CutKeeps, ReportKeeps, ToldStoredKeeps,
     CommentNumberKeeps, SaveKeeps DEF CliNext
<1> QED
  BY CliInitHolds, <1>1, <1>2, PTL DEF CliSpec

\* With any number of terminals beside any number of callers, file_access is
\* kept and the names the server tells are those it stored under.
THEOREM ServerKeepsItsWord == CliSpec => []FileAccessIsKept /\ []AnswersNameWhatIsStored
  BY CliInvariant, CliInvariantImplies, PTL

\* A script may go by the exit code of every command, wherever the call is cut
\* and whoever changes the ticket or the local disk meanwhile; but 1 may follow
\* a stored write if the reply to it was lost between the server and Trac, or
\* if the answer to a create gave no number (EXIT_STORED_INCOMPLETE,
\* _comment_number).
THEOREM ExitCodesTrue == CliSpec => []ExitCodesAreTrue
  BY CliInvariant, CliInvariantImplies, PTL

===============================================================================
