---------------------------- MODULE FacesProofs ----------------------------
(***************************************************************************)
(* Proofs about Faces: the register of faces and the tasks of the cameras, *)
(* for any number of cameras, photos, requests and frames.                 *)
(***************************************************************************)
EXTENDS Faces, Descent, SequenceTheorems, TLAPS

(* The elements of what has a type have theirs.                            *)
LEMMA KnownFacesAre ==
    ASSUME NEW s \in Seq(KnownFaces)
    PROVE  Len(s) \in Nat /\ \A i \in DOMAIN s : s[i].id \in Nat /\ s[i].face \in Files
<1>1. \A i \in DOMAIN s : s[i] \in KnownFaces
    OBVIOUS
<1> QED
    BY <1>1 DEF KnownFaces

LEMMA FramesAre ==
    ASSUME TaskTypeOK, NEW c \in Cams
    PROVE  /\ frames \in Nat /\ faceBoxes[c] \in Nat
           /\ tasksTotal[c] \in Nat
           /\ task[c] \in FaceTasks /\ task[c].frame \in Nat
           /\ tasks[c] \in Seq(FrameNumbers) /\ Len(tasks[c]) \in Nat
           /\ \A i \in DOMAIN tasks[c] : tasks[c][i] \in Nat
<1>1. task[c] \in FaceTasks /\ tasks[c] \in Seq(FrameNumbers)
    BY DEF TaskTypeOK
<1>2. FrameNumbers \subseteq Nat
    BY AddsAssumption DEF FrameNumbers
<1>3. \A i \in DOMAIN tasks[c] : tasks[c][i] \in FrameNumbers
    BY <1>1
<1>4. task[c].frame \in Nat
    BY <1>1, <1>2 DEF FaceTasks
<1>5. \A i \in DOMAIN tasks[c] : tasks[c][i] \in Nat
    BY <1>2, <1>3
<1>6. frames \in Nat /\ faceBoxes[c] \in Nat /\ tasksTotal[c] \in Nat
    BY <1>2 DEF TaskTypeOK
<1> QED
    BY <1>1, <1>4, <1>5, <1>6

LEMMA InitEstablishes == Init => FacesInv
<1> SUFFICES ASSUME Init
             PROVE  FacesInv
    OBVIOUS
<1>1. TypeOK
    <2>1. InitTypeOK
        <3>1. status \in BOOLEAN /\ initEnd \in BOOLEAN
            BY DEF Init
        <3>2. adds \in 0..MaxAdds
            BY AddsAssumption DEF Init
        <3> QED
            BY <3>1, <3>2 DEF Init, InitTypeOK
    <2>2. RegisterTypeOK
        <3>1. mixed \in BOOLEAN /\ crashed \in BOOLEAN
            BY DEF Init
        <3>2. \A t \in Threads : reg[t] = Idle
            BY DEF Init
        <3>3. reg \in [Threads -> Registrations]
            BY DEF Init, Registrations, RegStages, Idle
        <3> QED
            BY <3>1, <3>2, <3>3 DEF Init, RegisterTypeOK, Idle
    <2>3. TaskTypeOK
        BY AddsAssumption DEF Init, TaskTypeOK, FaceTasks, TaskStages, FrameNumbers
    <2> QED
        BY <2>1, <2>2, <2>3 DEF TypeOK
<1>2. LockReturns /\ InitInOrder
    BY NoneAssumption DEF Init, LockReturns, InitInOrder, Threads, Idle
<1>3. FilesListed /\ IdsBelow
    BY DEF Init, FilesListed, IdsBelow
<1>4. TasksCounted /\ TasksInOrder
    BY DEF Init, TasksCounted, TasksInOrder
<1> QED
    BY <1>1, <1>2, <1>3, <1>4 DEF FacesInv

(* What a camera and its tasks rest on, when neither moves.                *)
LEMMA TasksRest ==
    ASSUME FacesInv, UNCHANGED <<cam, poolVars, taskVars>>
    PROVE  TaskTypeOK' /\ LockReturns' /\ TasksCounted' /\ TasksInOrder'
<1> USE DEF FacesInv, poolVars, taskVars
<1>1. TaskTypeOK'
    BY DEF TypeOK, TaskTypeOK
<1>2. LockReturns'
    BY DEF LockReturns
<1>3. TasksCounted'
    BY DEF TasksCounted
<1>4. TasksInOrder'
    BY DEF TasksInOrder
<1> QED
    BY <1>1, <1>2, <1>3, <1>4

(* What the register rests on, when neither thread moves.                  *)
LEMMA RegisterRests ==
    ASSUME FacesInv, UNCHANGED <<dir, initVars, addVars, engineVars, crashed>>
    PROVE  InitTypeOK' /\ RegisterTypeOK' /\ FilesListed' /\ IdsBelow'
<1> USE DEF FacesInv, initVars, addVars, engineVars
<1>1. InitTypeOK'
    BY DEF TypeOK, InitTypeOK
<1>2. RegisterTypeOK'
    BY DEF TypeOK, RegisterTypeOK
<1>3. FilesListed'
    BY DEF FilesListed, Enrolled
<1>4. IdsBelow'
    BY DEF IdsBelow
<1> QED
    BY <1>1, <1>2, <1>3, <1>4

----------------------------------------------------------------------------
(* registerSingle.                                                         *)

LEMMA Others ==
    \A t \in Threads : Other(t) \in Threads \ {t} /\ \A u \in Threads : u = t \/ u = Other(t)
<1>1. Other("init") = "http" /\ Other("http") = "init"
    BY DEF Other, Threads
<1> QED
    BY <1>1 DEF Threads

(* One thread's registration changes, the other's does not.                *)
LEMMA RegChanges ==
    ASSUME reg \in [Threads -> Registrations], NEW t \in Threads, NEW r \in Registrations,
           reg' = [reg EXCEPT ![t] = r]
    PROVE  /\ reg' \in [Threads -> Registrations]
           /\ reg'[t] = r /\ \A u \in Threads \ {t} : reg'[u] = reg[u]
    OBVIOUS

LEMMA AtChanges ==
    ASSUME reg \in [Threads -> Registrations], NEW t \in Threads, NEW at \in RegStages, At(t, at)
    PROVE  /\ reg' \in [Threads -> Registrations]
           /\ reg'[t].at = at /\ reg'[t].file = reg[t].file /\ reg'[t].read = reg[t].read
           /\ \A u \in Threads \ {t} : reg'[u] = reg[u]
    BY DEF At, Registrations

LEMMA IdleIs ==
    Idle \in Registrations /\ Idle.at = "out"
    BY DEF Idle, Registrations, RegStages

LEMMA Returned ==
    ASSUME reg \in [Threads -> Registrations], NEW t \in Threads, Returns(t)
    PROVE  /\ reg' \in [Threads -> Registrations]
           /\ reg'[t].at = "out" /\ \A u \in Threads \ {t} : reg'[u] = reg[u]
    BY RegChanges, IdleIs DEF Returns

(* The flags of Init while a thread registers.                             *)
LEMMA InitRests ==
    ASSUME FacesInv, NEW t \in Threads, reg[t].at # "out",
           \A u \in Threads \ {t} : reg'[u] = reg[u],
           UNCHANGED <<initVars, addVars, taskVars>>
    PROVE  InitInOrder'
    BY DEF FacesInv, InitInOrder, initVars, addVars, taskVars, Threads

LEMMA TypesRest ==
    ASSUME InitTypeOK, UNCHANGED <<dir, initVars, addVars>>
    PROVE  InitTypeOK'
    BY DEF InitTypeOK, initVars, addVars

LEMMA LoadKeeps ==
    ASSUME FacesInv, NEW t \in Threads, Load(t)
    PROVE  FacesInv'
<1> USE DEF FacesInv, TypeOK
<1>1. /\ dir[reg[t].file] \in {"none", "part", "full"}
      /\ reg \in [Threads -> Registrations] /\ reg[t].file \in Files
    BY DEF Load, InitTypeOK, RegisterTypeOK
<1> DEFINE r == [reg[t] EXCEPT !.at = "detect", !.read = dir[reg[t].file]]
<1>2. r \in Registrations /\ r.at = "detect" /\ r.file = reg[t].file /\ r.read = dir[reg[t].file]
    BY <1>1 DEF Registrations, RegStages
<1>3. \/ reg' = [reg EXCEPT ![t] = r]
      \/ reg' = [reg EXCEPT ![t] = Idle] /\ dir[reg[t].file] # "full"
    BY <1>1 DEF Load, Registrations
<1> HIDE DEF r
<1>4. /\ reg' \in [Threads -> Registrations] /\ \A u \in Threads \ {t} : reg'[u] = reg[u]
      /\ \/ reg'[t] = r
         \/ reg'[t] = Idle /\ dir[reg[t].file] # "full"
    BY <1>1, <1>2, <1>3, RegChanges, IdleIs
<1>5. RegisterTypeOK'
    BY <1>1, <1>2, <1>4, IdleIs DEF Load, RegisterTypeOK
<1>6. FilesListed'
    BY <1>1, <1>2, <1>4 DEF Load, FilesListed, Enrolled, initVars
<1>7. IdsBelow'
    BY <1>2, <1>4 DEF Load, IdsBelow
<1> QED
    BY <1>4, <1>5, <1>6, <1>7, TasksRest, InitRests, TypesRest DEF Load

LEMMA DetectKeeps ==
    ASSUME FacesInv, NEW t \in Threads, Detect(t) \/ DetectUnready(t)
    PROVE  FacesInv'
<1> USE DEF FacesInv, TypeOK
<1>1. reg \in [Threads -> Registrations] /\ reg[t].file \in Files /\ reg[t].at = "detect"
    BY DEF Detect, DetectUnready, RegisterTypeOK
<1>2. /\ \/ At(t, "enrol") /\ refused' = refused
         \/ Returns(t) /\ Refuses(t)
         \/ Returns(t) /\ refused' = refused /\ ~status
      /\ UNCHANGED <<dir, initVars, addVars, faceNum, register, mixed, cam, poolVars, taskVars>>
    BY DEF Detect, DetectUnready, Ready
<1>3. /\ reg' \in [Threads -> Registrations] /\ \A u \in Threads \ {t} : reg'[u] = reg[u]
      /\ reg'[t].at \in {"enrol", "out"}
      /\ reg'[t].at = "enrol" => reg'[t].file = reg[t].file /\ reg'[t].read = reg[t].read
    BY <1>1, <1>2, AtChanges, Returned DEF RegStages
<1>4. refused \subseteq refused' /\ refused' \subseteq Files
    BY <1>1, <1>2 DEF Refuses, RegisterTypeOK
<1>5. RegisterTypeOK'
    <2>1. crashed' \in BOOLEAN
        BY DEF Detect, DetectUnready, RegisterTypeOK
    <2> QED
        BY <1>1, <1>2, <1>3, <1>4, <2>1 DEF RegisterTypeOK
<1>6. FilesListed'
    <2>1. CASE ~status
        BY <1>2, <2>1 DEF FilesListed, initVars
    <2>2. CASE At(t, "enrol")
        BY <1>1, <1>2, <1>3, <1>4, <2>2, AtChanges DEF FilesListed, Enrolled, initVars, RegStages
    <2>3. CASE Refuses(t)
        <3>1. reg[t].read = "full" => reg[t].file \in refused'
            BY <2>3 DEF Refuses
        <3> QED
            BY <1>1, <1>2, <1>3, <1>4, <3>1 DEF FilesListed, Enrolled, initVars
    <2> QED
        BY <1>2, <2>1, <2>2, <2>3
<1>7. IdsBelow'
    BY <1>1, <1>2, <1>3 DEF IdsBelow
<1> QED
    BY <1>1, <1>2, <1>3, <1>5, <1>6, <1>7, TasksRest, InitRests, TypesRest

LEMMA EnrolKeeps ==
    ASSUME FacesInv, NEW t \in Threads, Enrol(t)
    PROVE  FacesInv'
<1> USE DEF FacesInv, TypeOK
<1> DEFINE f == reg[t].file
           face == [face |-> f, id |-> faceNum]
<1>1. /\ reg \in [Threads -> Registrations] /\ f \in Files /\ reg[t].at = "enrol"
      /\ faceNum \in Nat /\ register \in Seq(KnownFaces) /\ Len(register) \in Nat
    BY KnownFacesAre DEF Enrol, RegisterTypeOK
<1>2. /\ reg' \in [Threads -> Registrations] /\ \A u \in Threads \ {t} : reg'[u] = reg[u]
      /\ reg'[t].at = "count" /\ reg'[t].file = f
    BY <1>1, AtChanges DEF Enrol, RegStages
<1>3. face \in KnownFaces /\ face.face = f /\ face.id = faceNum
    BY <1>1 DEF KnownFaces
<1>8. \/ register' = register /\ Refuses(t)
      \/ register' = Append(register, face) /\ refused' = refused
    BY DEF Enrol
<1> HIDE DEF face
<1>4. \/ register' = register /\ Refuses(t)
      \/ /\ register' = Append(register, face) /\ refused' = refused
         /\ register' \in Seq(KnownFaces)
         /\ DOMAIN register' = DOMAIN register \union {Len(register) + 1}
         /\ register'[Len(register) + 1] = face
         /\ \A i \in DOMAIN register : register'[i] = register[i] /\ i # Len(register) + 1
    <2>1. Append(register, face) \in Seq(KnownFaces)
        BY <1>1, <1>3
    <2>2. /\ DOMAIN Append(register, face) = DOMAIN register \union {Len(register) + 1}
          /\ Append(register, face)[Len(register) + 1] = face
          /\ \A i \in DOMAIN register :
                Append(register, face)[i] = register[i] /\ i # Len(register) + 1
        BY <1>1, <1>3
    <2> QED
        BY <1>8, <2>1, <2>2
<1>5. RegisterTypeOK'
    <2>1. refused' \subseteq Files /\ register' \in Seq(KnownFaces)
        BY <1>1, <1>4 DEF Refuses, RegisterTypeOK
    <2>2. mixed' \in BOOLEAN /\ crashed' \in BOOLEAN
        BY DEF Enrol, RegisterTypeOK
    <2> QED
        BY <1>1, <1>2, <2>1, <2>2 DEF Enrol, RegisterTypeOK
<1>6. FilesListed'
    <2>1. Enrolled \subseteq Enrolled' /\ refused \subseteq refused'
        BY <1>4 DEF Enrolled, Refuses
    <2>2. reg[t].read = "full" => f \in Enrolled' \union refused'
        BY <1>3, <1>4 DEF Enrolled, Refuses
    <2> QED
        BY <1>1, <1>2, <2>1, <2>2 DEF Enrol, FilesListed, initVars
<1>7. IdsBelow'
    <2> SUFFICES ASSUME ~mixed'
                 PROVE  IdsBelow'
        BY DEF IdsBelow
    <2>1. \A u \in Threads : reg[u].at # "count"
        BY <1>1, Others DEF Enrol
    <2>2. ~mixed
        BY DEF Enrol
    <2>3. \A i \in DOMAIN register : register[i].id < faceNum /\ register[i].id \in Nat
        BY <1>1, <2>1, <2>2, KnownFacesAre DEF IdsBelow
    <2>4. \A i, j \in DOMAIN register : i # j => register[i].id # register[j].id
        BY <2>2 DEF IdsBelow
    <2>5. reg'[t].at = "count" /\ faceNum' = faceNum
        BY <1>2 DEF Enrol
    <2> QED
        BY <1>1, <1>3, <1>4, <2>3, <2>4, <2>5 DEF IdsBelow
<1> QED
    BY <1>1, <1>2, <1>5, <1>6, <1>7, TasksRest, InitRests, TypesRest DEF Enrol

LEMMA CountKeeps ==
    ASSUME FacesInv, NEW t \in Threads, Count(t)
    PROVE  FacesInv'
<1> USE DEF FacesInv, TypeOK
<1>1. reg \in [Threads -> Registrations] /\ reg[t].at = "count" /\ faceNum \in Nat
    BY DEF Count, RegisterTypeOK
<1>2. /\ reg' \in [Threads -> Registrations] /\ \A u \in Threads \ {t} : reg'[u] = reg[u]
      /\ reg'[t].at = "out"
    BY <1>1, Returned DEF Count
<1>3. RegisterTypeOK'
    BY <1>1, <1>2 DEF Count, RegisterTypeOK
<1>4. FilesListed'
    BY <1>1, <1>2 DEF Count, FilesListed, Enrolled, initVars
<1>5. IdsBelow'
    <2>1. \A i \in DOMAIN register : register[i].id \in Nat
        BY KnownFacesAre DEF RegisterTypeOK
    <2> QED
        BY <1>1, <2>1 DEF Count, IdsBelow
<1> QED
    BY <1>1, <1>2, <1>3, <1>4, <1>5, TasksRest, InitRests, TypesRest DEF Count

----------------------------------------------------------------------------
(* Init and AddFace.                                                       *)

(* A thread takes up a photo.                                              *)
LEMMA TakenUp ==
    ASSUME RegisterTypeOK, NEW t \in Threads, NEW f \in Files, Registers(t, f)
    PROVE  /\ reg' \in [Threads -> Registrations]
           /\ reg'[t].at = "load" /\ reg'[t].file = f
           /\ \A u \in Threads \ {t} : reg'[u] = reg[u]
<1> DEFINE r == [Idle EXCEPT !.at = "load", !.file = f]
<1>1. r \in Registrations /\ r.at = "load" /\ r.file = f
    BY DEF Registrations, RegStages, Idle
<1>2. reg' = [reg EXCEPT ![t] = r] /\ reg \in [Threads -> Registrations]
    BY DEF Registers, RegisterTypeOK
<1> HIDE DEF r
<1> QED
    BY <1>1, <1>2, RegChanges

LEMMA InitKeeps ==
    ASSUME FacesInv, InitStep
    PROVE  FacesInv'
<1> USE DEF FacesInv, TypeOK
<1>1. CASE Recognition
    <2>1. InitTypeOK'
        BY <1>1 DEF Recognition, InitTypeOK, addVars
    <2>2. RegisterTypeOK'
        BY <1>1 DEF Recognition, RegisterTypeOK, engineVars
    <2>3. InitInOrder'
        BY <1>1 DEF Recognition, InitInOrder, InitTypeOK, addVars, engineVars, taskVars, Threads
    <2>4. FilesListed' /\ IdsBelow'
        BY <1>1 DEF Recognition, FilesListed, IdsBelow, engineVars
    <2> QED
        BY <1>1, <2>1, <2>2, <2>3, <2>4, TasksRest DEF Recognition
<1>2. CASE ListDir
    <2>1. InitTypeOK'
        BY <1>2 DEF ListDir, InitTypeOK, addVars
    <2>2. RegisterTypeOK'
        BY <1>2 DEF ListDir, RegisterTypeOK, engineVars
    <2>3. InitInOrder'
        BY <1>2 DEF ListDir, InitInOrder, addVars, engineVars, taskVars, Threads
    <2>4. FilesListed' /\ IdsBelow'
        BY <1>2 DEF ListDir, FilesListed, IdsBelow, engineVars
    <2> QED
        BY <1>2, <2>1, <2>2, <2>3, <2>4, TasksRest DEF ListDir
<1>3. CASE NextFile
    <2>1. PICK f \in todo : Registers("init", f) /\ todo' = todo \ {f}
        BY <1>3 DEF NextFile
    <2>2. /\ reg' \in [Threads -> Registrations]
          /\ reg'["init"].at = "load" /\ reg'["init"].file = f /\ f \in Files
          /\ reg'["http"] = reg["http"]
        BY <2>1, TakenUp DEF InitTypeOK, Threads
    <2>3. InitTypeOK'
        BY <1>3, <2>1 DEF NextFile, InitTypeOK, addVars
    <2>4. RegisterTypeOK'
        BY <1>3, <2>2 DEF NextFile, RegisterTypeOK, Threads
    <2>5. InitInOrder'
        BY <1>3, <2>2 DEF NextFile, InitInOrder, addVars, taskVars, Threads
    <2>6. FilesListed'
        BY <1>3, <2>1, <2>2 DEF NextFile, FilesListed, Enrolled, Threads
    <2>7. IdsBelow'
        BY <1>3, <2>2 DEF NextFile, IdsBelow, Threads
    <2> QED
        BY <1>3, <2>3, <2>4, <2>5, <2>6, <2>7, TasksRest DEF NextFile
<1>4. CASE GetFaceCount
    <2>0. Len(register) \in Nat /\ faceNum \in Nat
        BY KnownFacesAre DEF RegisterTypeOK
    <2>1. InitTypeOK'
        BY <1>4 DEF GetFaceCount, InitTypeOK, addVars
    <2>2. RegisterTypeOK'
        <3>1. mixed' \in BOOLEAN
            BY <1>4 DEF GetFaceCount, RegisterTypeOK
        <3> QED
            BY <1>4, <2>0, <3>1 DEF GetFaceCount, RegisterTypeOK
    <2>3. InitInOrder'
        BY <1>4 DEF GetFaceCount, InitInOrder, addVars, taskVars, Threads
    <2>4. FilesListed'
        BY <1>4 DEF GetFaceCount, FilesListed, Enrolled
    <2>5. IdsBelow'
        <3> SUFFICES ASSUME ~mixed'
                     PROVE  IdsBelow'
            BY DEF IdsBelow
        <3>1. CASE UNCHANGED <<faceNum, mixed>>
            BY <1>4, <3>1 DEF GetFaceCount, IdsBelow
        <3>2. CASE faceNum' = Len(register)
                   /\ mixed' = (mixed \/ reg["http"].at = "count" \/ Len(register) < faceNum)
            <4>1. ~mixed /\ reg["http"].at # "count" /\ ~(Len(register) < faceNum)
                BY <3>2
            <4>2. \A t \in Threads : reg[t].at # "count"
                BY <1>4, <4>1 DEF GetFaceCount, Threads
            <4>3. \A i \in DOMAIN register : register[i].id < faceNum /\ register[i].id \in Nat
                BY <4>1, <4>2, KnownFacesAre DEF IdsBelow, RegisterTypeOK
            <4>4. \A i \in DOMAIN register :
                      register[i].id < Len(register) /\ register[i].id <= Len(register)
                BY <2>0, <4>1, <4>3
            <4>5. \A i, j \in DOMAIN register : i # j => register[i].id # register[j].id
                BY <4>1 DEF IdsBelow
            <4> QED
                BY <1>4, <3>2, <4>4, <4>5 DEF GetFaceCount, IdsBelow
        <3> QED
            BY <1>4, <3>1, <3>2 DEF GetFaceCount
    <2> QED
        BY <1>4, <2>1, <2>2, <2>3, <2>4, <2>5, TasksRest DEF GetFaceCount
<1>5. CASE InitEnds
    <2>1. InitTypeOK'
        BY <1>5 DEF InitEnds, InitTypeOK, addVars
    <2>2. RegisterTypeOK'
        BY <1>5 DEF InitEnds, RegisterTypeOK, engineVars
    <2>3. InitInOrder'
        BY <1>5 DEF InitEnds, InitInOrder, addVars, engineVars, taskVars, Threads
    <2>4. FilesListed' /\ IdsBelow'
        BY <1>5 DEF InitEnds, FilesListed, IdsBelow, Enrolled, engineVars
    <2> QED
        BY <1>5, <2>1, <2>2, <2>3, <2>4, TasksRest DEF InitEnds
<1> QED
    BY <1>1, <1>2, <1>3, <1>4, <1>5 DEF InitStep

LEMMA HttpKeeps ==
    ASSUME FacesInv, HttpStep
    PROVE  FacesInv'
<1> USE DEF FacesInv, TypeOK
<1>1. ASSUME NEW f \in Files, AddFace(f)
      PROVE  FacesInv'
    <2>1. InitTypeOK'
        BY <1>1, AddsAssumption DEF AddFace, InitTypeOK, initVars
    <2>2. RegisterTypeOK'
        BY <1>1 DEF AddFace, RegisterTypeOK, engineVars
    <2>3. InitInOrder'
        BY <1>1 DEF AddFace, InitInOrder, initVars, engineVars, taskVars
    <2>4. \A g \in Files : dir'[g] = "full" => dir[g] = "full"
        BY <1>1 DEF AddFace, InitTypeOK
    <2>5. FilesListed'
        BY <1>1, <2>4 DEF AddFace, FilesListed, Enrolled, initVars, engineVars
    <2>6. IdsBelow'
        BY <1>1 DEF AddFace, IdsBelow, engineVars
    <2> QED
        BY <1>1, <2>1, <2>2, <2>3, <2>5, <2>6, TasksRest DEF AddFace
<1>2. CASE Downloaded
    <2>1. addPc \in Files /\ reg["http"].at = "out"
        BY <1>2 DEF Downloaded, InitTypeOK, InitInOrder
    <2>2. /\ reg' \in [Threads -> Registrations]
          /\ reg'["http"].at = "load" /\ reg'["http"].file = addPc
          /\ reg'["init"] = reg["init"]
        BY <1>2, <2>1, TakenUp DEF Downloaded, Threads
    <2>3. /\ dir' \in [Files -> {"none", "part", "full"}]
          /\ \A g \in Files \ {addPc} : dir'[g] = dir[g]
        BY <1>2 DEF Downloaded, InitTypeOK
    <2>4. InitTypeOK'
        BY <1>2, <2>3 DEF Downloaded, InitTypeOK, initVars
    <2>5. RegisterTypeOK'
        BY <1>2, <2>1, <2>2 DEF Downloaded, RegisterTypeOK, Threads
    <2>6. InitInOrder'
        BY <1>2, <2>2 DEF Downloaded, InitInOrder, initVars, taskVars
    <2>7. FilesListed'
        BY <1>2, <2>1, <2>2, <2>3 DEF Downloaded, FilesListed, Enrolled, initVars, Threads
    <2>8. IdsBelow'
        BY <1>2, <2>1, <2>2 DEF Downloaded, IdsBelow, Threads
    <2> QED
        BY <1>2, <2>4, <2>5, <2>6, <2>7, <2>8, TasksRest DEF Downloaded
<1>3. CASE DownloadFails
    <2>1. InitTypeOK'
        BY <1>3 DEF DownloadFails, InitTypeOK, initVars
    <2>2. RegisterTypeOK'
        BY <1>3 DEF DownloadFails, RegisterTypeOK, engineVars
    <2>3. InitInOrder'
        BY <1>3 DEF DownloadFails, InitInOrder, initVars, engineVars, taskVars
    <2>4. FilesListed' /\ IdsBelow'
        BY <1>3 DEF DownloadFails, FilesListed, IdsBelow, Enrolled, initVars, engineVars
    <2> QED
        BY <1>3, <2>1, <2>2, <2>3, <2>4, TasksRest DEF DownloadFails
<1> QED
    BY <1>1, <1>2, <1>3 DEF HttpStep

----------------------------------------------------------------------------
(* Cameras and their tasks.                                                *)

(* What InitInOrder says of a task that searches, when Init rests.         *)
LEMMA SearchesRest ==
    ASSUME FacesInv, UNCHANGED <<initVars, addVars, engineVars>>,
           \A c \in Cams : task'[c].at = "search" =>
               task[c].at = "search" \/ (status /\ initEnd)
    PROVE  InitInOrder'
    BY DEF FacesInv, InitInOrder, initVars, addVars, engineVars

(* The order of the frames a camera has in its pool.                       *)
InOrder(boxes, frame, q) ==
    /\ boxes <= frame /\ frame <= frames
    /\ \A i \in DOMAIN q : frame < q[i] /\ q[i] <= frames
    /\ \A i, j \in DOMAIN q : i < j => q[i] < q[j]

LEMMA TasksAreInOrder ==
    TasksInOrder <=> \A c \in Cams : InOrder(faceBoxes[c], task[c].frame, tasks[c])
    BY DEF TasksInOrder, InOrder

LEMMA PushKeeps ==
    ASSUME FacesInv, NEW c \in Cams, PushTask(c)
    PROVE  FacesInv'
<1> USE DEF FacesInv, TypeOK
<1> DEFINE q == Append(tasks[c], frames + 1)
<1>0. /\ tasks[c] \in Seq(FrameNumbers) /\ frames \in Nat /\ frames + 1 \in FrameNumbers
      /\ tasksTotal[c] \in Nat /\ Len(tasks[c]) \in Nat
    BY FramesAre, AddsAssumption DEF PushTask, TaskTypeOK, FrameNumbers
<1>1. q \in Seq(FrameNumbers)
    BY <1>0
<1>2. /\ Len(q) = Len(tasks[c]) + 1
      /\ DOMAIN q = DOMAIN tasks[c] \union {Len(q)}
      /\ q[Len(q)] = frames + 1
      /\ \A i \in DOMAIN tasks[c] : q[i] = tasks[c][i] /\ i < Len(q) /\ i \in Nat
    <2>1. Len(q) = Len(tasks[c]) + 1 /\ DOMAIN q = DOMAIN tasks[c] \union {Len(q)}
        BY <1>0
    <2>2. q[Len(tasks[c]) + 1] = frames + 1
        BY <1>0
    <2>3. \A i \in DOMAIN tasks[c] : q[i] = tasks[c][i]
        BY <1>0
    <2>4. \A i \in DOMAIN tasks[c] : i < Len(tasks[c]) + 1 /\ i \in Nat
        BY <1>0
    <2> QED
        BY <2>1, <2>2, <2>3, <2>4
<1>3. /\ tasks' \in [Cams -> Seq(FrameNumbers)]
      /\ tasks'[c] = q /\ \A d \in Cams \ {c} : tasks'[d] = tasks[d]
    BY <1>1 DEF PushTask, TaskTypeOK
<1> HIDE DEF q
<1>4. TaskTypeOK'
    BY <1>0, <1>3 DEF PushTask, TaskTypeOK, taskVars
<1>5. InitInOrder'
    BY SearchesRest DEF PushTask, taskVars
<1>6. LockReturns'
    BY DEF PushTask, LockReturns, taskVars
<1>7. TasksCounted'
    <2>1. /\ tasksTotal'[c] = tasksTotal[c] + 1
          /\ \A d \in Cams \ {c} : tasksTotal'[d] = tasksTotal[d]
        BY DEF PushTask, TaskTypeOK
    <2>2. task' = task /\ cam' = cam /\ cam[c] = "on"
        BY DEF PushTask, taskVars
    <2>3. SUFFICES ASSUME NEW d \in Cams
                   PROVE  /\ task[d].at = "idle" => tasksTotal'[d] = Len(tasks'[d])
                          /\ task[d].at # "idle" => tasksTotal'[d] = Len(tasks'[d]) + 1
                          /\ cam[d] = "deleted" => tasksTotal'[d] = 0
        BY <2>2 DEF TasksCounted
    <2>4. CASE d = c
        BY <1>0, <1>2, <1>3, <2>1, <2>2, <2>4 DEF TasksCounted
    <2>5. CASE d # c
        BY <1>3, <2>1, <2>5 DEF TasksCounted
    <2> QED
        BY <2>4, <2>5
<1>8. TasksInOrder'
    <2>1. UNCHANGED <<task, faceBoxes>> /\ frames' = frames + 1
        BY DEF PushTask, taskVars
    <2> SUFFICES ASSUME NEW d \in Cams
                 PROVE  InOrder(faceBoxes[d], task[d].frame, tasks[d])'
        BY DEF TasksInOrder, InOrder
    <2>2. /\ frames \in Nat /\ task[d].frame \in Nat /\ faceBoxes[d] \in Nat
          /\ \A i \in DOMAIN tasks[d] : tasks[d][i] \in Nat
        BY FramesAre
    <2>3. InOrder(faceBoxes[d], task[d].frame, tasks[d])
        BY TasksAreInOrder
    <2>4. CASE d # c
        BY <1>3, <2>1, <2>2, <2>3, <2>4 DEF InOrder
    <2>5. CASE d = c
        <3>1. \A i \in DOMAIN q : task[d].frame < q[i] /\ q[i] <= frames + 1
            BY <1>2, <2>2, <2>3, <2>5 DEF InOrder
        <3>2. \A i, j \in DOMAIN q : i < j => q[i] < q[j]
            <4> SUFFICES ASSUME NEW i \in DOMAIN q, NEW j \in DOMAIN q, i < j
                         PROVE  q[i] < q[j]
                OBVIOUS
            <4>1. i \in DOMAIN tasks[c]
                BY <1>0, <1>2
            <4>2. CASE j \in DOMAIN tasks[c]
                BY <1>2, <2>3, <2>5, <4>1, <4>2 DEF InOrder
            <4>3. CASE j = Len(q)
                BY <1>2, <2>2, <2>3, <2>5, <4>1, <4>3 DEF InOrder
            <4> QED
                BY <1>2, <4>2, <4>3
        <3> QED
            BY <1>3, <2>1, <2>2, <2>3, <2>5, <3>1, <3>2 DEF InOrder
    <2> QED
        BY <2>4, <2>5
<1> QED
    BY <1>4, <1>5, <1>6, <1>7, <1>8, RegisterRests DEF PushTask

LEMMA EndKeeps ==
    ASSUME FacesInv, NEW c \in Cams, GraceEnds(c) \/ WaitForTasks(c)
    PROVE  FacesInv'
<1> USE DEF FacesInv, TypeOK
<1>1. UNCHANGED <<dir, initVars, addVars, engineVars, poolVars, taskVars, crashed>>
    BY DEF GraceEnds, WaitForTasks
<1>2. TaskTypeOK'
    BY <1>1 DEF GraceEnds, WaitForTasks, TaskTypeOK, poolVars, taskVars
<1>3. InitInOrder'
    BY <1>1, SearchesRest DEF taskVars
<1>4. LockReturns' /\ TasksInOrder'
    BY <1>1 DEF LockReturns, TasksInOrder, poolVars, taskVars
<1>5. TasksCounted'
    <2>1. \A d \in Cams : cam'[d] = "deleted" => cam[d] = "deleted" \/ tasksTotal[d] = 0
        BY DEF GraceEnds, WaitForTasks, TaskTypeOK
    <2> QED
        BY <1>1, <2>1 DEF TasksCounted, poolVars, taskVars
<1> QED
    BY <1>1, <1>2, <1>3, <1>4, <1>5, RegisterRests

(* Frames that are taken off a queue leave those behind in order.          *)
LEMMA QueueTail ==
    ASSUME NEW q \in Seq(FrameNumbers), q # <<>>
    PROVE  /\ Tail(q) \in Seq(FrameNumbers) /\ Len(q) = Len(Tail(q)) + 1
           /\ Head(q) = q[1] /\ 1 \in DOMAIN q /\ Len(Tail(q)) \in Nat
           /\ \A i \in DOMAIN Tail(q) :
                 i + 1 \in DOMAIN q /\ Tail(q)[i] = q[i + 1] /\ i \in Nat /\ 1 < i + 1
<1>1. Tail(q) \in Seq(FrameNumbers) /\ Len(q) = Len(Tail(q)) + 1 /\ Len(Tail(q)) \in Nat
    OBVIOUS
<1>2. Head(q) = q[1] /\ 1 \in DOMAIN q
    OBVIOUS
<1>3. \A i \in DOMAIN Tail(q) :
          i + 1 \in DOMAIN q /\ Tail(q)[i] = q[i + 1] /\ i \in Nat /\ 1 < i + 1
    OBVIOUS
<1> QED
    BY <1>1, <1>2, <1>3

LEMMA PopKeeps ==
    ASSUME FacesInv, NEW c \in Cams, PopTask(c)
    PROVE  FacesInv'
<1> USE DEF FacesInv, TypeOK
<1> DEFINE q == tasks[c]
<1>0. /\ q \in Seq(FrameNumbers) /\ \A i \in DOMAIN q : q[i] \in FrameNumbers /\ q[i] \in Nat
      /\ q # <<>> /\ task[c].at = "idle"
    <2>1. q \in Seq(FrameNumbers) /\ \A i \in DOMAIN q : q[i] \in Nat
        BY FramesAre
    <2> QED
        BY <2>1 DEF PopTask
<1>1. /\ Tail(q) \in Seq(FrameNumbers) /\ Len(q) = Len(Tail(q)) + 1
      /\ Head(q) = q[1] /\ 1 \in DOMAIN q /\ Len(Tail(q)) \in Nat
      /\ \A i \in DOMAIN Tail(q) :
            i + 1 \in DOMAIN q /\ Tail(q)[i] = q[i + 1] /\ i \in Nat /\ 1 < i + 1
    BY <1>0, QueueTail
<1>2. /\ tasks' \in [Cams -> Seq(FrameNumbers)] /\ tasks'[c] = Tail(q)
      /\ \A d \in Cams \ {c} : tasks'[d] = tasks[d]
    BY <1>1 DEF PopTask, TaskTypeOK
<1>3. /\ task' \in [Cams -> FaceTasks] /\ task'[c].at = "try" /\ task'[c].frame = q[1]
      /\ \A d \in Cams \ {c} : task'[d] = task[d]
    <2>1. task \in [Cams -> FaceTasks] /\ q[1] \in FrameNumbers
        BY <1>0, <1>1 DEF TaskTypeOK
    <2> QED
        BY <1>1, <2>1 DEF PopTask, FaceTasks, TaskStages
<1>4. TaskTypeOK'
    BY <1>2, <1>3 DEF PopTask, TaskTypeOK
<1>5. InitInOrder'
    BY <1>3, SearchesRest DEF PopTask
<1>6. LockReturns'
    BY <1>0, <1>3 DEF PopTask, LockReturns
<1>7. TasksCounted'
    <2>1. UNCHANGED <<cam, tasksTotal>> /\ tasksTotal[c] \in Nat
        BY FramesAre DEF PopTask
    <2>2. SUFFICES ASSUME NEW d \in Cams
                   PROVE  /\ task'[d].at = "idle" => tasksTotal[d] = Len(tasks'[d])
                          /\ task'[d].at # "idle" => tasksTotal[d] = Len(tasks'[d]) + 1
        BY <2>1 DEF TasksCounted
    <2>3. CASE d = c
        BY <1>0, <1>1, <1>2, <1>3, <2>1, <2>3 DEF TasksCounted
    <2>4. CASE d # c
        BY <1>2, <1>3, <2>4 DEF TasksCounted
    <2> QED
        BY <2>3, <2>4
<1>8. TasksInOrder'
    <2>1. UNCHANGED <<frames, faceBoxes>>
        BY DEF PopTask
    <2> SUFFICES ASSUME NEW d \in Cams
                 PROVE  InOrder(faceBoxes[d], task[d].frame, tasks[d])'
        BY DEF TasksInOrder, InOrder
    <2>2. frames \in Nat /\ task[d].frame \in Nat /\ faceBoxes[d] \in Nat
        BY FramesAre
    <2>3. InOrder(faceBoxes[d], task[d].frame, tasks[d])
        BY TasksAreInOrder
    <2>4. CASE d # c
        BY <1>2, <1>3, <2>1, <2>3, <2>4 DEF InOrder
    <2>5. CASE d = c
        <3>1. faceBoxes[c] <= q[1] /\ q[1] <= frames
            BY <1>0, <1>1, <2>2, <2>3, <2>5 DEF InOrder
        <3>2. \A i \in DOMAIN Tail(q) : q[1] < q[i + 1] /\ q[i + 1] <= frames
            BY <1>1, <2>3, <2>5 DEF InOrder
        <3>3. \A i, j \in DOMAIN Tail(q) : i < j => q[i + 1] < q[j + 1]
            BY <1>1, <2>3, <2>5 DEF InOrder
        <3>4. InOrder(faceBoxes[c], q[1], Tail(q))
            BY <1>1, <3>1, <3>2, <3>3 DEF InOrder
        <3> QED
            BY <1>2, <1>3, <2>1, <2>5, <3>4 DEF InOrder
    <2> QED
        BY <2>4, <2>5
<1> QED
    BY <1>4, <1>5, <1>6, <1>7, <1>8, RegisterRests DEF PopTask

(* A task goes on from one stage to another and keeps its frame.           *)
LEMMA StageChanges ==
    ASSUME TaskTypeOK, NEW c \in Cams, NEW at \in TaskStages,
           task' = [task EXCEPT ![c].at = at]
    PROVE  /\ task' \in [Cams -> FaceTasks]
           /\ task'[c].at = at /\ \A d \in Cams : task'[d].frame = task[d].frame
           /\ \A d \in Cams \ {c} : task'[d] = task[d]
    BY DEF TaskTypeOK, FaceTasks

LEMMA LookKeeps ==
    ASSUME FacesInv, NEW c \in Cams,
           TryLock(c) \/ ReturnEarly(c) \/ Search(c) \/ SearchEnds(c) \/ AssignBoxes(c)
    PROVE  FacesInv'
<1> USE DEF FacesInv, TypeOK
<1>1. UNCHANGED <<dir, initVars, addVars, engineVars, cam, poolVars, crashed>>
    BY DEF TryLock, ReturnEarly, Search, SearchEnds, AssignBoxes
<1>2. PICK at \in {"test", "search", "assign", "end"} : task' = [task EXCEPT ![c].at = at]
    BY DEF TryLock, ReturnEarly, Search, SearchEnds, AssignBoxes
<1>3. /\ task' \in [Cams -> FaceTasks]
      /\ task'[c].at = at /\ \A d \in Cams : task'[d].frame = task[d].frame
      /\ \A d \in Cams \ {c} : task'[d] = task[d]
    BY <1>2, StageChanges DEF TaskStages
<1>4. lock' \in Cams \union {None} /\ faceBoxes' \in [Cams -> FrameNumbers]
    <2>1. task[c].frame \in FrameNumbers
        BY DEF TaskTypeOK, FaceTasks
    <2> QED
        BY <2>1 DEF TryLock, ReturnEarly, Search, SearchEnds, AssignBoxes, TaskTypeOK
<1>5. TaskTypeOK'
    BY <1>1, <1>3, <1>4 DEF TaskTypeOK, poolVars
<1>6. InitInOrder'
    <2>1. at = "search" => status /\ initEnd
        BY <1>3 DEF TryLock, ReturnEarly, Search, SearchEnds, AssignBoxes, TaskTypeOK, FaceTasks
    <2> QED
        BY <1>1, <1>3, <2>1, SearchesRest
<1>7. LockReturns'
    <2>1. \/ TryLock(c) /\ lock = None /\ lock' = c /\ task'[c].at = "test"
          \/ /\ TryLock(c) /\ lock' = lock /\ task'[c].at = "assign"
             /\ task[c].at = "try"
          \/ ReturnEarly(c) /\ lock' = None /\ task'[c].at = "assign"
          \/ Search(c) /\ lock' = lock /\ task'[c].at = "search"
          \/ SearchEnds(c) /\ lock' = None /\ task'[c].at = "assign"
          \/ /\ AssignBoxes(c) /\ lock' = lock /\ task'[c].at = "end"
             /\ task[c].at = "assign"
        BY DEF TryLock, ReturnEarly, Search, SearchEnds, AssignBoxes, TaskTypeOK, FaceTasks
    <2>2. ReturnEarly(c) \/ Search(c) => task[c].at = "test"
        BY DEF ReturnEarly, Search
    <2>3. SearchEnds(c) => task[c].at = "search"
        BY DEF SearchEnds
    <2>4. lock = c <=> task[c].at \in {"test", "search"}
        BY DEF LockReturns
    <2>5. \A d \in Cams \ {c} : lock' = d <=> lock = d
        BY <2>1, <2>2, <2>3, <2>4, NoneAssumption
    <2>6. lock' = c <=> task'[c].at \in {"test", "search"}
        BY <2>1, <2>2, <2>3, <2>4, NoneAssumption
    <2> QED
        BY <1>3, <2>5, <2>6 DEF LockReturns
<1>8. TasksCounted'
    <2>1. task[c].at # "idle"
        BY DEF TryLock, ReturnEarly, Search, SearchEnds, AssignBoxes
    <2> QED
        BY <1>1, <1>2, <1>3, <2>1 DEF TasksCounted, poolVars
<1>9. TasksInOrder'
    <2>1. \A d \in Cams : faceBoxes'[d] = faceBoxes[d] \/ faceBoxes'[d] = task[d].frame
        BY DEF TryLock, ReturnEarly, Search, SearchEnds, AssignBoxes, TaskTypeOK
    <2>2. \A d \in Cams : task[d].frame \in Nat
        BY FramesAre
    <2> QED
        BY <1>1, <1>3, <2>1, <2>2 DEF TasksInOrder, poolVars
<1> QED
    BY <1>1, <1>5, <1>6, <1>7, <1>8, <1>9, RegisterRests

LEMMA TaskEndsKeeps ==
    ASSUME FacesInv, NEW c \in Cams, TaskEnds(c)
    PROVE  FacesInv'
<1> USE DEF FacesInv, TypeOK
<1>1. /\ task' \in [Cams -> FaceTasks]
      /\ task'[c].at = "idle" /\ \A d \in Cams : task'[d].frame = task[d].frame
      /\ \A d \in Cams \ {c} : task'[d] = task[d]
    BY StageChanges DEF TaskEnds, TaskStages
<1>2. /\ tasksTotal[c] = Len(tasks[c]) + 1 /\ Len(tasks[c]) \in Nat
      /\ tasksTotal[c] - 1 \in Nat
    <2>1. tasksTotal[c] = Len(tasks[c]) + 1
        BY DEF TaskEnds, TasksCounted
    <2> QED
        BY <2>1, FramesAre
<1>3. /\ tasksTotal' \in [Cams -> Nat] /\ tasksTotal'[c] = tasksTotal[c] - 1
      /\ \A d \in Cams \ {c} : tasksTotal'[d] = tasksTotal[d]
    BY <1>2 DEF TaskEnds, TaskTypeOK
<1>4. TaskTypeOK'
    BY <1>1, <1>3 DEF TaskEnds, TaskTypeOK
<1>5. InitInOrder'
    BY <1>1, SearchesRest DEF TaskEnds
<1>6. LockReturns'
    BY <1>1 DEF TaskEnds, LockReturns
<1>7. TasksCounted'
    <2>1. UNCHANGED <<cam, tasks>>
        BY DEF TaskEnds
    <2>2. SUFFICES ASSUME NEW d \in Cams
                   PROVE  /\ task'[d].at = "idle" => tasksTotal'[d] = Len(tasks[d])
                          /\ task'[d].at # "idle" => tasksTotal'[d] = Len(tasks[d]) + 1
                          /\ cam[d] = "deleted" => tasksTotal'[d] = 0
        BY <2>1 DEF TasksCounted
    <2>3. CASE d = c
        BY <1>1, <1>2, <1>3, <2>3 DEF TasksCounted
    <2>4. CASE d # c
        BY <1>1, <1>3, <2>4 DEF TasksCounted
    <2> QED
        BY <2>3, <2>4
<1>8. TasksInOrder'
    BY <1>1 DEF TaskEnds, TasksInOrder
<1> QED
    BY <1>4, <1>5, <1>6, <1>7, <1>8, RegisterRests DEF TaskEnds

----------------------------------------------------------------------------
LEMMA StepKeeps == FacesInv /\ [Next]_vars => FacesInv'
<1> SUFFICES ASSUME FacesInv, [Next]_vars
             PROVE  FacesInv'
    OBVIOUS
<1>1. CASE InitStep \/ HttpStep
    BY <1>1, InitKeeps, HttpKeeps
<1>2. ASSUME NEW t \in Threads, RegisterSingle(t)
      PROVE  FacesInv'
    BY <1>2, LoadKeeps, DetectKeeps, EnrolKeeps, CountKeeps DEF RegisterSingle
<1>3. ASSUME NEW c \in Cams, TaskStep(c) \/ CameraStep(c)
      PROVE  FacesInv'
    BY <1>3, PushKeeps, EndKeeps, PopKeeps, LookKeeps, TaskEndsKeeps DEF TaskStep, CameraStep
<1>4. CASE UNCHANGED vars
    <2>1. InitInOrder'
        BY <1>4, SearchesRest DEF vars, taskVars
    <2> QED
        BY <1>4, <2>1, TasksRest, RegisterRests DEF vars, FacesInv, TypeOK
<1> QED
    BY <1>1, <1>2, <1>3, <1>4 DEF Next

(* The flags, the photos, the ids and the tasks keep together at every     *)
(* step of the recognition of faces, for any number of cameras and photos. *)
THEOREM InvariantHolds == Spec => []FacesInv
    BY InitEstablishes, StepKeeps, PTL DEF Spec

(* ArcFace::Init and AddFace lose no photo between them: what is in the    *)
(* directory is known to the engine, refused by it, or in hand.            *)
THEOREM FilesStayEnrolled == Spec => []FilesEnrolled
<1>1. FacesInv => FilesEnrolled
    BY DEF FacesInv, InitInOrder, FilesListed, FilesEnrolled, InHand
<1> QED
    BY <1>1, InvariantHolds, PTL

(* ArcFace::Run searches one frame at a time, and none before Init is      *)
(* through the directory.                                                  *)
THEOREM SearchesStayQuiet == Spec => []SearchIsQuiet
<1>1. FacesInv => SearchIsQuiet
    BY DEF FacesInv, InitInOrder, LockReturns, SearchIsQuiet
<1> QED
    BY <1>1, InvariantHolds, PTL

(* ArcFace::Run gives the lock back on every way out.                      *)
THEOREM LockIsReturned == Spec => []LockReturns
<1>1. FacesInv => LockReturns
    BY DEF FacesInv
<1> QED
    BY <1>1, InvariantHolds, PTL

(* registerSingle gives every face an id of its own while one thread at a  *)
(* time registers.                                                         *)
THEOREM IdsStayDistinct == Spec => []IdsDistinct
<1>1. FacesInv => IdsDistinct
    BY DEF FacesInv, IdsBelow, IdsDistinct
<1> QED
    BY <1>1, InvariantHolds, PTL

(* wait_for_tasks lets no CameraHandle be deleted under its own tasks.     *)
THEOREM TasksEndInTime == Spec => []TasksGoneBeforeDelete
<1>1. FacesInv => TasksGoneBeforeDelete
    <2> SUFFICES ASSUME FacesInv, NEW c \in Cams, cam[c] = "deleted"
                 PROVE  tasks[c] = <<>> /\ task[c].at = "idle"
        BY DEF TasksGoneBeforeDelete
    <2>1. tasks[c] \in Seq(FrameNumbers) /\ Len(tasks[c]) \in Nat
        BY FramesAre DEF FacesInv, TypeOK
    <2>2. Len(tasks[c]) = 0 /\ task[c].at = "idle"
        BY <2>1 DEF FacesInv, TasksCounted
    <2> QED
        BY <2>1, <2>2, EmptySeq
<1> QED
    BY <1>1, InvariantHolds, PTL

(* The one thread of a pool takes its tasks in order, so that faceBoxes    *)
(* never falls back to an earlier frame.                                   *)
THEOREM FacesNeverGoBack == Spec => FacesGoForward
<1> DEFINE Forward == \A c \in Cams : faceBoxes'[c] >= faceBoxes[c]
<1>1. FacesInv /\ [Next]_vars => [Forward]_vars
    <2> SUFFICES ASSUME FacesInv, Next
                 PROVE  Forward
        OBVIOUS
    <2>0. \A c \in Cams : faceBoxes[c] \in Nat
        BY FramesAre DEF FacesInv, TypeOK
    <2>1. CASE UNCHANGED faceBoxes
        BY <2>0, <2>1
    <2>2. ASSUME NEW c \in Cams, AssignBoxes(c)
          PROVE  Forward
        BY <2>0, <2>2 DEF AssignBoxes, FacesInv, TasksInOrder, TypeOK, TaskTypeOK
    <2>3. ASSUME NEW c \in Cams, TaskStep(c), ~AssignBoxes(c)
          PROVE  UNCHANGED faceBoxes
        BY <2>3 DEF TaskStep, PopTask, TryLock, ReturnEarly, Search, SearchEnds, TaskEnds
    <2>4. ASSUME NEW c \in Cams, CameraStep(c)
          PROVE  UNCHANGED faceBoxes
        BY <2>4 DEF CameraStep, PushTask, GraceEnds, WaitForTasks, taskVars
    <2>5. ASSUME NEW t \in Threads, RegisterSingle(t)
          PROVE  UNCHANGED faceBoxes
        BY <2>5 DEF RegisterSingle, Load, Detect, DetectUnready, Enrol, Count, taskVars
    <2>6. CASE InitStep \/ HttpStep
        BY <2>1, <2>6 DEF InitStep, HttpStep, Recognition, ListDir, NextFile, GetFaceCount, InitEnds,
            AddFace, Downloaded, DownloadFails, taskVars
    <2> QED
        BY <2>1, <2>2, <2>3, <2>4, <2>5, <2>6 DEF Next
<1> QED
    BY <1>1, InvariantHolds, PTL DEF Spec, FacesGoForward

----------------------------------------------------------------------------
(* Cameras end.  While a camera waits no task is added, so that its tasks  *)
(* can only become fewer.                                                  *)

Waiting(c) == cam[c] = "waiting" /\ ~crashed
Ended(c) == cam[c] = "deleted" \/ crashed
Stage(c, at) == task[c].at = at

(* What goes on elsewhere leaves a camera that waits to its own task, or   *)
(* ends its wait.                                                          *)
LEMMA WaitingFrame ==
    ASSUME FacesInv, NEW c \in Cams, Waiting(c), [Next]_vars, ~TaskStep(c)
    PROVE  (Waiting(c) \/ Ended(c))' /\ UNCHANGED <<tasksTotal[c], task[c]>>
<1> USE DEF Waiting, Ended, FacesInv, TypeOK, TaskTypeOK, RegisterTypeOK
<1>1. ASSUME NEW d \in Cams \ {c}, TaskStep(d)
      PROVE  UNCHANGED <<cam, tasksTotal[c], task[c], crashed>>
    BY <1>1 DEF TaskStep, PopTask, TryLock, ReturnEarly, Search, SearchEnds, AssignBoxes,
                TaskEnds, poolVars
<1>2. ASSUME NEW d \in Cams, CameraStep(d)
      PROVE  /\ (Waiting(c) \/ Ended(c))'
             /\ UNCHANGED <<tasksTotal[c], task[c]>>
    BY <1>2 DEF CameraStep, PushTask, GraceEnds, WaitForTasks, poolVars, taskVars
<1>3. ASSUME NEW t \in Threads, RegisterSingle(t)
      PROVE  UNCHANGED <<cam, tasksTotal, task>> /\ crashed' \in BOOLEAN
    BY <1>3 DEF RegisterSingle, Load, Detect, DetectUnready, Enrol, Count, poolVars, taskVars
<1>4. ASSUME InitStep \/ HttpStep
      PROVE  UNCHANGED <<cam, tasksTotal, task, crashed>>
    BY <1>4 DEF InitStep, HttpStep, Recognition, ListDir, NextFile, GetFaceCount, InitEnds,
                AddFace, Downloaded, DownloadFails, poolVars, taskVars
<1>5. CASE UNCHANGED vars
    BY <1>5 DEF vars, poolVars, taskVars
<1> QED
    BY <1>1, <1>2, <1>3, <1>4, <1>5 DEF Next

(* Its own task goes on by one stage, and counts itself off at the end.    *)
LEMMA OwnStep ==
    ASSUME FacesInv, NEW c \in Cams, Waiting(c), TaskStep(c)
    PROVE  /\ Waiting(c)'
           /\ \/ /\ UNCHANGED tasksTotal[c]
                 /\ \/ Stage(c, "idle") /\ Stage(c, "try")'
                    \/ Stage(c, "try") /\ (Stage(c, "test") \/ Stage(c, "assign"))'
                    \/ Stage(c, "test") /\ (Stage(c, "search") \/ Stage(c, "assign"))'
                    \/ Stage(c, "search") /\ Stage(c, "assign")'
                    \/ Stage(c, "assign") /\ Stage(c, "end")'
              \/ /\ tasksTotal'[c] = tasksTotal[c] - 1
                 /\ Stage(c, "end") /\ Stage(c, "idle")'
    BY DEF FacesInv, TypeOK, TaskTypeOK, FaceTasks, Waiting, Stage, poolVars,
           TaskStep, PopTask, TryLock, ReturnEarly, Search, SearchEnds, AssignBoxes, TaskEnds

(* The guards of the actions of TaskStep, in their order, and that of      *)
(* WaitForTasks.                                                           *)
TaskReady(c) ==
    \/ task[c].at = "idle" /\ tasks[c] # <<>>
    \/ task[c].at = "try" /\ (lock = None \/ lock # None)
    \/ task[c].at = "test" /\ ~(status /\ initEnd)
    \/ task[c].at = "test" /\ status /\ initEnd
    \/ task[c].at \in {"search", "assign", "end"}

DeleteReady(c) == cam[c] = "waiting" /\ tasksTotal[c] = 0

(* What ENABLED says of such actions, each of which gives every variable   *)
(* its next value and changes one: a guard that holds lets it step.        *)
TasksStep ==
    \A c \in Cams :
        /\ ~crashed /\ TaskReady(c) => ENABLED <<~crashed /\ TaskStep(c)>>_vars
        /\ ~crashed /\ DeleteReady(c) => ENABLED <<~crashed /\ WaitForTasks(c)>>_vars

(* A task is never stuck: without the lock it does without, and nothing it *)
(* tests is waited for (ArcFace.cpp:22-26, thread_pool.hpp:291-304).       *)
THEOREM TasksNeverStuck == Spec /\ []TasksStep => []TasksGoOn
<1>1. ASSUME FacesInv, TasksStep
      PROVE  TasksGoOn
    <2>1. ASSUME NEW c \in Cams, task[c].at # "idle" \/ tasks[c] # <<>>
          PROVE  TaskReady(c)
        <3>1. task[c].at \in TaskStages
            BY <1>1, <2>1 DEF FacesInv, TypeOK, TaskTypeOK, FaceTasks
        <3> QED
            BY <2>1, <3>1 DEF TaskStages, TaskReady
    <2> QED
        BY <1>1, <2>1 DEF TasksStep, TasksGoOn, DeleteReady
<1> QED
    BY <1>1, InvariantHolds, PTL

(* A camera that waits for its tasks is deleted, however many there are    *)
(* and whatever other cameras, Init and clients do: the tasks take turns   *)
(* at TaskStep, each stage leads to the next, and no number of tasks is    *)
(* counted off for ever.                                                   *)
LEMMA CamerasEndIfTasksGoOn ==
    FairSpec /\ []TasksGoOn /\ (\A c \in Cams : NoEndlessFall(tasksTotal[c])) => CamerasEnd
<1> SUFFICES ASSUME NEW c \in Cams
             PROVE  FairSpec /\ []TasksGoOn /\ NoEndlessFall(tasksTotal[c])
                        => (cam[c] = "waiting" ~> Ended(c))
    BY DEF CamerasEnd, Ended
<1> DEFINE total == tasksTotal[c]
           Go == ~crashed /\ TaskStep(c)
           Delete == ~crashed /\ WaitForTasks(c)
<1>1. FairSpec => Spec /\ Runs(c)
    BY DEF FairSpec
<1>2. FacesInv /\ Waiting(c) /\ [Next]_vars => (Waiting(c) \/ Ended(c))'
    BY WaitingFrame, OwnStep
<1>3. FacesInv /\ Waiting(c) /\ [Next]_vars => [total' =< total]_total
    BY WaitingFrame, OwnStep DEF FacesInv, TypeOK, TaskTypeOK
<1>4. FacesInv => total \in Nat
    BY DEF FacesInv, TypeOK, TaskTypeOK
<1>5. FacesInv => \/ Stage(c, "idle") \/ Stage(c, "try") \/ Stage(c, "test") \/ Stage(c, "search")
                  \/ Stage(c, "assign") \/ Stage(c, "end")
    BY DEF FacesInv, TypeOK, TaskTypeOK, FaceTasks, TaskStages, Stage
<1>6. FacesInv /\ Waiting(c) /\ [Next]_vars =>
        /\ Stage(c, "idle") => (Stage(c, "idle") \/ Stage(c, "try"))'
        /\ Stage(c, "try") => (Stage(c, "try") \/ Stage(c, "test") \/ Stage(c, "assign"))'
        /\ Stage(c, "test") => (Stage(c, "test") \/ Stage(c, "search") \/ Stage(c, "assign"))'
        /\ Stage(c, "search") => (Stage(c, "search") \/ Stage(c, "assign"))'
        /\ Stage(c, "assign") => (Stage(c, "assign") \/ Stage(c, "end"))'
        /\ Stage(c, "end") => Stage(c, "end")' \/ ~[total' = total]_total
    <2>1. ASSUME FacesInv, Waiting(c), [Next]_vars, ~TaskStep(c)
          PROVE  UNCHANGED task[c]
        BY <2>1, WaitingFrame
    <2> QED
        BY <2>1, OwnStep DEF Stage, FacesInv, TypeOK, TaskTypeOK
<1>7. FacesInv /\ Waiting(c) /\ <<Go>>_vars =>
        /\ Stage(c, "idle") => Stage(c, "try")'
        /\ Stage(c, "try") => (Stage(c, "test") \/ Stage(c, "assign"))'
        /\ Stage(c, "test") => (Stage(c, "search") \/ Stage(c, "assign"))'
        /\ Stage(c, "search") => Stage(c, "assign")'
        /\ Stage(c, "assign") => Stage(c, "end")'
        /\ Stage(c, "end") => ~[total' = total]_total
    BY OwnStep DEF Stage, FacesInv, TypeOK, TaskTypeOK
<1>8. FacesInv /\ Waiting(c) /\ <<Delete>>_vars => Ended(c)'
    BY DEF WaitForTasks, Ended, FacesInv, TypeOK, TaskTypeOK
<1>9. TasksGoOn /\ FacesInv /\ Waiting(c) /\ ~(total = 0) => ENABLED <<Go>>_vars
    <2>1. ASSUME FacesInv, ~(total = 0)
          PROVE  task[c].at # "idle" \/ tasks[c] # <<>>
        BY <2>1 DEF FacesInv, TasksCounted
    <2> QED
        BY <2>1 DEF TasksGoOn, Waiting
<1>10. TasksGoOn /\ Waiting(c) /\ total = 0 => ENABLED <<Delete>>_vars
    BY DEF TasksGoOn, Waiting
<1>11. [total' = total]_total => ((total = 0)' <=> total = 0)
    OBVIOUS
<1>12. cam[c] = "waiting" => Waiting(c) \/ Ended(c)
    BY DEF Waiting, Ended
<1> HIDE DEF Go, Delete
<1> QED
    BY <1>1, <1>2, <1>3, <1>4, <1>5, <1>6, <1>7, <1>8, <1>9, <1>10, <1>11, <1>12,
       InvariantHolds, PTL DEF Spec, NoEndlessFall, Runs, Go, Delete

(* A camera that waits for its tasks is deleted, however many there are    *)
(* and whatever other cameras, Init and clients do (CameraHandle.cpp:650). *)
THEOREM CamerasComeToAnEnd ==
    FairSpec /\ []TasksStep /\ (\A c \in Cams : NoEndlessFall(tasksTotal[c])) => CamerasEnd
BY CamerasEndIfTasksGoOn, TasksNeverStuck, PTL DEF FairSpec

============================================================================
