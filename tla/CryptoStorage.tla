----------------------------- MODULE CryptoStorage -----------------------------
(***************************************************************************)
(* The default storage of keys outside the Security Object: a table of     *)
(* record names, one file per record, and one file handle for the record   *)
(* that is being written.  A record's name is the number in its file name; *)
(* the identity the Object keeps is a pointer into the table, so it is the *)
(* table index, and what it names is whatever the entry holds now.  The    *)
(* state is [names, files, fp], files surviving a restart.                 *)
(***************************************************************************)
EXTENDS DmDefs, Functions

CONSTANTS
    MaxRecords,         \* MAX_RECORDS
    MaxRecordLen        \* what the disk has room for, per record

ASSUME StorageAssumption == {MaxRecords, MaxRecordLen} \subseteq Nat \ {0}

Slots == 1 .. MaxRecords

NoName == 0

\* anj_crypto_storage_init: no record is tracked, whatever the disk holds
StorageInit(files) == [names |-> [i \in Slots |-> NoName], files |-> files,
                       fp |-> NoName]

FirstFree(names) ==
    CHOOSE i \in Slots : names[i] = NoName /\ \A j \in 1 .. i - 1 : names[j] # NoName

\* returns the state; the identity is the entry taken
CreateNewRecord(c) ==
    IF \A i \in Slots : c.names[i] # NoName
    THEN Err([c |-> c, id |-> NoName], "INTERNAL")
    ELSE LET i == FirstFree(c.names)
         IN  Ok([c  |-> [c EXCEPT !.names[i] = i,
                                  !.files = Restrict(@, DOMAIN @ \ {i})],
                 id |-> i])

\* data is appended to the file that is open, opened by this call if none is;
\* a name that was cleared cannot be opened
StoreData(c, id, data, last) ==
    LET name == IF c.fp = NoName THEN c.names[id] ELSE c.fp
        old  == IF name \in DOMAIN c.files THEN c.files[name] ELSE << >>
    IN  IF name = NoName \/ Len(old \o data) > MaxRecordLen
        THEN Err([c EXCEPT !.fp = NoName], "INTERNAL")
        ELSE Ok([c EXCEPT !.files = (name :> old \o data) @@ @,
                          !.fp = IF last THEN NoName ELSE name])

\* an identity whose entry is empty is refused before anything is touched
DeleteRecord(c, id) ==
    LET name == IF id = NoName THEN NoName ELSE c.names[id]
    IN  IF name = NoName
        THEN c
        ELSE [c EXCEPT !.names = [i \in Slots |->
                                    IF i = CHOOSE k \in Slots :
                                              /\ @[k] = name
                                              /\ \A j \in 1 .. k - 1 : @[j] # name
                                    THEN NoName ELSE @[i]],
                       !.files = Restrict(@, DOMAIN @ \ {name}),
                       !.fp = NoName]

\* what the disk may hold when the device stops: of the file that is open, any
\* part that has left the buffer of the stream
FilesLeft(c) ==
    IF c.fp \notin DOMAIN c.files THEN {c.files}
    ELSE {[c.files EXCEPT ![c.fp] = SubSeq(@, 1, n)] : n \in 0 .. Len(c.files[c.fp])}

\* what the persistent image of a key holds: the name itself
GetPersistenceInfo(c, id) ==
    IF c.names[id] = NoName THEN Err(NoName, "INTERNAL") ELSE Ok(c.names[id])

ResolvePersistenceInfo(c, name) ==
    IF \E i \in Slots : c.names[i] = name
    THEN Ok([c |-> c, id |-> CHOOSE i \in Slots :
                                 c.names[i] = name
                                 /\ \A j \in 1 .. i - 1 : c.names[j] # name])
    ELSE IF \/ name \notin DOMAIN c.files
            \/ \A i \in Slots : c.names[i] # NoName
         THEN Err([c |-> c, id |-> NoName], "INTERNAL")
         ELSE LET i == FirstFree(c.names)
              IN  Ok([c |-> [c EXCEPT !.names[i] = name], id |-> i])

\* what the security layer reads when it needs the key
ResolveSecurityInfo(c, id) ==
    IF c.names[id] \in DOMAIN c.files THEN Ok(c.files[c.names[id]])
                                       ELSE Err(<< >>, "INTERNAL")
=============================================================================
