----------------------------- MODULE ProfileStore -----------------------------
(***************************************************************************)
(* NearObjectProfileManager (lib/nearobject/service/                       *)
(* NearObjectProfileManager.cxx) and the persister it calls,               *)
(* NearObjectProfilePersisterFilesystem (lib/nearobject/persist): profiles *)
(* added by several threads to a list in memory, which has a lock, and to  *)
(* a JSON file, which has none. PersistProfile reads the whole file, opens *)
(* it again, which truncates it, and writes it whole; the process may die  *)
(* between any two of those steps, and a write may fail.                   *)
(***************************************************************************)
EXTENDS Naturals, Sequences, FiniteSets

CONSTANTS
    Caller,         \* threads that call AddProfile
    Profile,        \* the profiles they add: [scope, security]
    MaxAdd,         \* bound on the calls of AddProfile
    MaxCrash        \* bound on the deaths of the process

NearObjectConnectionScope == <<"Unicast", "Multicast", "Unknown">>

NearObjectProfile ==
    [scope : {"Unicast", "Multicast", "Unknown"}, security : BOOLEAN]

ASSUME StoreAssumption == MaxAdd \in Nat /\ MaxCrash \in Nat
ASSUME ProfileAssumption == Profile \subseteq NearObjectProfile

VARIABLES
    file,           \* [state, json]: "absent", "empty" (truncated), "garbage"
                    \* (no JSON text), or "json", an array of objects
    m_profiles,
    call,           \* call[t] = [pc, profile, read]: "idle"; in PersistProfile
                    \* "read", "open", "write"; then "returned", "threw"
    adds,           \* calls so far
    crashes,
    alone,          \* history: has no other call been in PersistProfile since?
    durable         \* history: the profiles written by calls that ran alone

storeVars == <<file, m_profiles, call, adds, crashes, alone, durable>>
historyVars == <<alone, durable>>

NoProfile == [scope |-> "Unknown", security |-> FALSE]
Idle == [pc |-> "idle", profile |-> NoProfile, read |-> <<>>]
Absent == [state |-> "absent", json |-> <<>>]
Empty == [state |-> "empty", json |-> <<>>]
Garbage == [state |-> "garbage", json |-> <<>>]
Text(json) == [state |-> "json", json |-> json]

StoreInit ==
    /\ file = Absent
    /\ m_profiles = <<>>
    /\ call = [t \in Caller |-> Idle]
    /\ adds = 0
    /\ crashes = 0
    /\ alone = [t \in Caller |-> TRUE]
    /\ durable = <<>>

-----------------------------------------------------------------------------
(* The JSON of a profile: the scope's number, and null or an empty object. *)

ToJson(p) ==
    [Scope |-> CHOOSE i \in DOMAIN NearObjectConnectionScope :
                   NearObjectConnectionScope[i] = p.scope,
     Security |-> IF p.security THEN "{}" ELSE "null"]

FromJson(j) ==
    [scope |-> NearObjectConnectionScope[j.Scope], security |-> j.Security # "null"]

Decoded(f) == [i \in DOMAIN f.json |-> FromJson(f.json[i])]

\* ReadPersistedProfiles throws on a file that is not JSON.
Unparseable(f) == f.state \in {"empty", "garbage"}

\* A write starts at the beginning and replaces what it covers: over the text of
\* another writer, the rest of a longer text stays. Two lists of the same length
\* may differ in the length of their text.
Written(f, json) ==
    IF f.state = "json" /\ f.json # json
    THEN CASE Len(json) > Len(f.json) -> {Text(json)}
           [] Len(json) < Len(f.json) -> {Garbage}
           [] OTHER -> {Text(json), Garbage}
    ELSE IF f.state = "garbage" THEN {Text(json), Garbage} ELSE {Text(json)}

-----------------------------------------------------------------------------
Persisting(t) == call[t].pc \in {"read", "open", "write"}

Goto(t, pc) == call' = [call EXCEPT ![t].pc = pc]

Begin(t) ==
    /\ alone' = [u \in Caller |->
                   IF u = t THEN \A v \in Caller \ {t} : ~Persisting(v)
                   ELSE alone[u] /\ ~Persisting(u)]

-----------------------------------------------------------------------------
(* Faulty variants, for checking that the properties would notice them.    *)

\* A file that cannot be parsed counts as an empty list.
ReadAnything(t) ==
    /\ call[t].pc = "read"
    /\ call' = [call EXCEPT ![t].pc = "open", ![t].read = Decoded(file)]
    /\ UNCHANGED <<file, m_profiles, adds, crashes, historyVars>>

-----------------------------------------------------------------------------
\* AddProfile: into memory under the gate; PersistProfile, if asked, without it.
AddProfile(t) ==
    \E p \in Profile, lifetime \in {"Persistent", "Ephemeral"} :
        /\ call[t].pc = "idle" /\ adds < MaxAdd
        /\ adds' = adds + 1
        /\ m_profiles' = Append(m_profiles, p)
        /\ \/ /\ lifetime = "Persistent"
              /\ call' = [call EXCEPT ![t] = [pc |-> "read", profile |-> p, read |-> <<>>]]
              /\ Begin(t)
           \/ /\ lifetime = "Ephemeral"
              /\ call' = [call EXCEPT ![t] = [pc |-> "returned", profile |-> p, read |-> <<>>]]
              /\ UNCHANGED alone
        /\ UNCHANGED <<file, crashes, durable>>

\* ReadPersistedProfiles: no file is an empty list, and succeeds.
ReadPersistedProfiles(t) ==
    /\ call[t].pc = "read"
    /\ ~Unparseable(file)
    /\ call' = [call EXCEPT ![t].pc = "open", ![t].read = Decoded(file)]
    /\ UNCHANGED <<file, m_profiles, adds, crashes, historyVars>>

\* nlohmann::json::parse throws, through PersistProfile and AddProfile.
ParseError(t) ==
    /\ call[t].pc = "read"
    /\ Unparseable(file)
    /\ Goto(t, "threw")
    /\ UNCHANGED <<file, m_profiles, adds, crashes, historyVars>>

\* FailedToOpenFile, from the read; Failed, from the stream opened for the write.
\* AddProfile drops either.
FailedToOpenFile(t) ==
    /\ call[t].pc \in {"read", "open"}
    /\ call[t].pc = "read" => file # Absent
    /\ Goto(t, "returned")
    /\ UNCHANGED <<file, m_profiles, adds, crashes, historyVars>>

OpenTruncates(t) ==
    /\ call[t].pc = "open"
    /\ file' = Empty
    /\ Goto(t, "write")
    /\ UNCHANGED <<m_profiles, adds, crashes, historyVars>>

\* Faulty: what the file held is forgotten.
UpdatedAnew(t) == <<ToJson(call[t].profile)>>

\* The profile is added at the end of what was read.
Updated(t) ==
    LET profiles == Append(call[t].read, call[t].profile)
    IN [i \in DOMAIN profiles |-> ToJson(profiles[i])]

WriteProfiles(t) ==
    /\ call[t].pc = "write"
    /\ file' \in Written(file, Updated(t))
    /\ Goto(t, "returned")
    /\ durable' = IF alone[t] THEN Append(durable, call[t].profile) ELSE durable
    /\ UNCHANGED <<m_profiles, adds, crashes, alone>>

\* Part of the text is written at most, and fail() is set.
WriteFails(t) ==
    /\ call[t].pc = "write"
    /\ file' \in {file, Garbage}
    /\ Goto(t, "returned")
    /\ UNCHANGED <<m_profiles, adds, crashes, historyVars>>

AddReturns(t) ==
    /\ call[t].pc \in {"returned", "threw"}
    /\ call' = [call EXCEPT ![t] = Idle]
    /\ UNCHANGED <<file, m_profiles, adds, crashes, historyVars>>

\* The process dies and is started again. A write may have been under way. Nothing
\* reads the file when a manager is constructed.
Crash ==
    /\ crashes < MaxCrash
    /\ crashes' = crashes + 1
    /\ file' \in IF \E t \in Caller : call[t].pc = "write" THEN {file, Garbage} ELSE {file}
    /\ m_profiles' = <<>>
    /\ call' = [t \in Caller |-> Idle]
    /\ UNCHANGED <<adds, historyVars>>

StoreNext ==
    \/ \E t \in Caller :
         \/ AddProfile(t) \/ ReadPersistedProfiles(t) \/ ParseError(t) \/ FailedToOpenFile(t)
         \/ OpenTruncates(t) \/ WriteProfiles(t) \/ WriteFails(t) \/ AddReturns(t)
    \/ Crash

StoreSpec == StoreInit /\ [][StoreNext]_storeVars

-----------------------------------------------------------------------------
OccurrencesIn(s, p) == Cardinality({i \in DOMAIN s : s[i] = p})

\* A profile that was persisted by a call of its own, no other overlapping it, is in
\* every list that can be read afterwards, whatever later writers, failures and deaths
\* do (NearObjectProfilePersisterFilesystem.cxx:35-59): those that overlap lose no
\* profiles but each other's.
DurableStays ==
    file.state = "json" =>
        \A p \in Profile : OccurrencesIn(Decoded(file), p) >= OccurrencesIn(durable, p)

\* Nobody who has read a list is about to write one over an unreadable file.
Broken ==
    /\ Unparseable(file)
    /\ \A t \in Caller : call[t].pc \notin {"open", "write"}

\* A file left unreadable by a death, a failed write or two writers stays so: every
\* later call throws and none repairs or overwrites it, until somebody removes the
\* file (NearObjectProfilePersisterFilesystem.cxx:75).
UnreadableStays == [][Broken => Broken']_storeVars
=============================================================================
