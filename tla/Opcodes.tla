------------------------------ MODULE Opcodes ------------------------------
(***************************************************************************)
(* The registry of message types of package opcode: two tables that its    *)
(* init fills and to which programs add with RegisterMessageType, several  *)
(* goroutines at a time.  A registration changes the tables in two steps.  *)
(***************************************************************************)
EXTENDS Naturals, Functions

CONSTANTS
  Registered,   \* opcodes registered before the network was built
  Wanted,       \* what the registrars ask for: opcode, type, message
  Registrars    \* goroutines that call RegisterMessageType once

VARIABLES
  opcodeTbl,    \* from opcodes to message types
  msgTbl,       \* from message types to opcodes
  registrar     \* where each registrar stands, and what it registers

registry == <<opcodeTbl, msgTbl, registrar>>

-----------------------------------------------------------------------------
(* The opcodes of the package, and what its init stores.                   *)

BytesCode == 1
PingCode == 10
PongCode == 11
LookupNodeRequestCode == 12
LookupNodeResponseCode == 13

Predefined ==
  [c \in {BytesCode, PingCode, PongCode, LookupNodeRequestCode, LookupNodeResponseCode} |->
     CASE c = BytesCode -> "Bytes"
       [] c = PingCode -> "Ping"
       [] c = PongCode -> "Pong"
       [] c = LookupNodeRequestCode -> "LookupNodeRequest"
       [] c = LookupNodeResponseCode -> "LookupNodeResponse"]

(***************************************************************************)
(* Registered is the work of earlier registrations.  The predefined types  *)
(* belong to an internal package, so that no program can register one a    *)
(* second time.                                                            *)
(***************************************************************************)
ASSUME RegisteredAssumption ==
  /\ DOMAIN Registered \subseteq {c \in Nat : c >= 1000}
  /\ Range(Registered) \cap Range(Predefined) = {}

ASSUME WantedAssumption ==
  \A w \in Wanted : w.code \in Nat /\ w.type \notin Range(Predefined)

-----------------------------------------------------------------------------
Done == [pc |-> "done", code |-> 0, type |-> ""]

Extend(f, x, y) == [z \in DOMAIN f \cup {x} |-> IF z = x THEN y ELSE f[z]]

RegistryInit ==
  /\ opcodeTbl = [c \in DOMAIN Predefined \cup DOMAIN Registered |->
                    IF c \in DOMAIN Predefined THEN Predefined[c] ELSE Registered[c]]
  /\ msgTbl = AntiFunction(opcodeTbl)
  /\ registrar = [r \in Registrars |-> [Done EXCEPT !.pc = "idle"]]

\* Faulty variant: the type is stored whether or not the opcode was free.
RegisterBlindly(r, w, empty) ==
  /\ registrar[r].pc = "idle"
  /\ opcodeTbl' = IF w.code \in DOMAIN opcodeTbl THEN opcodeTbl
                  ELSE Extend(opcodeTbl, w.code, w.type)
  /\ registrar' = [registrar EXCEPT ![r] = [pc |-> "store", code |-> w.code, type |-> w.type]]
  /\ UNCHANGED msgTbl

(***************************************************************************)
(* RegisterMessageType up to opcodeTbl.LoadOrStore; msgTbl.Store follows   *)
(* in a step of its own.  The message must marshal to nothing.             *)
(***************************************************************************)
Register(r, w, empty) ==
  /\ registrar[r].pc = "idle"
  /\ IF w.code < 1000 \/ ~empty \/ w.code \in DOMAIN opcodeTbl
       THEN /\ registrar' = [registrar EXCEPT ![r] = Done]
            /\ UNCHANGED opcodeTbl
       ELSE /\ registrar' = [registrar EXCEPT ![r] =
                               [pc |-> "store", code |-> w.code, type |-> w.type]]
            /\ opcodeTbl' = Extend(opcodeTbl, w.code, w.type)
  /\ UNCHANGED msgTbl

RegisterStore(r) ==
  /\ registrar[r].pc = "store"
  /\ msgTbl' = Extend(msgTbl, registrar[r].type, registrar[r].code)
  /\ registrar' = [registrar EXCEPT ![r] = Done]
  /\ UNCHANGED opcodeTbl

\* The registry by itself: any registrar, with an empty message or not.
RegistryNext ==
  \E r \in Registrars :
    \/ \E w \in Wanted, empty \in BOOLEAN : Register(r, w, empty)
    \/ RegisterStore(r)

RegistrySpec == RegistryInit /\ [][RegistryNext]_registry

-----------------------------------------------------------------------------
(***************************************************************************)
(* The two tables of opcodes agree, however the registrations interleave:  *)
(* the opcode of a type is an opcode under which receivers make that type, *)
(* and nobody takes the place of a predefined one.                         *)
(***************************************************************************)
RegistryConsistent ==
  /\ \A t \in DOMAIN msgTbl : msgTbl[t] \in DOMAIN opcodeTbl /\ opcodeTbl[msgTbl[t]] = t
  /\ \A c \in DOMAIN Predefined : opcodeTbl[c] = Predefined[c] /\ msgTbl[Predefined[c]] = c
=============================================================================
