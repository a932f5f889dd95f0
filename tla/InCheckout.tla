----------------------------- MODULE InCheckout -----------------------------
(***************************************************************************)
(* The rule for the compose of a run with a run key: what a file of the    *)
(* checkout lists is read from inside the checkout, every link resolved,   *)
(* or fetched over https.  The rule is checked in three places: before any *)
(* file is read (configInCheckout), before the stack that the document     *)
(* extends is read (extendsInCheckout), and when the base's modules are    *)
(* beside the document's (modulesInCheckout).                              *)
(*                                                                         *)
(* A case names where the document lies, the stack that -f named, what the *)
(* document extends and lists, what its base lists, and which of the paths *)
(* that these resolve to lie outside.  A link that has no target, and a    *)
(* repository inside the checkout, are left out.                           *)
(***************************************************************************)
EXTENDS Sequences

CONSTANT Cases  \* the cases: [doc, named, base, own, ofBase, out]

VARIABLES case, at, went  \* at: the check that comes next; went: the compose reads and fetches

vars == <<case, at, went>>

Git == {"https", "ssh"}
Module(m) == {m, m \o "/manifest", m \o "/sub", m \o "/sub/file"}
Outside(ps) == ps \cap case.out # {}

(* The document is the checkout's when it lies in its root, not above it;  *)
(* a stack that -f named stands in for what the document extends.          *)
docIn == case.doc = "root"
Named == case.named # "none"

configInCheckout == ~Outside({"config"})

(* The directory of what the document extends: for an export, the          *)
(* repository and its qory.yaml before that file is read.                  *)
sourceDir == {"base"} \cup IF case.base = "export" THEN {"base/qory.yaml", "base/export"} ELSE {}
extendsInCheckout ==
  \/ ~docIn \/ Named \/ case.base = "none" \/ case.base = "https"
  \/ case.base \in {"path", "export"} /\ ~Outside(sourceDir \cup {"base/qory-stack.yaml"})

baseIn == IF Named THEN case.named = "in" ELSE docIn /\ case.base \in {"path", "export"}
gitBase == ~Named /\ docIn /\ case.base \in Git
linksInside(m) == ~Outside(Module(m))
modulesInCheckout ==
  /\ case.own = "ssh" => ~docIn
  /\ case.own = "path" /\ docIn => linksInside("own")
  /\ case.ofBase = "ssh" => ~(baseIn \/ gitBase)
  /\ case.ofBase = "path" /\ baseIn => linksInside("ofBase")

Check(here, next, rule) == at = here /\ at' = (IF rule THEN next ELSE "refused")
ReadConfig ==
  /\ Check("config", "extends", configInCheckout)
  /\ went' = IF at' = "refused" THEN went ELSE {"config"}
  /\ UNCHANGED case
(* The stack is read, or fetched, before its modules are known. *)
ReadBase ==
  /\ Check("extends", "modules", extendsInCheckout)
  /\ went' = IF at' = "refused" \/ ~docIn \/ Named THEN went
             ELSE went \cup (IF case.base \in Git THEN {case.base}
                             ELSE IF case.base = "none" THEN {} ELSE sourceDir \cup {"base/qory-stack.yaml"})
  /\ UNCHANGED case
(* A module's files: those that files of the checkout list, directly or    *)
(* through the stack that such a file chose.                               *)
ReadModules ==
  /\ Check("modules", "composed", modulesInCheckout)
  /\ went' = IF at' = "refused" THEN went
             ELSE went
               \cup (IF ~docIn THEN {} ELSE IF case.own \in Git THEN {case.own} ELSE IF case.own = "path" THEN Module("own") ELSE {})
               \cup (IF case.ofBase = "path" /\ (case.named = "in" \/ (docIn /\ ~Named /\ case.base \in {"path", "export"}))
                     THEN Module("ofBase") ELSE {})
               \cup (IF case.ofBase \in Git /\ (case.named = "in" \/ (docIn /\ ~Named /\ case.base # "none")) THEN {case.ofBase} ELSE {})
  /\ UNCHANGED case

Init == case \in Cases /\ at = "config" /\ went = {}
Next == ReadConfig \/ ReadBase \/ ReadModules
Spec == Init /\ [][Next]_vars

-----------------------------------------------------------------------------
(* At no point has the compose read a path outside the checkout, or fetched*)
(* from a source that is not https, that a file of the checkout led to,    *)
(* through the base that such a file chose included.                       *)
StaysInCheckout == went \cap (case.out \cup {"ssh"}) = {}
=============================================================================
