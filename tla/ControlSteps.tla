---------------------------- MODULE ControlSteps ----------------------------
(***************************************************************************)
(* The vocabulary of the control half of a backend: each operation is the  *)
(* sequence of requests it sends.  A request reads or writes cells of the  *)
(* device; on a refusal or a lost answer the operation goes by "refused"   *)
(* or "lost": "error" (the ? operator), "false" (Ok(result.is_ok())) or    *)
(* "next" (the result is ignored).                                         *)
(***************************************************************************)
EXTENDS Integers, Sequences, Tables

Must == [refused |-> "error", lost |-> "error"]
(* The result of the request is not looked at. *)
Unlooked == [refused |-> "next", lost |-> "next"]

IsOk == [refused |-> "false", lost |-> "false"]
Ignored == [refused |-> "next", lost |-> "next"]
(* The answer has a flag of its own: "refused" is a flag that says no.  An *)
(* HTTP error goes the way of a lost answer.                               *)
ResultFlag == [refused |-> "false", lost |-> "error"]
(* is_expected_write_error: a command that need not answer. *)
MayNotAnswer == [refused |-> "error", lost |-> "next"]

Step(does, cells, kept, fail, then) ==
  [does |-> does, cells |-> cells, kept |-> kept, fail |-> fail, then |-> then]

(* Writes the cells. *)
Send(cells, fail) == Step("write", cells, {}, fail, "next")

(* The same, and the operation is done when the request succeeds. *)
SendOr(cells, fail) == Step("write", cells, {}, fail, "true")

(* Removes one of the groups of pools that were read, if any were; adds a  *)
(* group without pools to those that are there; fills a group.             *)
Erase(cells, fail) == Step("erase", cells, {}, fail, "next")
Add(cells, fail) == Step("add", cells, {}, fail, "next")
Fill(cells, fail) == Step("fill", cells, {}, fail, "next")

(* Reads the cells; what it read stays with the operation. *)
Read(cells, fail) == Step("read", cells, {}, fail, "next")

(* Writes the cells, and with them writes back others as they were read. *)
Rewrite(cells, kept, fail) == Step("write", cells, kept, fail, "next")

(* The device must have the cell at all. *)
Needs(cell, otherwise) == Step("needs", {cell}, {}, [Must EXCEPT !.refused = otherwise], "next")

(* Over when the cell was read as it should become. *)
DoneIf(cell) == Step("done_if", {cell}, {}, Must, "next")

(* The answer is whether the cell was read as it should be by now. *)
Verify(cell) == Step("verify", {cell}, {}, Must, "next")

(* The operations that one request makes. *)
Each(operations, cells, fail) == [o \in operations |-> <<Send(cells, fail)>>]
=============================================================================
