----------------------------- MODULE MCPrebuild -----------------------------
(* Prebuild with jobs that differ from one that builds in one or two ways.  *)
(* The names of the stages are distinct: BuildKit takes the last of two     *)
(* stages with one name, and the model does not tell which qory takes.      *)
EXTENDS Prebuild
P(written, leads) == [written |-> written, leads |-> leads]
S(name, from) == [name |-> name, from |-> from]
Plain == [machine |-> "walled", valid |-> TRUE, policy |-> TRUE, pulled |-> "none", standard |-> FALSE, configuration |-> "read",
          faults |-> {}, odd |-> FALSE, git |-> {}, folder |-> "folder", stages |-> <<S("", "image")>>, target |-> "",
          index |-> 1, file |-> None, context |-> None, feature |-> None, variable |-> FALSE, asks |-> {},
          widens |-> {}, home |-> "fits", occupied |-> "nobody", big |-> FALSE]
Here == P("definition", "definition")
Paths == {Here, P("definition", "repository"), P("repository", "definition"), P("definition", "outside")}
Faulty == {[Plain EXCEPT !.valid = FALSE], [Plain EXCEPT !.policy = FALSE], [Plain EXCEPT !.big = TRUE],
           [Plain EXCEPT !.odd = TRUE]}
  \cup {[Plain EXCEPT !.machine = m] : m \in {"bare", "keyed"}}
  \cup {[Plain EXCEPT !.configuration = c] : c \in {"none", "unread"}}
  \cup {[Plain EXCEPT !.faults = {f}] : f \in Fault}
  \cup {[Plain EXCEPT !.git = {"nothing", e}, !.folder = f] : e \in {"token", "include", "ssh user"}, f \in {"inside", "outside"}}
  \cup {[Plain EXCEPT !.home = h] : h \in {"relative", "in the tree"}}
  \cup {[Plain EXCEPT !.index = n] : n \in {0, 2}}
Built1 == {[Plain EXCEPT !.file = f, !.context = c] : f \in Paths, c \in {None, Here, P("definition", "repository")}}
  \cup {[Plain EXCEPT !.context = c] : c \in Paths}
  \cup {[Plain EXCEPT !.feature = f, !.variable = v] : f \in Paths, v \in BOOLEAN}
  \cup {[Plain EXCEPT !.asks = a, !.occupied = o] : a \in {{}, {"base"}, {"file"}}, o \in {"nobody", "image", "commands"}}
  \cup {[Plain EXCEPT !.widens = {w}] : w \in Part}
Dockerfiles == {<<S("a", "image"), S("b", "a"), S("c", "other")>>, <<S("a", "b"), S("b", "a")>>,
                <<S("a", "scratch"), S("b", "variable"), S("c", "b")>>}
Staged == {[Plain EXCEPT !.file = Here, !.stages = d, !.target = t] : d \in Dockerfiles, t \in {"", "a", "b", "d"}}
Standard == {[Plain EXCEPT !.standard = TRUE, !.file = f, !.asks = a] : f \in {None, Here}, a \in {{}, {"base"}, {"features"}}}
  \cup {[Plain EXCEPT !.standard = TRUE, !.feature = Here], [Plain EXCEPT !.standard = TRUE, !.pulled = "fine"]}
MCJobs == Faulty \cup Built1 \cup Staged \cup Standard \cup {[Plain EXCEPT !.pulled = p] : p \in {"fine", "asks", "widens", "missing"}}
=============================================================================
