------------------------------ MODULE Manifest ------------------------------
(***************************************************************************)
(* What a version means to a replica: the manifest check of                *)
(* trimtab/manifest.py, the adapters of trimtab/adapters.py and the way an *)
(* engine takes a set of hot fields.  The versions are fixed (History);    *)
(* proposing is modelled in Canary.                                        *)
(***************************************************************************)
EXTENDS Store

CONSTANTS
  History,       \* the rows of config_version
  Knobs,         \* field names
  Values,        \* field values
  Klass,         \* manifest class of a knob; "unknown" if it is not listed
  ManifestOK,    \* <<knob, value>> pairs that pass a hot knob's validator
  EngineOK,      \* <<knob, value>> pairs within the engine's ceilings
  Norm,          \* how the engine stores a value (int(), upper())
  Boot,          \* the knobs of a freshly started engine
  ComparesLive,  \* the adapter compares the live values (SGLang; vLLM trusts "ok")
  Shown          \* knobs the engine's read-back shows

Versions == 1 .. Len(History)

\* What an override may name: start does not ask whether there is such a version.
NamedVersions == 1 .. Len(History) + 1

ASSUME HistoryAssumption ==
  /\ History \in Seq(VersionRow)
  /\ \A f \in Fields : DOMAIN f \subseteq Knobs /\ \A k \in DOMAIN f : f[k] \in Values

ASSUME EngineAssumption ==
  /\ Klass \in [Knobs -> {"hot", "warm", "cold", "deferred", "unknown"}]
  /\ Norm \in [Values -> Values]
  /\ Boot \in [Knobs -> Values]
  /\ ComparesLive \in BOOLEAN

\* What an engine holds is in the form in which it stores it, from boot on.
ASSUME NormAssumption ==
  /\ \A x \in Values : Norm[Norm[x]] = Norm[x]
  /\ \A k \in Knobs : Norm[Boot[k]] = Boot[k]

-----------------------------------------------------------------------------
(* Manifest.validate, and the split of its rejections in Reconciler.tick.  *)

accepted(f) == {k \in DOMAIN f : Klass[k] = "hot" /\ <<k, f[k]>> \in ManifestOK}
cold(f)     == {k \in DOMAIN f : Klass[k] \in {"cold", "warm"}}
bad(f)      == DOMAIN f \ (accepted(f) \cup cold(f))

\* The engine applies every field it accepts, whatever it rejects beside it.
taken(f) == {k \in accepted(f) : <<k, f[k]>> \in EngineOK}
after(live, f) == [k \in Knobs |-> IF k \in taken(f) THEN Norm[f[k]] ELSE live[k]]

\* Mutant: the answer of the POST is trusted.
unconfirmed(live, f) == TRUE

\* SGLangAdapter.set_hot: ok only if every change is shown back unchanged.
confirmed(live, f) == \A k \in accepted(f) : k \in Shown /\ live[k] = f[k]

FieldsOf(v) == History[v].fields

\* A version the manifest lets through and the engine takes whole and, with
\* an adapter that compares, stores and shows literally.
Acceptable(v) ==
  LET f == FieldsOf(v) IN
  /\ bad(f) = {}
  /\ taken(f) = accepted(f)
  /\ ComparesLive => \A k \in accepted(f) : k \in Shown /\ Norm[f[k]] = f[k]
=============================================================================
