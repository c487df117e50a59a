--------------------------- MODULE AcpModelOptions ---------------------------
(***************************************************************************)
(* The model ids of acp/model_options.py on their way from a wrapper to    *)
(* the client and back.                                                    *)
(*                                                                         *)
(* An id is a sequence of words, one of which may be the separator Sep: the *)
(* namespaced id of an agent's model is <<agent, Sep>> \o model.  A wrapper *)
(* advertises its config options once.  The client sees its model ids by   *)
(* two routes, the roster that the probe has filled and the frames of the  *)
(* bound wrapper, and picks one of them.                                   *)
(***************************************************************************)
EXTENDS Integers, Sequences, SequencesExt

CONSTANTS
    Words,          \* what ids are made of
    Agent,          \* the agent whose wrapper this is
    Sep,            \* MODEL_NAMESPACE_SEP
    Advertisements, \* the lists of config options the wrapper may advertise
    None

\* A select has a category, an id, a current value and its entries; an entry is
\* a sequence of ids: a group, or one option by itself.
IsSelect(opt) == opt.type = "select"
Prefix == <<Agent, Sep>>
Ids    == Seq(Words)

\* What an instance must see to.  A wrapper knows nothing of the namespace: no id it
\* advertises begins with its own name and the separator.
Advertisable(opt) ==
    /\ DOMAIN opt = {"type", "category", "id", "current", "entries"}
    /\ opt.current \in Ids /\ opt.entries \in Seq(Seq(Ids))
    /\ \A i \in DOMAIN opt.entries : \A k \in DOMAIN opt.entries[i] :
          ~IsPrefix(Prefix, opt.entries[i][k])

Assumptions ==
    /\ {Agent, Sep} \subseteq Words /\ Agent # Sep
    /\ \A options \in Advertisements :
          /\ DOMAIN options = 1 .. Len(options)
          /\ \A i \in DOMAIN options :
                options[i] # None /\ (IsSelect(options[i]) => Advertisable(options[i]))

VARIABLES
    advertised, \* the wrapper's config options
    shown,      \* the config options of the last frame the client got, or None
    roster,     \* the ids of the roster, or None before the probe
    pick        \* the pick that reached the wrapper: the option it names, by
                \* route and place, and the bare id that was sent; or None

vars == <<advertised, shown, roster, pick>>

Init ==
    /\ advertised \in Advertisements
    /\ shown = None /\ roster = None /\ pick = None

-----------------------------------------------------------------------------
(* The vocabulary.                                                          *)

Matches(opt) == IsSelect(opt) /\ (opt.category = "model" \/ opt.id = "model")

\* The first option that is a model selector, or None.
FindModelOption(options) ==
    LET places == {i \in DOMAIN options : Matches(options[i])}
    IN  IF places = {} THEN None
        ELSE options[CHOOSE i \in places : \A j \in places : i <= j]

\* The ids of a selector, groups flattened.
ModelIdsInOption(opt) == FlattenSeq(opt.entries)

MaybePrefix(id) == IF IsPrefix(Prefix, id) THEN id ELSE Prefix \o id

MapSeq(f(_), seq) == [i \in DOMAIN seq |-> f(seq[i])]

\* Prefix the current value and every entry, in groups and out of them.
NamespaceSelect(opt) ==
    LET Group(entry) == MapSeq(MaybePrefix, entry)
    IN  [opt EXCEPT !.current = MaybePrefix(@), !.entries = MapSeq(Group, @)]

NamespaceModelOptions(options) ==
    LET Namespaced(opt) ==
            IF IsSelect(opt) /\ opt.category = "model" THEN NamespaceSelect(opt) ELSE opt
    IN  MapSeq(Namespaced, options)

\* Bug: what follows a second separator is dropped.
SplitEverywhere(id) ==
    LET seps == {i \in DOMAIN id : id[i] = Sep} \cup {Len(id) + 1}
        at   == CHOOSE i \in seps : \A j \in seps : i <= j
        next == CHOOSE i \in (seps \ {at}) \cup {Len(id) + 1} :
                   \A j \in seps \ {at} : i <= j
    IN  [agent |-> SubSeq(id, 1, at - 1), model |-> SubSeq(id, at + 1, next - 1)]

\* Agent and model, split at the first separator; without one, no model.
SplitNamespaced(id) ==
    IF Sep \notin ToSet(id) THEN [agent |-> id, model |-> <<>>]
    ELSE LET at == CHOOSE i \in DOMAIN id :
                      id[i] = Sep /\ \A j \in DOMAIN id : id[j] = Sep => i <= j
         IN  [agent |-> SubSeq(id, 1, at - 1), model |-> SubSeq(id, at + 1, Len(id))]

\* The roster's ids; the client's selector before the bind offers just these,
\* the first of them as its current value.
RosterIds(options) ==
    LET opt == FindModelOption(options)
        Namespaced(id) == Prefix \o id
    IN  IF opt = None THEN <<>> ELSE MapSeq(Namespaced, ModelIdsInOption(opt))

-----------------------------------------------------------------------------
(* The probe, the frames and the picks.                                     *)

Probe ==
    /\ roster = None
    /\ roster' = RosterIds(advertised)
    /\ UNCHANGED <<advertised, shown, pick>>

\* A frame of the bound wrapper: its config_option_update, or its reply to an option.
Update ==
    /\ shown' = NamespaceModelOptions(advertised)
    /\ UNCHANGED <<advertised, roster, pick>>

\* A wrapper that repeats ids as the client knows them: those that are namespaced
\* already are left alone (model_options.py:147-149).  No wrapper here is known to.
Echo ==
    /\ shown # None
    /\ shown' = NamespaceModelOptions(shown)
    /\ UNCHANGED <<advertised, roster, pick>>

\* What the client can pick from: the ids it was shown by a route.
Offered(route) ==
    IF route = "roster" THEN IF roster = None THEN <<>> ELSE roster
    ELSE IF shown = None \/ FindModelOption(shown) = None THEN <<>>
         ELSE ModelIdsInOption(FindModelOption(shown))

\* A pick of the bound agent is sent to its wrapper with the bare id; one with an
\* empty half, or of another agent, is refused.
Pick ==
    \E route \in {"roster", "frame"} : \E i \in DOMAIN Offered(route) :
       LET half == SplitNamespaced(Offered(route)[i]) IN
       /\ half.model # <<>> /\ half.agent = <<Agent>>
       /\ pick' = [place |-> i, sent |-> half.model]
       /\ UNCHANGED <<advertised, shown, roster>>

Next == Probe \/ Update \/ Echo \/ Pick
Spec == Init /\ [][Next]_vars

-----------------------------------------------------------------------------
(* Properties.                                                              *)

AdvertisedIds ==
    IF FindModelOption(advertised) = None THEN <<>>
    ELSE ModelIdsInOption(FindModelOption(advertised))

\* The wrapper is asked for the very model the client picked from its list,
\* whichever way the client learnt of it (model_options.py:161-167, 185-192).
PickNamesTheModel ==
    pick # None => pick.sent = AdvertisedIds[pick.place]

=============================================================================
