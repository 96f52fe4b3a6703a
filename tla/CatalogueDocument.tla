-------------------------- MODULE CatalogueDocument --------------------------
(* One catalogue document over its life: written by an earlier version, read and
   saved again, changed by a file of definitions.                              *)
EXTENDS CatalogueRules

CONSTANTS OldDocuments, Patches

VARIABLE doc

DInit == doc \in OldDocuments
Resave == Readable(doc) /\ doc' = Stored(Read(doc))
Import(p) ==
    /\ Readable(doc) /\ doc.version = 1
    /\ LET new == Merged(Read(doc), p)
       IN Readable(new) /\ doc' = Stored(Read(new))
DNext == Resave \/ \E p \in Patches : Import(p)
DSpec == DInit /\ [][DNext]_doc

---------------------------------------------------------------------------
\* What a template stands for is made of what its kind of effect has.
DocumentTypeOK == Readable(doc) =>
    \A id \in DOMAIN doc.templates : Valid1(Resolved(doc, id).values)

\* stored_document keeps references and drops what they resolve to: what is read
\* from a saved document is what was saved.
ReadsBack == Resave => Readable(doc') /\ Same(Read(doc), Read(doc'))

\* An update that no longer knows a trigger must not make a saved catalogue
\* unreadable: what refers to the trigger goes with it, and nothing is left dangling.
KnowingAll(d) ==
    [d EXCEPT !.triggers = [id \in DOMAIN @ |-> IF ~SupportedTrigger(@[id])
                                               THEN [@[id] EXCEPT !.condition = "always"] ELSE @[id]]]
OldStillReadable == Readable(KnowingAll(doc)) => Readable(doc)
=============================================================================
