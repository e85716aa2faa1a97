--------------------------- MODULE CodecPreference ---------------------------
(***************************************************************************)
(* VideoCodecPreference and AudioCodecPreference, which are written twice  *)
(* in the source and are the same: for each direction and codec, the       *)
(* implementation to use.  VideoCodecs and AudioCodecs are instances.      *)
(* A preference is a sequence of entries, a capability a record with the   *)
(* name of its implementation.                                             *)
(***************************************************************************)
EXTENDS Naturals, Sequences, FiniteSets, SequencesExt

CONSTANTS CodecTypes,           \* the valid codecs, in their order
          IsSupported(_, _, _), \* of a capability, a direction and a codec
          Nothing               \* Option::None

Entry(direction, codec, implementation) ==
  [direction |-> direction, codec |-> codec, implementation |-> implementation]

NewFromCapability(capability) ==
  LET Of(direction, codec) ==
        IF IsSupported(capability, direction, codec)
          THEN <<Entry(direction, codec, capability.implementation)>> ELSE <<>>
  IN  FlattenSeq([i \in DOMAIN CodecTypes |->
                    Of("encoder", CodecTypes[i]) \o Of("decoder", CodecTypes[i])])

\* Where the entry of a direction and codec is first; 0 if nowhere.
FindMut(preference, direction, codec) ==
  SelectInSeq(preference, LAMBDA e : e.direction = direction /\ e.codec = codec)

Find(preference, direction, codec) ==
  LET at == FindMut(preference, direction, codec)
  IN  IF at = 0 THEN Nothing ELSE preference[at]

GetOrAdd(preference, direction, codec, implementation) ==
  IF FindMut(preference, direction, codec) # 0 THEN preference
  ELSE Append(preference, Entry(direction, codec, implementation))

HasImplementation(preference, implementation) ==
  \E i \in DOMAIN preference : preference[i].implementation = implementation

\* The later preference wins.
Merge(preference, other) ==
  FoldLeft(LAMBDA merged, e :
             LET at == FindMut(merged, e.direction, e.codec)
             IN  IF at = 0 THEN Append(merged, e)
                 ELSE [merged EXCEPT ![at].implementation = e.implementation],
           preference, other)

FindCapability(capabilities, implementation) ==
  LET at == SelectInSeq(capabilities, LAMBDA c : c.implementation = implementation)
  IN  IF at = 0 THEN Nothing ELSE capabilities[at]

ValidCapabilities(capabilities) ==
  \A i, j \in DOMAIN capabilities :
    capabilities[i].implementation = capabilities[j].implementation => i = j

ValidCodec(entry, capabilities) ==
  LET capability == FindCapability(capabilities, entry.implementation)
  IN  capability # Nothing /\ IsSupported(capability, entry.direction, entry.codec)

Valid(preference, capabilities) ==
  /\ ValidCapabilities(capabilities)
  /\ \A i \in DOMAIN preference :
       /\ preference[i].codec \in ToSet(CodecTypes)
       /\ FindMut(preference, preference[i].direction, preference[i].codec) = i
       /\ ValidCodec(preference[i], capabilities)
=============================================================================
