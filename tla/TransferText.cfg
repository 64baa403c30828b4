\* The address of a transfer and the listing it carries.
SPECIFICATION Spec
CONSTANTS
  Fields <- SmallFields
  FieldCounts <- SomeCounts
  IntValues <- ShortInt
  Hosts <- SomeHosts
  Ports <- SomePorts
  Sizes <- SomeSizes
  MaxEntries = 2
INVARIANTS
  PortUnderstood
  PasvAnnounced
  ListingFits
  SizesRight
