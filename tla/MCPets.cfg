SPECIFICATION Spec
CONSTANTS
  Programs <- ClaimedStacks
  UpdateOnly <- UpdateStacks
  FieldWise <- FormStacks
  PhotoChecked <- PhotoStacks
  FreshIds <- SequenceStacks
  OneStep <- AtomicStacks
  w1 = w1
  w2 = w2
  n1 = n1
  n2 = n2
  s1 = s1
  s2 = s2
  Workers = {w1, w2}
  MaxId = 2
  Loaded = 1
  Names = {n1}
  Statuses = {s1, s2}
  NoPet = NoPet
  NoRequest = NoRequest
  Keep = Keep
SYMMETRY MCSymmetry
INVARIANTS
  TypeOK
PROPERTIES
  ImplementsApi
  UpdatesNeverCreate
  FormsKeepOtherFields
  PhotosOfExistingPets
  OnlyPostedPetsAreReplaced
