SPECIFICATION Spec
CONSTANTS
  Names = {n1, n2}
  Strand = strand
  Pool = {w1}
  MaxServices = 2
  MaxAdds = 3
PROPERTIES ListingIsExact NameIsKept EndedIsForgotten
CHECK_DEADLOCK FALSE
