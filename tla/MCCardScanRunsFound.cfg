\* Every text of up to four characters.
SPECIFICATION MaskingSpec
CONSTANTS
  MinRep = 2  MaxRep = 4
  MinCard = 2  MaxCard = 4
  MinMask = 2  MaxMask = 3
  PhoneMiddle = 0
  MaskLen <- MCMaskLen
  Alphabet <- MCChars
  MaxText = 4
INVARIANT RunsFound
