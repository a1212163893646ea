CHECK_DEADLOCK FALSE
CONSTANTS
  m1 = m1
  m2 = m2
  lunch = lunch
  taxi = taxi
  Message = {m1, m2}
  Size <- MCSize
  Photo = {lunch, taxi}
  PhotoOf <- MCPhotoOf
  MaxTx = 2
  MaxAtt = 2
  MaxMishaps = 1
  MaxEdits = 1
SPECIFICATION Spec
INVARIANT FailedCaptureDeletesNothing
