CONSTANTS
  inbox = inbox
  archive = archive
  lunch = lunch
  advert = advert
  test = test
  Item = {1, 2, 3}
  Mid = {lunch, advert, test}
  MidOf <- MCMidOf
  Folder = {inbox, archive}
  FolderOf <- MCFolderOf
  NoFolder = NoFolder
  Refused = {advert}
  MaxMishaps = 1
  MaxEdits = 0
SPECIFICATION Spec
PROPERTY NothingIsDropped
