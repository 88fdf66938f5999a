CONSTANTS
  ann = ann
  bob = bob
  secret = secret
  guess = guess
  data = data
  admin = admin
  mink_db = mink_db
  missing_db = missing_db
  Null = Null
  UserTables <- MCUserTables
  Usernames = {ann, bob}
  Passwords = {secret, guess}
  Topics = {data, admin}
  AdminTopics = {admin}
  OptionLists <- MCOptionLists
  Databases = {mink_db}
  MaxOpen = 3
SPECIFICATION Spec
INVARIANTS
  TypeOK
PROPERTIES
  ImplementsPolicy
